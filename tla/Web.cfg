SPECIFICATION Spec
CONSTANTS
  Order = {o1}  Driver = {d1, d2}  Handler = {h1, h2}
  MaxRequests = 3  MaxAnswers = 1  MaxDrops = 1  MaxTalk = 1
  NoDriver = NoDriver  NoOrder = NoOrder  OtherOrder = OtherOrder
INVARIANTS
  ServedIsPaid AnswerMeetsItsTotal FollowUpUnlessDropped WinnerSetsFee
PROPERTY EstadoFollowsTable
SYMMETRY WebSymmetry
CHECK_DEADLOCK FALSE
