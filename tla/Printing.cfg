SPECIFICATION FairSpec
CONSTANTS
  e1 = e1  e2 = e2  j1 = j1  j2 = j2  NoJob = NoJob
  Event = {e1}  Critical = {}  Worker = {w1}
  Job = {j1}  JobsOf <- OneTicket
  Receipt = {j1}  Agent = {a1}  Operator = {o1}
  MaxAttempts = 1  MaxMessages = 1  MaxRequests = 2
INVARIANTS PrintTypeOK
PROPERTIES JobsPrinted SalePrinted JobsEnd
CHECK_DEADLOCK FALSE
