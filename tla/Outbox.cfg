SPECIFICATION Spec
CONSTANTS
  e1 = e1  e2 = e2  j1 = j1  j2 = j2  NoJob = NoJob
  Event = {e1, e2}  Critical = {e2}  Worker = {w1, w2}
  Job = {j1, j2}  JobsOf <- SaleAndAlert
  Receipt = {}  Agent = {}  Operator = {}
  MaxAttempts = 2  MaxMessages = 2  MaxRequests = 1
INVARIANTS OneWorkerUnlessSwept PaidSaleHasJobs
PROPERTIES DoneUnlessSwept EventsDispatched
SYMMETRY WorkerSymmetry
CHECK_DEADLOCK FALSE
