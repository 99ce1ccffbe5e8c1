SPECIFICATION FairSpec
CONSTANTS
  Organization = {a, b, c}  Request = {r1, r2, r3}  MaxSlots = 1  MaxWaiters = 2
  MaxFaults = 2  NoRequest = NoRequest  NoOrganization = NoOrganization
INVARIANT LaneCapacity
PROPERTIES NoStandoff TicketLostToTime
CHECK_DEADLOCK FALSE
