SPECIFICATION Spec
CONSTANTS
  Worker = {w1, w2, w3}  Adjustment = {a1, a2}
  MaxTurns = 2  MaxRequests = 8  Base = 1
  NoTurn = NoTurn  NoAdjustment = NoAdjustment
INVARIANTS ClosedTurnBalances RefundPaidOnce ShardCountsOpen
PROPERTY RefundWithinDrawer
SYMMETRY DrawerSymmetry
CHECK_DEADLOCK FALSE
