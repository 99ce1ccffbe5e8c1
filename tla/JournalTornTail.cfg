SPECIFICATION JournalSpec
CONSTANTS
  Event = {e1, e2}  MaxSegments = 2  SegmentMax = 3  MaxLines = 4
  MaxUnlocked = 0  MaxFaults = 1
  NoEvent = NoEvent  NoFooter = NoFooter
INVARIANT TornTailRecovers
CHECK_DEADLOCK FALSE
