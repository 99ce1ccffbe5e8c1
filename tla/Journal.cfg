SPECIFICATION JournalSpec
CONSTANTS
  Event = {e1, e2, e3}  MaxSegments = 2  SegmentMax = 2  MaxLines = 4
  MaxUnlocked = 2  MaxFaults = 2
  NoEvent = NoEvent  NoFooter = NoFooter
INVARIANTS AckedReadBack AheadOnlyByDamage FilledInOrder DestroyedIsCopied
PROPERTY ImplementsLog
SYMMETRY EventSymmetry
CHECK_DEADLOCK FALSE
