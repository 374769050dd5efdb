SPECIFICATION Spec
CONSTANTS
  RingCap = 2
  SubCap = 1
  ReplayMax = 2
  HistoryMax = 1
  LiveCap = 2
  MaxSeq = 3
  Troubles = 0
  Clicks = 2
CHECK_DEADLOCK FALSE
INVARIANTS
  DropIsReplayed
