SPECIFICATION Spec
CONSTANTS
  RingCap = 2
  SubCap = 1
  ReplayMax = 2
  HistoryMax = 1
  LiveCap = 2
  MaxSeq = 3
  Troubles = 1
  Clicks = 3
CHECK_DEADLOCK FALSE
INVARIANTS
  NewestFirst
  StatusIsTrue
  NothingSkipped
  RestIsCaughtUp
