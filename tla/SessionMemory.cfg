SPECIFICATION FairSpec
CONSTANTS
    Sessions = {s1, s2}
    None = None
    Runners = {r1}
    Idle = 1
    Lookback = 5
    BatchMax = 1
    SummarizeMessageMin = 3
    MaxMessages = 2
    MaxFaults = 1
INVARIANTS
    CheckedHasNote
PROPERTIES
    OneFlushPerMessage
    QuietGetsNote
CHECK_DEADLOCK FALSE
