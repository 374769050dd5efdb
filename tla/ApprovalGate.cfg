SPECIFICATION FairSpec
CONSTANTS
    Calls = {c1, c2}
    None = None
    Operators = {o1, o2}
    TTL = 2
    MaxFaults = 1
INVARIANTS
    RunOnceApproved
    ToldTheDecision
    FailedRunShows
PROPERTIES
    SingleResolution
    ApprovedRuns
CHECK_DEADLOCK FALSE
