SPECIFICATION FairSpec
CONSTANTS
    h = h
    t = t
    Calls <- MCCalls
    KindOf <- MCKindOf
    None = None
    Retries = 1
    MaxFaults = 1
    PipeSize = 1
INVARIANTS
    OwnAnswer
    PipesServed
PROPERTIES
    CallsEnd
    OnlyAZombieStays
CHECK_DEADLOCK FALSE
