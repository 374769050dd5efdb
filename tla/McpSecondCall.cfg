SPECIFICATION Spec
CONSTANTS
    h = h
    t = t
    Calls <- MCCalls
    KindOf <- MCKindOf
    None = None
    Retries = 1
    MaxFaults = 1
    PipeSize = 1
INVARIANT
    Served
CHECK_DEADLOCK FALSE
