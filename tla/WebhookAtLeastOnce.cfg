SPECIFICATION FairSpec
CONSTANTS
    Jobs = {j1, j2}
    None = None
    Workers = {w1, w2}
    Retries <- MCRetries
    RetryAfterCap = 4
    JitterDiv = 2
    MaxFaults = 1
PROPERTY AtLeastOnce
CHECK_DEADLOCK FALSE
