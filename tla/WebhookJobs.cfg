SPECIFICATION FairSpec
CONSTANTS
    Jobs = {j1, j2}
    None = None
    Workers = {w1, w2}
    Retries <- MCRetries
    RetryAfterCap = 4
    JitterDiv = 2
    MaxFaults = 1
INVARIANTS
    LeaseHeld
    DoneMeansAcked
    DeadMeansGivenUp
    AttemptsMatchPosts
    RunningIsWorkedOn
PROPERTIES
    NoPostAfterVerdict
    DeliverySpec
    SettlesOrStranded
CHECK_DEADLOCK FALSE
