SPECIFICATION Spec
CONSTANTS
    Requests = {r1, r2, r3}
    Keys = {k1}
    NoKey = NoKey
    Hashes = {h1, h2}
    AsyncHashes = {h1}
    TTL = 1
    MaxTime = 3
    MaxFaults = 1
SYMMETRY Symmetry
INVARIANTS
    AnswerIsOwn
    OneJobInSequence
    RetryGetsJob
CHECK_DEADLOCK FALSE
