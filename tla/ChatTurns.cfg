SPECIFICATION SpecTurns
CONSTANTS
    Turns = {t1, t2}
    MaxIter = 2
    Cap = 6
    MaxCalls = 2
    Contents <- Texts
    MaxRequests = 2
    MaxTroubles = 1
SYMMETRY Symmetry
INVARIANTS
    PromptsWellFormed
    SanitizeIsSound
    ResultsAreOwn
    ResultsAreKept
CHECK_DEADLOCK FALSE
