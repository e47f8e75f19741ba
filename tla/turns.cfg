CONSTANTS
    a = a
    b = b
    Conv <- TwoConvs
    MaxCached = 1
    Patient = TRUE
    MaxRequests = 3
    MaxRounds = 1
    MaxRestarts = 1
SPECIFICATION Spec
SYMMETRY Swap
INVARIANTS OnlyCutTurnsDangle NoTurnLost
PROPERTIES ActiveStaysCached 
CHECK_DEADLOCK FALSE
