SPECIFICATION FairSpec
CONSTANTS
    LONG = LONG
    SHORT = SHORT
    Side = {LONG, SHORT}
    SourcePrice = 1
    TargetPrice = 1
    Tol = 2
    TolScale = 5
    HedgeScale = 3
    MaxAttempts = 1
    Bases <- LiveBases
    MaxLots = 1
    MaxPast = 0
    MaxBatches = 1
    MaxMishaps = 1
PROPERTY BatchSettles
CHECK_DEADLOCK FALSE
