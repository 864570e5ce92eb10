SPECIFICATION Spec
CONSTANTS
    LONG = LONG
    SHORT = SHORT
    Side = {LONG, SHORT}
    SourcePrice = 1
    TargetPrice = 1
    Tol = 2
    TolScale = 5
    HedgeScale = 3
    MaxAttempts = 1
    Bases <- MCBases
    MaxLots = 2
    MaxPast = 3
    MaxBatches = 1
    MaxMishaps = 1
INVARIANTS OpenedFirst EndsMatched RoundsBounded
CHECK_DEADLOCK FALSE
SYMMETRY Symmetry
