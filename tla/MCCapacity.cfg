SPECIFICATION MCSpec
CONSTANTS
    Request = {r1, r2, r3}
    Minute = 3
    Limit = 3
    Reserve = 1
    CapacityReserve = 1
    Delay = {2}
    MaxTime = 4
    MaxForeign = 1
    MaxLosses = 1
    MaxBans = 1
    Key = {k1}
    ServedAge = 1
    MaxAge = 2
    RefreshAge = 0
    Allowance = 1
    Tolerance = 1
    MaxNow = 3
    MaxProcesses = 2
    MaxBuffer = 1
    MaxClockSteps = 1
    Offsets <- MCOffsets
INVARIANTS EstimateCovers LimitsKept AgeIsHonest
PROPERTY OnlyForward
CHECK_DEADLOCK FALSE
SYMMETRY Symmetry
