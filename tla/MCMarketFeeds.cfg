SPECIFICATION MCSpec
CONSTANTS
    Price = {1, 2, 3}
    Limit = 2
    MaxBuffer = 2
    MaxVersions = 5
    MaxFaults = 1
    MaxAge = 2
    Allowance = 1
    MaxTime = 4
    MaxWire = 2
    MaxSkew = 1
    MaxAdjust = 1
    MaxMishaps = 1
    Threshold = {0, 1}
    MaxQuota = 1
    AlertMaxAge = 2
    Cooldown = 1
    Retry = 1
    MaxMoment = 3
    MaxSwings = 3
    MaxChanges = 2
    MaxEvents = 2
INVARIANTS
    BookIsReal
    NothingSkipped
    QuoteIsTheNewest
    NobodyIsForgotten
PROPERTY OneAlertPerCrossing
\* The clocks of the quotes and of the alert stop at MaxTime and MaxMoment.
CHECK_DEADLOCK FALSE
