SPECIFICATION MCSpec
CONSTANTS
    Account = {1, 2}
    Group = {g1, g2}
    Long <- MCLong
    Short <- MCShort
    Worker = {w1, w2}
    NoGroup = NoGroup
    Leg = {long, short}
    MaxWatch = 1
    MaxSent = 2
    MaxHand = 1
    MaxLag = 1
    FaultAge = 2
    RecoveryAge = 1
    SampleMaxAge = 1
    MaxGap = 2
    Backoff = 1
    MaxClock = 3
    MaxRuns = 1
    MaxShocks = 1
SYMMETRY MCSymmetry
INVARIANTS ExclusiveOwnership NoStandoff
PROPERTIES BaseIsSound AlertsAreAboutRest
\* The clock of the alert stops at MaxClock.
CHECK_DEADLOCK FALSE
