SPECIFICATION FairSpec
CONSTANTS
    LONG = LONG
    SHORT = SHORT
    Side = {LONG, SHORT}
    Scale = 1000
    Step = 1
    MinQty = 1
    MaxQty = 1
    MaxRepairs = 1
    MaxChecks = 2
    MaxBase = 0
    MaxBatches = 1
    Mishaps = {"crash"}
    MaxMishaps = 1
PROPERTIES
    IntentSettles
    AttentionPauses
