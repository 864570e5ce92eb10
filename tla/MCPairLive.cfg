SPECIFICATION FairSpec
CONSTANTS
    long = long
    short = short
    Side = {long, short}
    MinQty = 2
    MaxQty = 2
    MaxRepairs = 1
    MaxWatch = 1
    MaxBase = 0
    MaxBatches = 1
    MaxMishaps = 0
PROPERTIES
    BatchSettles
    PausedCycleCloses
