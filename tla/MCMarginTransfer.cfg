SPECIFICATION FairSpec
CONSTANTS
    long = long
    short = short
    Side = {long, short}
    MaxRequests = 2
    MaxMishaps = 1
INVARIANTS
    PostedOnce
    VerdictTrue
    ReadsTellTheTruth
PROPERTY
    PendingClears
