SPECIFICATION Spec
CONSTANTS
    LONG = LONG
    SHORT = SHORT
    Side = {LONG, SHORT}
    Scale = 2
    Step = 1
    MinQty = 2
    MaxQty = 2
    MaxRepairs = 1
    MaxChecks = 1
    MaxBase = 0
    MaxBatches = 1
    Mishaps = {"manual", "retry", "crash"}
    MaxMishaps = 1
SYMMETRY SideSymmetry
INVARIANTS
    Books
    SubmitOnce
    NoStrayOrder
    BaseKept
PROPERTY
    EndsHedged
