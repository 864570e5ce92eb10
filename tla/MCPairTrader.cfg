SPECIFICATION Spec
CONSTANTS
    long = long
    short = short
    Side = {long, short}
    MinQty = 1
    MaxQty = 2
    MaxRepairs = 1
    MaxWatch = 1
    MaxBase = 0
    MaxBatches = 1
    MaxMishaps = 1
SYMMETRY SideSymmetry
INVARIANTS
    IInv
    SubmitOnce
    NoStrayOrder
    Books
    BaseKept
    Hedged
PROPERTY
    LedgerSpec
