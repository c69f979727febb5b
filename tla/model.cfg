SPECIFICATION Spec
CONSTANTS
    Weights = {1, 2, 4}
    Unit = 1
    DriftLimit = 1
    FirstRefit = 2
    Chunk = 2
    Unbounded = Unbounded
    Box = Box
    None = None
    MaxRows = 4
    MaxBatch = 2
    MaxOpens = 3
    CanCrash = TRUE
INVARIANTS
    ModelOK
    MomentsCoverRows
    RowsOfOneBounds
CHECK_DEADLOCK FALSE
