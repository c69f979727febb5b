SPECIFICATION Spec
CONSTANTS
    Weights = {1, 2}
    Unit = 1
    DriftLimit = 1
    FirstRefit = 2
    Chunk = 2
    Unbounded = Unbounded
    Box = Box
    None = None
    MaxRows = 1
    MaxBatch = 1
    MaxOpens = 2
    CanCrash = FALSE
INVARIANTS
    ReopenedBounds
CHECK_DEADLOCK FALSE
