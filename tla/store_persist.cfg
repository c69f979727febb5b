SPECIFICATION Spec
CONSTANTS
  Metrics = {m0, m1, m2}
  Unscaled = m0
  None = None
  Torn = Torn
  SoftThreshold = 1
  HardThreshold = 2
  NLimit = 1
  MaxRows = 3
  MaxBatch = 2
  CanFail = FALSE
SYMMETRY ScaledMetrics
INVARIANTS
  PersistedIndexIsReopened
