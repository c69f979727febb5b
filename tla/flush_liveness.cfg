SPECIFICATION FairSpec
CONSTANTS
  Clients = {c1, c2}
  Workers = {w1, w2}
  Metrics = {m0, m1}
  Unscaled = m0
  None = None
  SoftThreshold = 1
  HardThreshold = 2
  NLimit = 1
  OpenRows = 0
  MaxRows = 2
  MaxBatch = 1
  Ops = {"add", "metric", "schedule", "search"}
  CanFail = TRUE
  WritersFirst = TRUE
PROPERTIES
  OperationsReturn
  FlushDrains
