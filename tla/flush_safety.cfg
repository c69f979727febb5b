SPECIFICATION Spec
CONSTANTS
  Clients = {c1, c2}
  Workers = {w1, w2, w3}
  Metrics = {m0, m1, m2}
  Unscaled = m0
  None = None
  SoftThreshold = 1
  HardThreshold = 3
  NLimit = 1
  OpenRows = 1
  MaxRows = 4
  MaxBatch = 2
  Ops = {"add", "metric", "wait", "sync", "persist", "schedule", "search"}
  CanFail = TRUE
  WritersFirst = FALSE
SYMMETRY Symmetric
INVARIANTS
  TypeOK
  
  DetachedBuildIsCurrent
  MutatorsAlone
  OneOwnerPerThread
  CacheCoherent
  
  NobodyIsStuck
PROPERTIES
  IndexShrinksOnlyOnRebuild
  StepsRunOut
  SearchesSeeEveryRow
