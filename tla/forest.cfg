SPECIFICATION Spec
CONSTANTS
  StructuredLimit = 2
  HardThreshold = 3
  FlatRows = 3
  IndexFragment = 2
  IndexMin = 2
  IndexMax = 3
  FragmentRows = 2
  SearchFragment = 4
  SearchLimit = 2
  ExhaustiveLimit = 3
  NLimit = 2
  MaxRows = 7
  MaxBatch = 2
  MaxNeighbors = 3
  CanFail = TRUE
INVARIANTS
  FragmentsTile
  ForestOK
  CentroidNotPoisoned
  FullSearchesFill
PROPERTIES
  CompactionJoins
