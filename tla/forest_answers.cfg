SPECIFICATION Spec
CONSTANTS
  StructuredLimit = 2
  HardThreshold = 3
  FlatRows = 2
  IndexFragment = 2
  IndexMin = 2
  IndexMax = 2
  FragmentRows = 2
  SearchFragment = 4
  SearchLimit = 1
  ExhaustiveLimit = 8
  NLimit = 1
  MaxRows = 5
  MaxBatch = 2
  MaxNeighbors = 3
  CanFail = FALSE
INVARIANTS
  SearchesFill
