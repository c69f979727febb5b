SPECIFICATION Spec
CONSTANTS
  Capacity = 2
  PendingCapacity = 2
  SuccessTolerance = 2
  FailureTolerance = 1
  LengthInit = 1
  LengthMin = 1
  LengthMax = 2
  MaxWorth = 2
  MaxRows = 5
INVARIANTS
  PoolOK
  RowsAreWhatWasTold
  BaseIsBest
