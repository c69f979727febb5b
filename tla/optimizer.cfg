SPECIFICATION Spec
CONSTANTS
  NumInit = 2
  ToleranceRows = 3
  SuccessTolerance = 2
  LengthInit = 1
  LengthMin = 0
  LengthMax = 2
  MaxWorth = 2
  MaxBatch = 2
  MaxLag = 3
  CanFail = TRUE
INVARIANTS
  TypeOK
  IncumbentIsBest
  BestIsIncumbent
PROPERTIES
  
  LostRowsStayLost
  
