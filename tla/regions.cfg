SPECIFICATION Spec
CONSTANTS
  NumRegions = 2
  NumInit = 1
  SuccTolerance = 2
  FailTolerance = 2
  LengthInit = 1
  LengthMax = 1
  MaxWorth = 1
  MaxArms = 2
  MaxAsks = 2
  MaxTrials = 1
  CanFail = TRUE
INVARIANTS
  RegionsOK
  TrialsAreOfTheirRegion
PROPERTIES
  FailedTellMovesNoRegion
  ImprovedRegionKeepsItsLength
  EveryRegionRestarts
