SPECIFICATION Spec
CONSTANTS
  NBoxes = 3
  NClasses = 2
  ScoreThreshold = 4
  NMSThreshold = 8
  XScale = 1
  YScale = 2
  Outputs <- SomeOutputs
  Ids <- SomeIds
  ByteMod = 8
INVARIANTS
  ChecknumIsSum
CHECK_DEADLOCK FALSE
