SPECIFICATION Spec
CONSTANTS
  Surroundings <- OnlyRestarts
  IntermediatePos = TRUE
INVARIANT StopIsFinal
