SPECIFICATION FairSpec
CONSTANTS
  Surroundings <- MCSurroundings
  IntermediatePos = TRUE
INVARIANTS
  StatusIsFollowed
  ModemSessionKnown
  SessionSurvives
PROPERTY StopTakesEffect
