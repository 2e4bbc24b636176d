SPECIFICATION FairSpec
CONSTANTS
  MaxCalls = 2
  MaxRestarts = 1
CHECK_DEADLOCK FALSE
PROPERTY ServerStaysBuffered
