SPECIFICATION Spec
CONSTANTS
  Kinds = {"supl"}
  Answers = {"ACCEPT", "DENY"}
  MaxRequests = 3
  MaxRestarts = 1
  MaxEvents = 4
  Timeouts = TRUE
  CreateFails = FALSE
CHECK_DEADLOCK FALSE
INVARIANT FreedOnce
