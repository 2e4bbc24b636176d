SPECIFICATION FairSpec
CONSTANTS
  Kinds = {"supl", "es"}
  Answers = {"ACCEPT"}
  MaxRequests = 3
  MaxRestarts = 1
  MaxEvents = 3
  Timeouts = TRUE
  CreateFails = FALSE
CHECK_DEADLOCK FALSE
INVARIANTS
  PendingHasThread
  FreedOnceWithoutRestart
  AnswersAreTheUsers
PROPERTY EveryRequestSettled
