SPECIFICATION ThreadsSpec
CONSTANTS
  Senders = {"MSAPM", "GPSONE_DAEMON"}
  PipeSize = 1
  MaxPosted = 2
  Failures = TRUE
  m1 = m1
  m2 = m2
  m3 = m3
  Messages = {m1, m2, m3}
  CreateFails = TRUE
CHECK_DEADLOCK FALSE
INVARIANTS
  DeletedInTime
  AnswersReachPipes
  QueueOutlivesReceiver
PROPERTIES
  PassedOnInOrder
  LaunchReturns
  DaemonsAreAnswered
  ImplementsMailbox
  EveryMessageEnds
  DestroyReturns
