SPECIFICATION FairSpec
CONSTANTS
  c1 = c1
  c2 = c2
  d1 = d1
  d2 = d2
  Clients = {c1, c2}
  Wrappers = {c2}
  Delegates = {d1, d2}
  Delays = {1, 3}
  TicksPerSec = 2
  MaxTime = 4
  OthersDelete = TRUE
  NoClient = NoClient
  NoTimer = NoTimer
CHECK_DEADLOCK FALSE
INVARIANTS
  SoonestIsArmed
  NoDanglingDelegate
PROPERTY TimerRunsOut
