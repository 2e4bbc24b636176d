SPECIFICATION ServiceSpec
CONSTANTS
  c1 = c1
  c2 = c2
  Clients = {c1, c2}
  Daemons = {c2}
  Kinds = {"ATL", "WIFI", "DS"}
  EngineRestarts = TRUE
  MaxMsgs = 3
  MaxCalls = 2
INVARIANTS
  NobodyLeftBehind
  StateFitsConnection
PROPERTIES
  RequestAnswered
  CloseConfirmed
  ImplementsSharedNif
