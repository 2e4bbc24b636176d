SPECIFICATION Spec
CONSTANTS
  c1 = c1
  c2 = c2
  Clients = {c1, c2}
  Results = {"SUCCESS", "BUSY", "UNSUPPORTED"}
  MaxRetries = 2
  MaxMsgs = 2
  MaxTimers = 2
INVARIANT PendingHasCall
