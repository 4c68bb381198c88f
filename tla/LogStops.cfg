SPECIFICATION FairSpec
CONSTANTS
  c1 = c1
  Clients = {c1}
  NoOne = NoOne
  Orders = {3}
  MaxMsgs = 1
  MaxLog = 1
  MaxRuns = 2
  Faults = TRUE
INVARIANTS
  FdSafe
  SenderBeforeEntry
PROPERTIES
  ClientStops
  ServerStops
CHECK_DEADLOCK FALSE
