SPECIFICATION Spec
CONSTANTS
  c1 = c1
  Clients = {c1}
  NoOne = NoOne
  Orders = {2, 4}
  MaxMsgs = 3
  MaxLog = 1
  MaxRuns = 1
  Faults = FALSE
INVARIANTS
  TypeOK
  AtMostOneBelow
  CommandNotOverwritten
CHECK_DEADLOCK FALSE
