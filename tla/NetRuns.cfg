SPECIFICATION FairSpec
CONSTANTS
  N = 2
  SockCap = 2
  Targets = {{0}, {1}, {0, 1, 2}}
  Flaps = {1, 2}
  Faults = TRUE
INVARIANTS
  TypeOK
  HandshakeAlone
  OrdersAfterHandshake
PROPERTIES
  
  EveryReportRead
  MonitorsStop
CHECK_DEADLOCK FALSE
