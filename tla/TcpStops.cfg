SPECIFICATION FairSpec
CONSTANTS
  c1 = c1
  c2 = c2
  Clients = {c1, c2}
  NoClient = NoClient
  MaxClients = 2
  MaxTexts = 0
  Killable = {c1}
  Faults = TRUE
INVARIANTS
  TypeOK
PROPERTIES
  
  ServerStops
  ClientsEnd
CHECK_DEADLOCK FALSE
