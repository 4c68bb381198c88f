SPECIFICATION Spec
CONSTANTS
  c1 = c1
  c2 = c2
  Clients = {c1, c2}
  NoClient = NoClient
  MaxClients = 2
  MaxTexts = 2
  Killable = {}
  Faults = FALSE
INVARIANTS
  OwnConnection
  StreamIntact
CHECK_DEADLOCK FALSE
