SPECIFICATION FairSpec
CONSTANTS
  c1 = c1
  Clients = {c1}
  NoClient = NoClient
  MaxClients = 1
  MaxTexts = 0
  Killable = {}
  Faults = FALSE
PROPERTIES
  QuitInterpreted
CHECK_DEADLOCK FALSE
