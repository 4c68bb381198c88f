SPECIFICATION FairSpec
CONSTANTS
  N = 1
  SockCap = 2
  Targets = {}
  Flaps = {}
  Faults = FALSE
PROPERTIES
  OrderObeyed
CHECK_DEADLOCK FALSE
