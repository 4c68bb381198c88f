SPECIFICATION Spec
CONSTANTS
  N = 2
  QueueCap = 1
  MaxSends = 1
  SeqMod = 1
  InboxCap = 1
  Started = {0, 1}
  MaxStarts = 2
  MaxKills = 1
  Stoppable = {0, 1}
  Faults = TRUE
INVARIANTS
  Routing
CHECK_DEADLOCK FALSE
