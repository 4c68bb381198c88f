SPECIFICATION FairSpec
CONSTANTS
  N = 2
  QueueCap = 2
  MaxSends = 2
  SeqMod = 3
  InboxCap = 4
  Started = {0, 1, 2}
  MaxStarts = 1
  MaxKills = 0
  Stoppable = {}
  Faults = FALSE
INVARIANTS
  InOrderOnce
PROPERTIES
  Delivered
