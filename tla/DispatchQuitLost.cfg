SPECIFICATION FairSpec
CONSTANTS
  N = 2
  QueueCap = 4
  MaxSends = 1
  SeqMod = 2
  InboxCap = 2
  Started = {0, 1, 2}
  MaxStarts = 1
  MaxKills = 0
  Stoppable = {0}
  Faults = FALSE
PROPERTIES
  QuitReachesAll
CHECK_DEADLOCK FALSE
