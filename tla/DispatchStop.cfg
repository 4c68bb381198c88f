SPECIFICATION FairSpec
CONSTANTS
  N = 2
  QueueCap = 3
  MaxSends = 1
  SeqMod = 2
  InboxCap = 2
  Started = {0, 1, 2}
  MaxStarts = 1
  MaxKills = 0
  Stoppable = {0, 1}
  Faults = FALSE
INVARIANTS
  TypeOK
  QuitOrigin
  PopNonEmpty
PROPERTIES
  ServerStops
  ImplementsMailbox
CHECK_DEADLOCK FALSE
