SPECIFICATION LabSpec
CONSTANTS
  NumMessages = 2
  Stoppable = {1, 3}
  Faults = TRUE
  PipeCap = 1
  MaxOut = 3
  Servers = {s1, s2}
  Callers = {c1, c2}
  Nobody = Nobody
  Killable = {s1, c1}
  BufLen = 3
  Letters = 2
  Reads = 1
  Users = {u1, u2}
  NumWorkers = 2
  MaxBlocks = 1
  NUM = 2
INVARIANTS
  LabTypes
  Token
  SourceRight
  ThreeStarts
  WholeOutput
  LockStepOrder
  QuietReadWhole
  Accounted
  WriteLocked
  ParentsLast
PROPERTIES
  ParentsEnd
  LockStepEnds
  HaltParks
CHECK_DEADLOCK FALSE
