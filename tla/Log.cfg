SPECIFICATION FairSpec
CONSTANTS
  Proc = {p1, p2}
  Block = {b1, b2}
  Val = {0, 1}
  MAXOPBLOCKS = 2
  OPBLOCKS = 2
  LOGSIZE = 4
  NLOG = 4
  MAXCRASH = 2
  NULL = NULL
INVARIANTS
  DurableWhenIdle
  LogFits
PROPERTIES
  ImplementsLogSpec
  SleeperWoken
