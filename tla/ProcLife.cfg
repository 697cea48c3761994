SPECIFICATION LifeSpec
CONSTANTS
  NPROC = 4
  Victims = {2, 3}
  NULL = NULL
  MAXARGS = 3
  NOFILE = 5
  MAXTOKENS = 4
CHECK_DEADLOCK FALSE
INVARIANTS
  ParentAlive
  NoLostExit
  FreedSlotIsQuiet
  OnlyStaleParentBlocks
  ShellRuns
