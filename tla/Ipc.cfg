SPECIFICATION IpcSpec
CONSTANTS
  NPROC = 3
  INITPROC = 1
  SEMPROC = 4
  N = 2
  Victims = {3, 4}
  NULL = NULL
  PIPESIZE = 2
  UINT = 4
  MAXN = 1
  Reader = {r1, r2}
  ReaderVictims = {r1}
  INPUT_BUF = 3
  CONS_UINT = 6
  CONS_MAXN = 3
  UART_TX_BUF_SIZE = 4
  Task = {t1, t2}
  LastTask = t3
  CPU = {c0, c1}
  MAXLOCKS = 2
  MAXALARM = 2
  MAXLATE = 2
  Reg = {0, 1}
SYMMETRY Symmetry
INVARIANTS
  StackExclusive
  SleepLockMutex
  NoLostWakeup
  SchedHoldsOneLock
  ResourcesExact
  NobodyForgotten
  TrapsReturn
PROPERTIES
  ImplementsQueues
