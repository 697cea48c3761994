SPECIFICATION FairSpec
CONSTANTS
  p1 = p1
  c0 = c0
  NULL = NULL
  Proc = {p1, p2}
  CPU = {c0}
  BOOTCPU = c0
  INITPROC = p1
  RUNQ_LEN = 3
  AGE = 1
  DEFPRIO = 1
  PRIO = {}
  MAXTIME = 2
PROPERTIES
  NoStarvation
