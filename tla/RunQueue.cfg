SPECIFICATION Spec
CONSTANTS
  p1 = p1
  c0 = c0
  NULL = NULL
  Proc = {p1, p2, p3}
  CPU = {c0, c1}
  BOOTCPU = c0
  INITPROC = p1
  RUNQ_LEN = 2
  AGE = 1
  DEFPRIO = 1
  PRIO = {5}
  MAXTIME = 1
SYMMETRY ProcSymmetry
INVARIANTS
  ListOK
  TickHasNode
  BucketFresh
  StatesAgree
PROPERTIES
  ImplementsRunqSpec
