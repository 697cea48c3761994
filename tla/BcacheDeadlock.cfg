SPECIFICATION Spec
CONSTANTS
  Proc = {p1, p2, p3}
  Buf = {b1, b2, b3}
  Block = {0, 1, 2, 3, 4}
  NBUCKET = 3
  MAXTICKS = 0
  MAXSHORT = 0
  NULL = NULL
CHECK_DEADLOCK FALSE
INVARIANTS
  NoCircularWait
