SPECIFICATION Spec
CONSTANTS
  Proc = {p1}
  NVMA = 2
  NVA = 4
  FLEN = 3
  Length = {1, 2, 3, 4}
  Brk = {}
  NULL = NULL
CHECK_DEADLOCK FALSE
INVARIANT PagesInOrder
