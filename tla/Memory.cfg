SPECIFICATION MemorySpec
CONSTANTS
  Proc = {p1, p2, p3}
  NVA = 2
  Page = {r1, r2}
  Val = {0, 1}
  JUNK = JUNK
  NULL = NULL
  FAN = 2
  MAXSZ = 3
  MAXBRK = 2
  MAXARG = 1
  MAXDROP = 1
  MINCORE = 3
  HEAPMAX = 11
SYMMETRY Symmetry
CHECK_DEADLOCK FALSE
INVARIANTS
  CountsExact
  WritableIsPrivate
  ImagesWhole
  HeapExact
PROPERTIES
  ImplementsPrivateMemory
