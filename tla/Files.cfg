SPECIFICATION FilesSpec
CONSTANTS
  Proc = {p1, p2}
  name1 = name1
  name2 = name2
  Name = {name1, name2}
  Path <- Paths
  NINODES = 4
  MAXCALLS = 4
  NULL = NULL
  NCPU = 3
  MAXREF = 2
  Page = {r1, r2}
  NDIRECT = 1
  NFILE = 3
  NOFILE = 2
  MAXIREF = 2
  NVMA = 2
  NVA = 3
  FLEN = 1
  BSIZE = 2
  MAXOPBLOCKS = 10
  NBITMAP = 13
  Count = {1, 7}
  Size = {0, 5}
  HomeBlock = {b1, b2, b3, b4, b5}
  RESERVED = 2
  LOGGED = 2
  LOGSIZE = 4
SYMMETRY FilesSymmetry
CHECK_DEADLOCK FALSE
INVARIANTS
  OnePlace
  RefsExact
  NlinkExact
  NeverFreedInUse
  CacheCoherent
  LocksMove
  DataInPlace
