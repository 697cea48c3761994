SPECIFICATION DevicesSpec
CONSTANTS
  Proc = {p1, p2, p3}
  Buf = {b1, b2}
  Block = {0, 1, 2}
  NBUCKET = 2
  MAXTICKS = 1
  MAXSHORT = 1
  NULL = NULL
  NUM = 7
  UINT16 = 14
  Peer = {q1, q2}
  Victims = {q1}
  Addr = {a1}
  LastMbuf = m4
  RX_RING_SIZE = 3
  TX_RING_SIZE = 2
  NBLOCKS = 7
  NDIRECT = 1
  NADDR_PER_BLOCK = 2
  MAXTRUNC = 1
  BSIZE = 2
  NMETA = 3
  MAXINODE = 4
SYMMETRY DevicesSymmetry
CHECK_DEADLOCK FALSE
INVARIANTS
  OneCopy
  ReadsItsBlock
  ResourcesAccounted
  ReleasedByDevice
  PacketsDelivered
  BlocksExact
