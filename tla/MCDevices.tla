----------------------------- MODULE MCDevices -----------------------------
(***************************************************************************)
(* What is kept on the disk and how it gets there, and the network card,   *)
(* on small instances: the buffer cache (Bcache.tla), the disk driver      *)
(* (Virtio.tla), blocks of files (Blocks.tla), the image mkfs makes        *)
(* (Mkfs.tla), and the card with its sockets (Net.tla).  They share no     *)
(* variable, so that their interleavings show nothing that each of them    *)
(* alone does not: a behaviour chooses one of them in its first state, and *)
(* the others stay where they are.  The sets of model values are shared    *)
(* between components, which keeps the symmetry group small.  Blocks of    *)
(* files come in two instances: two files on a small disk, and one file    *)
(* that can grow to its full size.                                         *)
(***************************************************************************)
EXTENDS Bcache, TLC, Sequences

CONSTANTS NUM, UINT16, Peer, Victims, Addr, LastMbuf, RX_RING_SIZE, TX_RING_SIZE,
          NBLOCKS, NDIRECT, NADDR_PER_BLOCK, MAXTRUNC, BSIZE, NMETA, MAXINODE

ASSUME DeviceConstants ==
  /\ NUM \in Nat /\ NUM >= 3 /\ UINT16 \in Nat /\ UINT16 > NUM /\ UINT16 % NUM = 0
  /\ RX_RING_SIZE \in Nat /\ RX_RING_SIZE >= 2 /\ TX_RING_SIZE \in Nat /\ TX_RING_SIZE >= 2
  /\ Victims \subseteq Peer
  /\ NBLOCKS \in Nat /\ NDIRECT \in Nat /\ NADDR_PER_BLOCK \in Nat \ {0} /\ MAXTRUNC \in Nat
  /\ BSIZE \in Nat \ {0} /\ {NMETA, MAXINODE} \subseteq Nat

VARIABLES
  free, next, info, busy, avail, avail_idx, used, used_id, used_idx, seen, inflight, irq, intr,
  dpc, didx,
  nfree, rx, rdd, rpkt, rdh, rdt, tx, tdh, tdt, nirq, nintr, sockets, addr, owners, rxq,
  npc, s, m, killed, panicked,
  bitmap, addrs, contents, size, bpc, pos, truncs, bpanicked,
  freeinode, freeblock, din, indirect, dir, map, reading, overrun,
  focus  \* the component that runs

diskvars == <<free, next, info, busy, avail, avail_idx, used, used_id, used_idx, seen, inflight,
              irq, intr, dpc, didx>>
netvars == <<nfree, rx, rdd, rpkt, rdh, rdt, tx, tdh, tdt, nirq, nintr, sockets, addr, owners, rxq,
             npc, s, m, killed, panicked>>
blockvars == <<bitmap, addrs, contents, size, bpc, pos, truncs, bpanicked>>
imagevars == <<freeinode, freeblock, din, indirect, dir, map, reading, overrun>>

Disk == INSTANCE Virtio WITH pc <- dpc, idx <- didx
Sockets == INSTANCE Net WITH Proc <- Peer, Sock <- Buf, Mbuf <- Proc \cup {LastMbuf},
                             free <- nfree, irq <- nirq, intr <- nintr, pc <- npc
Two == INSTANCE Blocks WITH Inode <- {1, 2}, data <- contents, pc <- bpc, panicked <- bpanicked
One == INSTANCE Blocks WITH Inode <- {1}, NBLOCKS <- 12, data <- contents, pc <- bpc,
                            panicked <- bpanicked
Image == INSTANCE Mkfs WITH NINDIRECT <- NADDR_PER_BLOCK, bitmap <- map, open <- reading

\* A component that does not run.
DiskOff ==
  /\ free = 0 /\ next = 0 /\ info = 0 /\ busy = 0 /\ avail = 0 /\ avail_idx = 0 /\ used = 0
  /\ used_id = 0 /\ used_idx = 0 /\ seen = 0 /\ inflight = 0 /\ irq = 0 /\ intr = 0 /\ dpc = 0
  /\ didx = 0
NetOff ==
  /\ nfree = 0 /\ rx = 0 /\ rdd = 0 /\ rpkt = 0 /\ rdh = 0 /\ rdt = 0 /\ tx = 0 /\ tdh = 0
  /\ tdt = 0 /\ nirq = 0 /\ nintr = 0 /\ sockets = 0 /\ addr = 0 /\ owners = 0 /\ rxq = 0
  /\ npc = 0 /\ s = 0 /\ m = 0 /\ killed = 0 /\ panicked = 0
BlocksOff ==
  /\ bitmap = 0 /\ addrs = 0 /\ contents = 0 /\ size = 0 /\ bpc = 0 /\ pos = 0 /\ truncs = 0
  /\ bpanicked = 0
ImageOff ==
  /\ freeinode = 0 /\ freeblock = 0 /\ din = 0 /\ indirect = 0 /\ dir = 0 /\ map = 0 /\ reading = 0
  /\ overrun = 0

DevicesInit ==
  /\ Init
  /\ focus \in {"bcache", "disk", "one", "two", "mkfs", "net"}
  /\ focus # "bcache" => logged = {}
  /\ IF focus = "disk" THEN Disk!Init ELSE DiskOff
  /\ IF focus = "net" THEN Sockets!Init ELSE NetOff
  /\ CASE focus = "one" -> One!Init [] focus = "two" -> Two!Init [] OTHER -> BlocksOff
  /\ IF focus = "mkfs" THEN Image!Init ELSE ImageOff
DevicesNext ==
  /\ \/ focus = "bcache" /\ Next /\ UNCHANGED <<diskvars, netvars, blockvars, imagevars>>
     \/ focus = "disk" /\ Disk!Next /\ UNCHANGED <<vars, netvars, blockvars, imagevars>>
     \/ focus = "net" /\ Sockets!Next /\ UNCHANGED <<vars, diskvars, blockvars, imagevars>>
     \/ focus = "one" /\ One!Next /\ UNCHANGED <<vars, diskvars, netvars, imagevars>>
     \/ focus = "two" /\ Two!Next /\ UNCHANGED <<vars, diskvars, netvars, imagevars>>
     \/ focus = "mkfs" /\ Image!Next /\ UNCHANGED <<vars, diskvars, netvars, blockvars>>
  /\ UNCHANGED focus
DevicesSpec ==
  DevicesInit /\ [][DevicesNext]_<<vars, diskvars, netvars, blockvars, imagevars, focus>>

DevicesSymmetry == Permutations(Proc) \cup Permutations(Buf)

\* What is shared is accounted for: reference counts of buffers, descriptors of the disk
\* driver, and packet buffers between the card and readers.
ResourcesAccounted ==
  /\ focus = "bcache" => RefcntExact
  /\ focus = "disk" => Disk!DescriptorsAccounted
  /\ focus = "net" => Sockets!MbufOnePlace

\* virtio_disk_intr() releases a process when its own request is complete.
ReleasedByDevice == focus = "disk" => Disk!ReleasedByDevice

\* e1000_recv() hands packets on in order and gives descriptors back in order;
\* sockrecvudp() wakes readers, and sockclose() leaves no packet behind.
PacketsDelivered == focus = "net" => Sockets!RingInOrder /\ Sockets!PacketsReachReaders

\* balloc(), bfree(), bmap() and itrunc() keep the bitmap and the files in agreement,
\* and bmap() finds every block below the size of a file.  The bitmap and the files of the
\* image that mkfs makes agree too, unless a file is too long for mkfs; its root directory
\* may have a size of one block too much.
BlocksExact ==
  /\ focus = "one" => One!BlocksExact /\ One!NoHoles
  /\ focus = "two" => Two!BlocksExact /\ Two!NoHoles
  /\ focus = "mkfs" => Image!ImageConsistent
=============================================================================
