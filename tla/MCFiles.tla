------------------------------ MODULE MCFiles ------------------------------
(***************************************************************************)
(* What the kernel hands out to files and processes, on small instances:   *)
(* pages (Kalloc.tla); inodes and names (Files.tla), the table of open     *)
(* files (Descriptors.tla), reading and writing (FileIO.tla), room in the  *)
(* log (Log.tla) and mapped files (Mmap.tla).  They share no variable      *)
(* here, so that their interleavings show nothing that each of them alone  *)
(* does not: a behaviour chooses one of them in its first state, and the   *)
(* others stay where they are.  The log has more blocks to write than      *)
(* room, and no crashes; the run log has those.  Mapped files come in two  *)
(* instances: two processes with lengths that are positive, and one that   *)
(* gives any length to mmap(), munmap() and sbrk().                        *)
(***************************************************************************)
EXTENDS Kalloc, Sequences, TLC

CONSTANTS Proc, Name, Path, NINODES, MAXCALLS,
          name1, name2, NFILE, NOFILE, MAXIREF, NVMA, NVA, FLEN,
          BSIZE, NDIRECT, MAXOPBLOCKS, NBITMAP, Count, Size,
          HomeBlock, RESERVED, LOGGED, LOGSIZE  \* of the log

ASSUME FileConstants ==
  /\ NINODES \in Nat \ {0, 1} /\ MAXCALLS \in Nat
  /\ NFILE \in Nat \ {0} /\ NOFILE \in Nat \ {0} /\ MAXIREF \in Nat \ {0}
  /\ NVMA \in Nat \ {0} /\ NVA \in Nat \ {0, 1} /\ FLEN \in Nat \ {0}
  /\ BSIZE \in Nat \ {0} /\ NDIRECT \in Nat
  /\ MAXOPBLOCKS \in Nat \ 0 .. 5 /\ NBITMAP \in Nat /\ Count \subseteq Nat \ {0}
  /\ Size \subseteq Nat

VARIABLES
  disk, mem, ent, ref, valid, lock, fd, fpc, op, path, new, dp, ip, q, ifreeing, calls, lost,
  panicked,
  fref, type, obj, objref, ofile, mapped, live, todo,
  writable, mdisk, off, mref, mfd, alive, sz, vma, mmem, pw, strange, mpanic,
  foff, fsize, mode, nblk, call, mine, fault,
  home, logd, head, cache, pin, lh, outstanding, committing, lpc, buf, left, tail, overflow,
  crashes,
  focus  \* the component that runs

filevars == <<disk, mem, ent, ref, valid, lock, fd, fpc, op, path, new, dp, ip, q, ifreeing, calls,
              lost, panicked>>
tablevars == <<fref, type, obj, objref, ofile, mapped, live, todo>>
mapvars == <<writable, mdisk, off, mref, mfd, alive, sz, vma, mmem, pw, strange, mpanic>>
iovars == <<foff, fsize, mode, nblk, call, mine, fault>>
logvars == <<home, logd, head, cache, pin, lh, outstanding, committing, lpc, buf, left, tail,
             overflow, crashes>>

\* A name in the root directory, another one, and one in a subdirectory.
Paths == {<<name1>>, <<name2>>, <<name1, name2>>}

Names == INSTANCE Files WITH pc <- fpc, freeing <- ifreeing
Open == INSTANCE Descriptors WITH ref <- fref, vma <- mapped, alive <- live
Maps == INSTANCE Mmap WITH Length <- 1 .. NVA, Brk <- {}, disk <- mdisk, ref <- mref, fd <- mfd,
                           mem <- mmem, panicked <- mpanic
Alone == INSTANCE Mmap WITH Proc <- {"p"}, Length <- - NVA .. NVA,
                            Brk <- {-2, -1, 1}, disk <- mdisk, ref <- mref, fd <- mfd,
                            mem <- mmem, panicked <- mpanic
IO == INSTANCE FileIO WITH off <- foff, size <- fsize, NADDR_PER_BLOCK <- 4
Room == INSTANCE Log WITH Block <- HomeBlock, Val <- {0}, MAXOPBLOCKS <- RESERVED,
                          OPBLOCKS <- LOGGED, NLOG <- LOGSIZE, MAXCRASH <- 0, disk <- home,
                          pc <- lpc, panicked <- overflow

\* A component that does not run.
NamesOff ==
  /\ disk = 0 /\ mem = 0 /\ ent = 0 /\ ref = 0 /\ valid = 0 /\ lock = 0 /\ fd = 0 /\ fpc = 0 /\ op = 0
  /\ path = 0 /\ new = 0 /\ dp = 0 /\ ip = 0 /\ q = 0 /\ ifreeing = 0 /\ calls = 0 /\ lost = 0
  /\ panicked = 0
OpenOff ==
  fref = 0 /\ type = 0 /\ obj = 0 /\ objref = 0 /\ ofile = 0 /\ mapped = 0 /\ live = 0 /\ todo = 0
MapsOff ==
  /\ writable = 0 /\ mdisk = 0 /\ off = 0 /\ mref = 0 /\ mfd = 0 /\ alive = 0 /\ sz = 0 /\ vma = 0
  /\ mmem = 0 /\ pw = 0 /\ strange = 0 /\ mpanic = 0
IOOff == foff = 0 /\ fsize = 0 /\ mode = 0 /\ nblk = 0 /\ call = 0 /\ mine = 0 /\ fault = 0
RoomOff ==
  /\ home = 0 /\ logd = 0 /\ head = 0 /\ cache = 0 /\ pin = 0 /\ lh = 0 /\ outstanding = 0
  /\ committing = 0 /\ lpc = 0 /\ buf = 0 /\ left = 0 /\ tail = 0 /\ overflow = 0 /\ crashes = 0

FilesInit ==
  /\ Init
  /\ focus \in {"kalloc", "log", "files", "open", "mmap", "alone", "io"}
  /\ IF focus = "files" THEN Names!Init ELSE NamesOff
  /\ IF focus = "open" THEN Open!Init ELSE OpenOff
  /\ CASE focus = "mmap" -> Maps!Init [] focus = "alone" -> Alone!Init [] OTHER -> MapsOff
  /\ IF focus = "io" THEN IO!Init ELSE IOOff
  /\ IF focus = "log" THEN Room!Init ELSE RoomOff
FilesNext ==
  /\ \/ focus = "kalloc" /\ Next
        /\ UNCHANGED <<filevars, tablevars, mapvars, iovars, logvars>>
     \/ focus = "files" /\ Names!Next
        /\ UNCHANGED <<vars, tablevars, mapvars, iovars, logvars>>
     \/ focus = "open" /\ Open!Next
        /\ UNCHANGED <<vars, filevars, mapvars, iovars, logvars>>
     \/ focus = "mmap" /\ Maps!Next
        /\ UNCHANGED <<vars, filevars, tablevars, iovars, logvars>>
     \/ focus = "alone" /\ Alone!Next
        /\ UNCHANGED <<vars, filevars, tablevars, iovars, logvars>>
     \/ focus = "io" /\ IO!Next
        /\ UNCHANGED <<vars, filevars, tablevars, mapvars, logvars>>
     \/ focus = "log" /\ Room!Next
        /\ UNCHANGED <<vars, filevars, tablevars, mapvars, iovars>>
  /\ UNCHANGED focus
FilesSpec ==
  FilesInit
  /\ [][FilesNext]_<<vars, filevars, tablevars, mapvars, iovars, logvars,
                     focus>>

FilesSymmetry == Permutations(Proc) \cup Permutations(Page)

\* Reference counts are exact: those of pages, those of inodes in the cache, those of
\* entries of the table of open files, and those of the inodes and pipes that these stand
\* for.
RefsExact ==
  /\ focus = "kalloc" => CountExact
  /\ focus = "files" => Names!RefExact
  /\ focus = "open" => Open!FileRefExact /\ Open!ObjectRefExact

\* What processes write and map is where it belongs: calls that share a struct file keep
\* each other's bytes, in transactions that fit into the log if they need no more than two
\* blocks of the bitmap; the log has room for the calls that begin_op() admits, or panics as
\* LogFits says; mappings are disjoint, inside the memory of their process, but for calls that
\* no check refuses, and each has a reference to its file; a mapped file that is not writable
\* does not change.
DataInPlace ==
  /\ focus = "mmap" => Maps!MappingsExact /\ Maps!ReadOnlyUnchanged
  /\ focus = "alone" => Alone!MappingsExact /\ Alone!ReadOnlyUnchanged
  /\ focus = "io" => IO!WritesKept /\ IO!TransactionFits
  /\ focus = "log" => Room!LogFits

\* The link count of an inode is the number of entries for it, with every call half done.
NlinkExact == focus = "files" => Names!NlinkExact

\* No call reaches an inode that was freed behind its back.
NeverFreedInUse == focus = "files" => Names!NeverFreedInUse

\* What the cache has of an inode is what the disk has.
CacheCoherent == focus = "files" => Names!CacheCoherent

\* Calls that wait for locks of inodes do not wait for each other.
LocksMove == focus = "files" => Names!LocksMove
=============================================================================
