-------------------------------- MODULE Log ---------------------------------
(***************************************************************************)
(* The write-ahead log, kernel/filesystem/log.c: group commit of           *)
(* concurrent file system calls, crash at any moment, recovery at boot.    *)
(*                                                                         *)
(* A step is a section under log.lock or one block written to the disk.    *)
(* Writing a block is atomic, as log.c assumes.  A behaviour ends where    *)
(* panic() is called, and where the header lists a block that the log area *)
(* has no place for (write_log() would go on with the first inode block).  *)
(***************************************************************************)
EXTENDS Integers, Sequences, FiniteSets

CONSTANTS
  Proc,         \* processes making file system calls
  Block,        \* home blocks of the file system
  Val,          \* contents of a block
  MAXOPBLOCKS,  \* blocks begin_op() reserves for a call
  LOGSIZE,      \* capacity of the log header
  NLOG,         \* log.size: blocks of the log on disk, the header included
  OPBLOCKS,     \* most blocks a call logs
  MAXCRASH,     \* bound: crashes in a behaviour
  NULL

\* The log area that mkfs.c sets aside is as long as the header allows, and no call logs
\* more blocks than begin_op() reserves for it.
LogConstants ==
  /\ MAXOPBLOCKS \in Nat \ {0} /\ LOGSIZE \in Nat \ {0} /\ NLOG = LOGSIZE
  /\ OPBLOCKS \in Nat /\ OPBLOCKS <= MAXOPBLOCKS
  /\ MAXCRASH \in Nat
  /\ Proc # {} /\ IsFiniteSet(Proc)
  /\ Val # {} /\ NULL \notin Block

ASSUME LogAssumption == LogConstants

VARIABLES
  disk,         \* home blocks on the disk
  logd,         \* data blocks of the log on the disk
  head,         \* header block of the log on the disk
  cache,        \* contents of the buffer of each block
  pin,          \* references bpin/bunpin put on that buffer; -1 is the uint
                \* 2^32 - 1
  lh,           \* log.lh
  outstanding,  \* log.outstanding
  committing,   \* log.committing
  pc,           \* where each process is
  buf,          \* the locked buffer a call is writing
  left,         \* blocks the call may still log
  tail,         \* loop variable of write_log and install_trans
  panicked,     \* panic() was called
  crashes

disks == <<disk, logd, head>>
vars == <<disk, logd, head, cache, pin, lh, outstanding, committing, pc, buf,
          left, tail, panicked, crashes>>

InLog(b, h) == \E i \in 1 .. Len(h) : h[i] = b

Goto(p, l) == pc' = [pc EXCEPT ![p] = l]

\* wakeup(&log), and process p goes on to l.
WakeupGoto(p, l) ==
  pc' = [q \in Proc |-> IF q = p THEN l ELSE IF pc[q] = "asleep" THEN "begin" ELSE pc[q]]

-----------------------------------------------------------------------------
\* A file system as mkfs leaves it: the log is empty.
Init ==
  /\ disk \in [Block -> Val]
  /\ logd = [i \in 1 .. LOGSIZE |-> CHOOSE v \in Val : TRUE]
  /\ head = <<>>
  /\ cache = disk
  /\ pin = [b \in Block |-> 0]
  /\ lh = <<>>
  /\ outstanding = 0
  /\ committing = FALSE
  /\ pc = [p \in Proc |-> "begin"]
  /\ buf = [p \in Proc |-> NULL]
  /\ left = [p \in Proc |-> 0]
  /\ tail = 1
  /\ panicked = FALSE
  /\ crashes = 0

\* Mutant: the call is not counted.
BugBeginOp(p) ==
  /\ pc[p] = "begin"
  /\ IF committing \/ Len(lh) + (outstanding + 1) * MAXOPBLOCKS > LOGSIZE
     THEN Goto(p, "asleep") /\ UNCHANGED left
     ELSE /\ left' = [left EXCEPT ![p] = OPBLOCKS]
          /\ Goto(p, "op")
  /\ UNCHANGED <<disks, cache, pin, lh, outstanding, committing, buf, tail, panicked, crashes>>

\* Mutant: blocks that are in the log already are forgotten.
BugReserve(p) ==
  /\ pc[p] = "begin"
  /\ IF committing \/ (outstanding + 1) * MAXOPBLOCKS > LOGSIZE
     THEN Goto(p, "asleep") /\ UNCHANGED <<outstanding, left>>
     ELSE /\ outstanding' = outstanding + 1
          /\ left' = [left EXCEPT ![p] = OPBLOCKS]
          /\ Goto(p, "op")
  /\ UNCHANGED <<disks, cache, pin, lh, committing, buf, tail, panicked, crashes>>

\* Sleep while a commit runs or the log might fill up, else enter the call.
begin_op(p) ==
  /\ pc[p] = "begin"
  /\ IF committing \/ Len(lh) + (outstanding + 1) * MAXOPBLOCKS > LOGSIZE
     THEN Goto(p, "asleep") /\ UNCHANGED <<outstanding, left>>
     ELSE /\ outstanding' = outstanding + 1
          /\ left' = [left EXCEPT ![p] = OPBLOCKS]
          /\ Goto(p, "op")
  /\ UNCHANGED <<disks, cache, pin, lh, committing, buf, tail, panicked, crashes>>

\* The caller has the buffer of b locked and changes it; log_write() checks,
\* without log.lock, that there is room and a transaction.
modify(p, b, v) ==
  /\ pc[p] = "op"
  /\ left[p] > 0
  /\ \A q \in Proc : buf[q] # b
  /\ cache' = [cache EXCEPT ![b] = v]
  /\ IF Len(lh) >= LOGSIZE \/ Len(lh) >= NLOG - 1 \/ outstanding < 1
     THEN panicked' = TRUE /\ UNCHANGED <<buf, pc, left>>
     ELSE /\ buf' = [buf EXCEPT ![p] = b]
          /\ left' = [left EXCEPT ![p] = @ - 1]
          /\ Goto(p, "log")
          /\ UNCHANGED panicked
  /\ UNCHANGED <<disks, pin, lh, outstanding, committing, tail, crashes>>

\* log_write() under log.lock: record the block once and pin it; brelse().
log_write(p) ==
  /\ pc[p] = "log"
  /\ IF InLog(buf[p], lh)
     THEN UNCHANGED <<lh, pin>>
     ELSE /\ lh' = Append(lh, buf[p])
          /\ pin' = [pin EXCEPT ![buf[p]] = @ + 1]
  /\ buf' = [buf EXCEPT ![p] = NULL]
  /\ Goto(p, "op")
  /\ UNCHANGED <<disks, cache, outstanding, committing, left, tail, panicked, crashes>>

\* Mutant: log.outstanding is tested before it is decremented.
BugEndOp(p) ==
  /\ pc[p] = "op"
  /\ outstanding' = outstanding - 1
  /\ IF outstanding = 0
     THEN committing' = TRUE /\ tail' = 1 /\ Goto(p, "write_log")
     ELSE WakeupGoto(p, "begin") /\ UNCHANGED <<committing, tail>>
  /\ left' = [left EXCEPT ![p] = 0]
  /\ UNCHANGED <<disks, cache, pin, lh, buf, panicked, crashes>>

\* end_op(): the last call out commits; the others free reserved space.
end_op(p) ==
  /\ pc[p] = "op"
  /\ outstanding' = outstanding - 1
  /\ IF committing
     THEN panicked' = TRUE /\ UNCHANGED <<committing, pc, left, tail>>
     ELSE /\ IF outstanding = 1
             THEN /\ committing' = TRUE
                  /\ tail' = 1
                  /\ Goto(p, IF Len(lh) > 0 THEN "write_log" ELSE "done")
             ELSE WakeupGoto(p, "begin") /\ UNCHANGED <<committing, tail>>
          /\ left' = [left EXCEPT ![p] = 0]
          /\ UNCHANGED panicked
  /\ UNCHANGED <<disks, cache, pin, lh, buf, crashes>>

\* Mutant: the header is written before the data blocks.
BugWriteLog(p) ==
  /\ pc[p] = "write_log"
  /\ logd' = [logd EXCEPT ![tail] = cache[lh[tail]]]
  /\ head' = lh
  /\ IF tail = Len(lh) THEN tail' = 1 /\ Goto(p, "install")
                       ELSE tail' = tail + 1 /\ UNCHANGED pc
  /\ UNCHANGED <<disk, cache, pin, lh, outstanding, committing, buf, left, panicked,
                 crashes>>

\* write_log(): copy one buffer to the log.
write_log(p) ==
  /\ pc[p] = "write_log"
  /\ logd' = [logd EXCEPT ![tail] = cache[lh[tail]]]
  /\ IF tail = Len(lh) THEN tail' = 1 /\ Goto(p, "write_head")
                       ELSE tail' = tail + 1 /\ UNCHANGED pc
  /\ UNCHANGED <<disk, head, cache, pin, lh, outstanding, committing, buf, left,
                 panicked, crashes>>

\* write_head(): the transaction commits.
write_head(p) ==
  /\ pc[p] = "write_head"
  /\ head' = lh
  /\ Goto(p, "install")
  /\ UNCHANGED <<disk, logd, cache, pin, lh, outstanding, committing, buf, left, tail,
                 panicked, crashes>>

\* install_trans(), called by commit() and by recovery: copy one block home.
install_trans(p) ==
  /\ pc[p] \in {"install", "recover"}
  /\ tail <= Len(lh)
  /\ disk' = [disk EXCEPT ![lh[tail]] = logd[tail]]
  /\ cache' = [cache EXCEPT ![lh[tail]] = logd[tail]]
  /\ pin' = [pin EXCEPT ![lh[tail]] = @ - 1]
  /\ tail' = tail + 1
  /\ UNCHANGED <<logd, head, lh, outstanding, committing, pc, buf, left, panicked, crashes>>

\* log.lh.n = 0; write_head(): erase the transaction.  After recovery the file
\* system is open.
clear(p) ==
  /\ pc[p] \in {"install", "recover"}
  /\ tail > Len(lh)
  /\ lh' = <<>>
  /\ head' = <<>>
  /\ IF pc[p] = "install" THEN Goto(p, "done") ELSE pc' = [q \in Proc |-> "begin"]
  /\ UNCHANGED <<disk, logd, cache, pin, outstanding, committing, buf, left, tail,
                 panicked, crashes>>

\* Mutant: nobody is woken after a commit.
BugDone(p) ==
  /\ pc[p] = "done"
  /\ committing' = FALSE
  /\ Goto(p, "begin")
  /\ UNCHANGED <<disks, cache, pin, lh, outstanding, buf, left, tail, panicked, crashes>>

\* end_op(): commit() has returned.
end_commit(p) ==
  /\ pc[p] = "done"
  /\ committing' = FALSE
  /\ WakeupGoto(p, "begin")
  /\ UNCHANGED <<disks, cache, pin, lh, outstanding, buf, left, tail, panicked, crashes>>

\* Power is lost; memory starts again from zero.
crash ==
  /\ crashes < MAXCRASH
  /\ crashes' = crashes + 1
  /\ cache' = disk
  /\ pin' = [b \in Block |-> 0]
  /\ lh' = <<>>
  /\ outstanding' = 0
  /\ committing' = FALSE
  /\ pc' = [p \in Proc |-> "down"]
  /\ buf' = [p \in Proc |-> NULL]
  /\ left' = [p \in Proc |-> 0]
  /\ tail' = 1
  /\ UNCHANGED <<disks, panicked>>

\* recover_from_log(): read_head(), by the first process of the new boot.
read_head(p) ==
  /\ \A q \in Proc : pc[q] = "down"
  /\ lh' = head
  /\ Goto(p, "recover")
  /\ UNCHANGED <<disks, cache, pin, outstanding, committing, buf, left, tail, panicked,
                 crashes>>

\* bget() gives the unused buffer of b to another block; the next bread() of b
\* reads the disk.  (A buffer whose reference count went below zero can also be
\* recycled while it is locked; this action does not do that.)
recycle(b) ==
  /\ pin[b] = 0
  /\ \A p \in Proc : buf[p] # b
  /\ cache' = [cache EXCEPT ![b] = disk[b]]
  /\ UNCHANGED <<disks, pin, lh, outstanding, committing, pc, buf, left, tail, panicked,
                 crashes>>

Step(p) ==
  \/ begin_op(p) \/ log_write(p) \/ end_op(p)
  \/ write_log(p) \/ write_head(p) \/ install_trans(p) \/ clear(p) \/ end_commit(p)
  \/ read_head(p)
  \/ \E b \in Block, v \in Val : modify(p, b, v)

\* No panic(), and the log area has room for what the header lists.
Intact == ~ panicked /\ Len(lh) < NLOG

Next == Intact /\ (crash \/ \E p \in Proc : Step(p))
Spec == Init /\ [][Next]_vars

\* The same with a buffer cache that is short of buffers.
NextRecycle == Intact /\ (crash \/ (\E p \in Proc : Step(p)) \/ \E b \in Block : recycle(b))
SpecRecycle == Init /\ [][NextRecycle]_vars

\* A call in progress goes on (the scheduler is fair to kernel threads and calls
\* log finitely many blocks); power need not fail.
Progress(p) == Intact /\ Step(p) /\ pc[p] # "begin"
FairSpec == Spec /\ \A p \in Proc : WF_vars(Progress(p))

-----------------------------------------------------------------------------
(* Properties.                                                             *)

\* What recovery would make of the disk: committed blocks come from the log.
Recovered ==
  [b \in Block |-> IF InLog(b, head)
                   THEN logd[CHOOSE i \in 1 .. Len(head) : head[i] = b]
                   ELSE disk[b]]

\* Calls see the buffers; until recovery is through, what it will install.
Volatile == IF \E p \in Proc : pc[p] \in {"down", "recover"} THEN Recovered ELSE cache

\* Processes between begin_op() and end_op().
Ops == {p \in Proc : pc[p] \in {"op", "log"}}

Abstract == INSTANCE LogSpec WITH
  stable <- Recovered,
  volatile <- Volatile,
  active <- Ops

\* The log implements atomic transactions: whatever the interleaving of calls
\* and whichever disk write the crash follows, recovery finds the blocks as of
\* the last commit, and a commit never contains part of a call.
ImplementsLogSpec == Abstract!Spec

\* Blocks a call may still add to the log, and those of all calls in progress.
Need(p) == left[p] + (IF pc[p] = "log" THEN 1 ELSE 0)
Room == {s \in Ops \X (1 .. OPBLOCKS) : s[2] <= Need(s[1])}

\* The header has room for all that begin_op() admits.  The log area has a place less,
\* and log_write() looks at it before it has log.lock: "too big a transaction", or a
\* header that is longer than the log area, happen when the calls in progress log all of
\* the MAXOPBLOCKS blocks reserved for each of them, and at no other time.  Nothing else
\* panics: log_write() is in a transaction, and end_op() finds no commit under way.
LogFits ==
  /\ Len(lh) + Cardinality(Room) <= LOGSIZE
  /\ ~ Intact => OPBLOCKS = MAXOPBLOCKS /\ Len(lh) + Cardinality(Room) = LOGSIZE

\* Whenever no call and no commit is in progress, everything that was written
\* is already safe on the disk.
DurableWhenIdle ==
  (outstanding = 0 /\ ~ committing) => Volatile = Recovered

\* A call that waits in begin_op() is woken up, unless the log overflows first.
SleeperWoken == \A p \in Proc : pc[p] = "asleep" ~> pc[p] # "asleep" \/ ~ Intact
=============================================================================
