------------------------------- MODULE Bcache -------------------------------
(***************************************************************************)
(* The buffer cache, kernel/filesystem/bio.c: hash buckets with a lock     *)
(* each, recycling by timestamp, stealing from the other buckets.          *)
(*                                                                         *)
(* A step is a section under one bucket lock.  Only a miss that finds no   *)
(* free buffer in its own bucket keeps that lock while it waits for the    *)
(* others.  The data of a buffer is the block it was read from.            *)
(*                                                                         *)
(* log_write() pins the buffer of a block that it logs, and                *)
(* install_trans() unpins the buffer of every logged block, also when the  *)
(* log is recovered at boot, where nothing has been pinned.  refcnt is     *)
(* unsigned in the code and is only compared with 0: 2^32 - n there is -n  *)
(* here.                                                                   *)
(***************************************************************************)
EXTENDS Integers, FiniteSets

CONSTANTS
  Proc,      \* processes using the cache
  Buf,       \* bcache.buf
  Block,     \* disk blocks, natural numbers
  NBUCKET,
  MAXTICKS,  \* bound: clock interrupts
  MAXSHORT,  \* bound: blocks in the log at boot, and buffers that become short
  NULL

Bucket == 0 .. NBUCKET - 1

ASSUME BcacheConstants ==
  /\ NBUCKET \in Nat \ {0} /\ MAXTICKS \in Nat /\ MAXSHORT \in Nat
  /\ Block \subseteq Nat /\ IsFiniteSet(Proc)
  /\ NULL \notin Block /\ NULL \notin Proc /\ NULL \notin Buf

VARIABLES
  bucket,     \* the bucket list a buffer is on
  blockno,    \* b->blockno
  valid,      \* b->valid
  data,       \* the block whose contents b->data holds
  refcnt,     \* b->refcnt
  timestamp,  \* b->timestamp
  lock,       \* process holding b->lock
  pins,       \* calls of bpin() on b that bunpin() has not undone
  short,      \* buffers that bunpin() was called on when nothing had pinned them
  logged,     \* the blocks in log.lh
  boot,       \* the process in recover_from_log(); NULL afterwards
  crashed,    \* the log was not empty at boot
  blk,        \* process holding a bucket's lock
  pc, want, buf, idx,   \* each process: where it is, the block it asked for,
                        \* its buffer, loop variable i of bget,
                        \* bid of brelse
  ticks

procs == <<pc, want, buf, idx>>
log == <<pins, short, logged, boot, crashed>>
vars == <<bucket, blockno, valid, data, refcnt, timestamp, lock, log, blk, procs, ticks>>

HASH(k) == k % NBUCKET

\* The buffers on bucket i's list that hold block k.
Cached(i, k) == {b \in Buf : bucket[b] = i /\ blockno[b] = k}

\* The unused buffers of bucket i with the smallest timestamp.
LRU(i) ==
  LET free == {b \in Buf : bucket[b] = i /\ refcnt[b] = 0}
  IN  {b \in free : \A c \in free : timestamp[b] <= timestamp[c]}

-----------------------------------------------------------------------------
\* binit(): all buffers on bucket 0, for no block of the disk (dev is 0).  The first
\* process runs recover_from_log() before there is another; read_head() finds the
\* blocks of a transaction there or none.
Init ==
  /\ bucket = [b \in Buf |-> 0]
  /\ blockno = [b \in Buf |-> NULL]
  /\ valid = [b \in Buf |-> FALSE]
  /\ data = [b \in Buf |-> NULL]
  /\ refcnt = [b \in Buf |-> 0]
  /\ timestamp = [b \in Buf |-> 0]
  /\ lock = [b \in Buf |-> NULL]
  /\ pins = [b \in Buf |-> 0]
  /\ short = {}
  /\ logged \in {L \in SUBSET Block : Cardinality(L) <= MAXSHORT}
  /\ IF logged = {} THEN boot = NULL ELSE boot \in Proc
  /\ crashed = (logged # {})
  /\ blk = [i \in Bucket |-> NULL]
  /\ pc = [p \in Proc |-> "idle"]
  /\ want = [p \in Proc |-> NULL]
  /\ buf = [p \in Proc |-> NULL]
  /\ idx = [p \in Proc |-> 0]
  /\ ticks = 0

\* Mutant: a hit does not count its user.
BugHit(p, k) ==
  /\ pc[p] = "idle"
  /\ blk[HASH(k)] = NULL
  /\ \E b \in Cached(HASH(k), k) : buf' = [buf EXCEPT ![p] = b]
  /\ want' = [want EXCEPT ![p] = k]
  /\ pc' = [pc EXCEPT ![p] = "acquiresleep"]
  /\ UNCHANGED <<bucket, blockno, valid, data, refcnt, timestamp, lock, log, blk, idx, ticks>>

\* bget(): the block is cached.
bget_hit(p, k) ==
  /\ pc[p] = "idle"
  /\ blk[HASH(k)] = NULL
  /\ \E b \in Cached(HASH(k), k) :
       /\ refcnt' = [refcnt EXCEPT ![b] = @ + 1]
       /\ timestamp' = [timestamp EXCEPT ![b] = ticks]
       /\ buf' = [buf EXCEPT ![p] = b]
  /\ want' = [want EXCEPT ![p] = k]
  /\ pc' = [pc EXCEPT ![p] = "acquiresleep"]
  /\ UNCHANGED <<bucket, blockno, valid, data, lock, log, blk, idx, ticks>>

\* Mutant: the contents of the previous block are taken for valid.
BugRecycle(p, k, b) ==
  /\ bucket' = [bucket EXCEPT ![b] = HASH(k)]
  /\ blockno' = [blockno EXCEPT ![b] = k]
  /\ refcnt' = [refcnt EXCEPT ![b] = 1]
  /\ timestamp' = [timestamp EXCEPT ![b] = ticks]
  /\ buf' = [buf EXCEPT ![p] = b]
  /\ pc' = [pc EXCEPT ![p] = "acquiresleep"]
  /\ UNCHANGED <<valid, data, lock, log, ticks>>

\* bget(): make b the buffer of block k, on k's bucket.
recycle(p, k, b) ==
  /\ bucket' = [bucket EXCEPT ![b] = HASH(k)]
  /\ blockno' = [blockno EXCEPT ![b] = k]
  /\ valid' = [valid EXCEPT ![b] = FALSE]
  /\ refcnt' = [refcnt EXCEPT ![b] = 1]
  /\ timestamp' = [timestamp EXCEPT ![b] = ticks]
  /\ buf' = [buf EXCEPT ![p] = b]
  /\ pc' = [pc EXCEPT ![p] = "acquiresleep"]
  /\ UNCHANGED <<data, lock, log, ticks>>

\* Mutant: the lock of the block's own bucket is not kept while stealing.
BugMiss(p, k) ==
  /\ pc[p] = "idle"
  /\ blk[HASH(k)] = NULL
  /\ Cached(HASH(k), k) = {}
  /\ want' = [want EXCEPT ![p] = k]
  /\ \/ \E b \in LRU(HASH(k)) : recycle(p, k, b) /\ UNCHANGED <<blk, idx>>
     \/ /\ LRU(HASH(k)) = {}
        /\ pc' = [pc EXCEPT ![p] = "steal"]
        /\ idx' = [idx EXCEPT ![p] = HASH(k + 1)]
        /\ UNCHANGED <<bucket, blockno, valid, data, refcnt, timestamp, lock, log,
                       blk, buf, ticks>>

\* bget(): not cached; recycle a buffer of the own bucket, or keep its lock and
\* go on to the others.
bget_miss(p, k) ==
  /\ pc[p] = "idle"
  /\ blk[HASH(k)] = NULL
  /\ Cached(HASH(k), k) = {}
  /\ want' = [want EXCEPT ![p] = k]
  /\ \/ \E b \in LRU(HASH(k)) : recycle(p, k, b) /\ UNCHANGED <<blk, idx>>
     \/ /\ LRU(HASH(k)) = {}
        /\ pc' = [pc EXCEPT ![p] = "steal"]
        /\ blk' = [blk EXCEPT ![HASH(k)] = p]
        /\ idx' = [idx EXCEPT ![p] = HASH(k + 1)]
        /\ UNCHANGED <<bucket, blockno, valid, data, refcnt, timestamp, lock, log,
                       buf, ticks>>

\* bget(): the section under another bucket's lock.  After the last bucket
\* bget() panics.
bget_steal(p) ==
  LET i == idx[p]
      k == want[p]
  IN  /\ pc[p] = "steal"
      /\ IF i = HASH(k)
         THEN /\ pc' = [pc EXCEPT ![p] = "panic"]
              /\ UNCHANGED <<bucket, blockno, valid, data, refcnt, timestamp, lock,
                             log, blk, buf, idx, ticks>>
         ELSE /\ blk[i] = NULL
              /\ \/ /\ \E b \in LRU(i) : recycle(p, k, b)
                    /\ blk' = [blk EXCEPT ![HASH(k)] = NULL]
                    /\ idx' = [idx EXCEPT ![p] = 0]
                 \/ /\ LRU(i) = {}
                    /\ idx' = [idx EXCEPT ![p] = HASH(i + 1)]
                    /\ UNCHANGED <<bucket, blockno, valid, data, refcnt, timestamp,
                                   lock, log, blk, pc, buf, ticks>>
      /\ UNCHANGED want

\* bget(): acquiresleep(&b->lock).
bget_lock(p) ==
  /\ pc[p] = "acquiresleep"
  /\ lock[buf[p]] = NULL
  /\ lock' = [lock EXCEPT ![buf[p]] = p]
  /\ pc' = [pc EXCEPT ![p] = "bread"]
  /\ UNCHANGED <<bucket, blockno, valid, data, refcnt, timestamp, log, blk, want, buf,
                 idx, ticks>>

\* bread(): read the disk unless the buffer is valid.
bread(p) ==
  LET b == buf[p]
  IN  /\ pc[p] = "bread"
      /\ data' = IF valid[b] THEN data ELSE [data EXCEPT ![b] = blockno[b]]
      /\ valid' = [valid EXCEPT ![b] = TRUE]
      /\ pc' = [pc EXCEPT ![p] = "use"]
      /\ UNCHANGED <<bucket, blockno, refcnt, timestamp, lock, log, blk, want, buf, idx,
                     ticks>>

\* bpin() of the buffer in use, by log_write() unless the block is in the log already.
bpin(p) ==
  LET b == buf[p]
  IN  /\ pc[p] = "use" /\ boot = NULL
      /\ blockno[b] \notin logged
      /\ blk[HASH(blockno[b])] = NULL
      /\ refcnt' = [refcnt EXCEPT ![b] = @ + 1]
      /\ pins' = [pins EXCEPT ![b] = @ + 1]
      /\ logged' = logged \cup {blockno[b]}
      /\ UNCHANGED <<bucket, blockno, valid, data, timestamp, lock, short, boot, crashed, blk,
                     procs, ticks>>

\* bunpin() of the buffer in use, by install_trans() for a block of the log: at the
\* end of a commit, and in recover_from_log().
bunpin(p) ==
  LET b == buf[p]
  IN  /\ pc[p] = "use"
      /\ want[p] \in logged
      /\ blk[HASH(blockno[b])] = NULL
      /\ refcnt' = [refcnt EXCEPT ![b] = @ - 1]
      /\ \/ pins[b] > 0 /\ pins' = [pins EXCEPT ![b] = @ - 1] /\ UNCHANGED short
         \/ /\ pins[b] = 0 /\ Cardinality(short) < MAXSHORT
            /\ short' = short \cup {b} /\ UNCHANGED pins
      /\ logged' = logged \ {want[p]}
      /\ UNCHANGED <<bucket, blockno, valid, data, timestamp, lock, boot, crashed, blk, procs,
                     ticks>>

\* recover_from_log() returns; other processes start.
recovered(p) ==
  /\ boot = p /\ pc[p] = "idle" /\ logged = {}
  /\ boot' = NULL
  /\ UNCHANGED <<bucket, blockno, valid, data, refcnt, timestamp, lock, pins, short, logged,
                 crashed, blk, procs, ticks>>

\* brelse(): compute bid, and releasesleep(&b->lock).
brelse(p) ==
  /\ pc[p] = "use"
  /\ idx' = [idx EXCEPT ![p] = HASH(blockno[buf[p]])]
  /\ lock' = [lock EXCEPT ![buf[p]] = NULL]
  /\ pc' = [pc EXCEPT ![p] = "brelse"]
  /\ UNCHANGED <<bucket, blockno, valid, data, refcnt, timestamp, log, blk, want, buf, ticks>>

\* brelse(): drop the reference, under the lock of that bucket.
brelse_unref(p) ==
  LET b == buf[p]
  IN  /\ pc[p] = "brelse"
      /\ blk[idx[p]] = NULL
      /\ refcnt' = [refcnt EXCEPT ![b] = @ - 1]
      /\ timestamp' = [timestamp EXCEPT ![b] = ticks]
      /\ buf' = [buf EXCEPT ![p] = NULL]
      /\ want' = [want EXCEPT ![p] = NULL]
      /\ idx' = [idx EXCEPT ![p] = 0]
      /\ pc' = [pc EXCEPT ![p] = "idle"]
      /\ UNCHANGED <<bucket, blockno, valid, data, lock, log, blk, ticks>>

\* clockintr() of the timer.
clockintr ==
  /\ ticks < MAXTICKS
  /\ ticks' = ticks + 1
  /\ UNCHANGED <<bucket, blockno, valid, data, refcnt, timestamp, lock, log, blk, procs>>

Step(p) ==
  \/ \E k \in Block : bget_hit(p, k) \/ bget_miss(p, k)
  \/ bget_steal(p) \/ bget_lock(p) \/ bread(p)
  \/ bpin(p) \/ bunpin(p) \/ recovered(p) \/ brelse(p) \/ brelse_unref(p)

Running == \A p \in Proc : pc[p] # "panic"

\* During recovery there is one process.
Next ==
  Running /\ (clockintr \/ \E p \in Proc : boot \in {p, NULL} /\ Step(p))

Spec == Init /\ [][Next]_vars

-----------------------------------------------------------------------------
(* Properties.                                                             *)

\* A block has one buffer: bget() looks for it and claims one for it without
\* letting go of the lock of the block's bucket, whichever bucket the buffer
\* comes from.
OneCopy ==
  /\ \A b, c \in Buf : blockno[b] # NULL /\ blockno[b] = blockno[c] => b = c
  /\ \A b \in Buf : blockno[b] # NULL => bucket[b] = HASH(blockno[b])

\* Processes that bget() has given buffer b and that have not yet dropped it.
Users(b) == {p \in Proc : buf[p] = b}

\* The reference count of a buffer is the number of its users and pins, so that
\* refcnt = 0 means unused, until bunpin() is called on it without a bpin().  Commits
\* never do that on a machine that came up with an empty log: there the blocks in the
\* log are those of the pinned buffers, so that none is recycled before its commit.
RefcntExact ==
  /\ \A b \in Buf \ short : refcnt[b] = Cardinality(Users(b)) + pins[b]
  /\ ~ crashed => /\ short = {}
                  /\ \A b \in Buf : pins[b] = IF blockno[b] \in logged THEN 1 ELSE 0
                  /\ logged \subseteq {blockno[b] : b \in Buf}

\* A buffer in use is locked by one process.  Between bget() and brelse() nobody
\* changes its identity or its contents, and bread() returns the block that was asked
\* for, unless it is a buffer that was unpinned without a pin: recovery leaves refcnt
\* at 2^32 - 1, the next bget() makes it 0, and bget() for another block takes it.
ReadsItsBlock ==
  \A p \in Proc :
    /\ buf[p] \notin short \cup {NULL} =>
         /\ blockno[buf[p]] = want[p]
         /\ pc[p] = "use" => data[buf[p]] = want[p]
    /\ \A q \in Proc : (/\ pc[p] \in {"bread", "use"} /\ pc[q] \in {"bread", "use"}
                        /\ buf[p] = buf[q]) => p = q

\* While a buffer is free, no two processes in bget() each wait for the bucket
\* lock the other one holds.
NoCircularWait ==
  (\E b \in Buf : refcnt[b] = 0)
  => \A p, q \in Proc : ~ /\ p # q /\ pc[p] = "steal" /\ pc[q] = "steal"
                          /\ blk[idx[p]] = q /\ blk[idx[q]] = p
=============================================================================
