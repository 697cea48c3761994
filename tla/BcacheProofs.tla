---------------------------- MODULE BcacheProofs ----------------------------
(***************************************************************************)
(* Proofs about the buffer cache (Bcache.tla), for any number of           *)
(* processes, buffers, blocks and buckets.                                 *)
(***************************************************************************)
EXTENDS Bcache, FiniteSetTheorems, TLAPS

ProcOrNull == Proc \cup {NULL}

\* Where a process is when it has a buffer that counts it.
Holding == {"acquiresleep", "bread", "use", "brelse"}

\* Every variable holds a value of its type.
TypeOK ==
  /\ bucket \in [Buf -> Bucket]
  /\ blockno \in [Buf -> Block \cup {NULL}]
  /\ valid \in [Buf -> BOOLEAN]
  /\ data \in [Buf -> Block \cup {NULL}]
  /\ refcnt \in [Buf -> Int]
  /\ timestamp \in [Buf -> Int]
  /\ lock \in [Buf -> ProcOrNull]
  /\ pins \in [Buf -> Nat]
  /\ short \subseteq Buf
  /\ logged \subseteq Block
  /\ boot \in ProcOrNull
  /\ crashed \in BOOLEAN
  /\ blk \in [Bucket -> ProcOrNull]
  /\ pc \in [Proc -> Holding \cup {"idle", "steal", "panic"}]
  /\ want \in [Proc -> Block \cup {NULL}]
  /\ buf \in [Proc -> Buf \cup {NULL}]
  /\ idx \in [Proc -> Bucket]
  /\ ticks \in Int

\* A process has a buffer from the end of bget() to the end of brelse(), and the
\* buffer's lock in between; the buffer is one of some block.
HoldOK ==
  \A p \in Proc :
    /\ buf[p] # NULL <=> pc[p] \in Holding
    /\ buf[p] # NULL => blockno[buf[p]] # NULL
    /\ pc[p] # "idle" => want[p] \in Block
    /\ pc[p] \in {"bread", "use"} => lock[buf[p]] = p

\* A valid buffer has the contents of its block, and a buffer in use is valid if its
\* reference count is right.
DataOK ==
  /\ \A b \in Buf : valid[b] => data[b] = blockno[b]
  /\ \A p \in Proc : pc[p] = "use" => buf[p] \in short \/ valid[buf[p]]

\* A process that looks for a buffer in other buckets has locked the bucket of the
\* block it wants, and that block is still not cached.
StealOK ==
  \A p \in Proc : pc[p] = "steal" =>
    /\ blk[HASH(want[p])] = p
    /\ \A b \in Buf : blockno[b] # want[p]

\* The two parts of RefcntExact.
CountOK == \A b \in Buf \ short : refcnt[b] = Cardinality(Users(b)) + pins[b]
PairOK ==
  ~ crashed => /\ short = {}
               /\ \A b \in Buf : pins[b] = IF blockno[b] \in logged THEN 1 ELSE 0
               /\ logged \subseteq {blockno[b] : b \in Buf}

IInv == /\ TypeOK /\ HoldOK /\ DataOK /\ StealOK
        /\ OneCopy /\ CountOK /\ PairOK /\ ReadsItsBlock

\* The invariant under the name that the lemmas have for it, which their proofs leave
\* folded in what they cite.
Inv == IInv

-----------------------------------------------------------------------------
(* Reference counts.                                                       *)

LEMMA UsersFinite ==
  ASSUME NEW b \in Buf
  PROVE  IsFiniteSet(Users(b)) /\ Cardinality(Users(b)) \in Nat
<1>1. IsFiniteSet(Proc) /\ Users(b) \subseteq Proc
  BY BcacheConstants, Zenon DEF Users
<1>. QED
  BY <1>1, FS_Subset, FS_CardinalityType, Zenon

\* A buffer that bget() may recycle has no users and no pins if its count is right.
LEMMA UnusedBuffer ==
  ASSUME CountOK, TypeOK, NEW b \in Buf \ short, refcnt[b] = 0
  PROVE  Users(b) = {} /\ pins[b] = 0
<1>1. Cardinality(Users(b)) \in Nat /\ pins[b] \in Nat
  BY UsersFinite, Zenon DEF TypeOK
<1>2. Cardinality(Users(b)) + pins[b] = 0
  BY Zenon DEF CountOK
<1>3. Cardinality(Users(b)) = 0 /\ pins[b] = 0
  BY <1>1, <1>2
<1>. QED
  BY <1>3, UsersFinite, FS_EmptySet, Zenon

\* HASH() is an index of bcache.bucket.
LEMMA HashType ==
  ASSUME NEW k \in Nat PROVE HASH(k) \in Bucket
<1>. QED
  BY BcacheConstants, Z3 DEF HASH, Bucket

LEMMA ZeroBucket == 0 \in Bucket
<1>. QED
  BY BcacheConstants DEF Bucket

LEMMA InitIInv == Init => Inv
<1>. SUFFICES ASSUME Init PROVE IInv
  BY Zenon DEF Inv
<1>1. TypeOK /\ HoldOK /\ DataOK /\ StealOK /\ OneCopy /\ ReadsItsBlock
  BY BcacheConstants
     DEF Init, TypeOK, HoldOK, DataOK, StealOK, OneCopy, ReadsItsBlock, Bucket, ProcOrNull,
         Holding
<1>2. CountOK
  <2>1. \A b \in Buf : Users(b) = {}
    BY BcacheConstants, Zenon DEF Init, Users
  <2>2. Cardinality({}) = 0
    BY FS_EmptySet, Zenon
  <2>. QED
    BY <2>1, <2>2 DEF Init, CountOK
<1>3. PairOK
  BY BcacheConstants DEF Init, PairOK
<1>. QED
  BY <1>1, <1>2, <1>3, Zenon DEF IInv

\* The same users and the same counts; the same buffers of the same blocks.
LEMMA SameUsers ==
  ASSUME CountOK, buf' = buf, refcnt' = refcnt, UNCHANGED log
  PROVE  CountOK'
<1>. QED
  BY Zenon DEF CountOK, Users, log

LEMMA SamePairs ==
  ASSUME PairOK, blockno' = blockno, UNCHANGED log
  PROVE  PairOK'
<1>. QED
  BY Zenon DEF PairOK, log

\* Nothing is asked of the count of a short buffer.
LEMMA ShortUsers ==
  ASSUME TypeOK, CountOK, NEW p \in Proc, NEW b \in short, buf[p] \in {b, NULL},
         buf'[p] \in {b, NULL}, \A q \in Proc \ {p} : buf'[q] = buf[q],
         \A c \in Buf \ {b} : refcnt'[c] = refcnt[c], UNCHANGED log
  PROVE  CountOK'
<1>1. \A c \in Buf \ short : c # b /\ c # NULL
  BY BcacheConstants, Zenon
<1>2. \A c \in Buf \ short : Users(c)' = Users(c)
  BY <1>1, Zenon DEF Users
<1>. QED
  BY <1>1, <1>2, Zenon DEF CountOK, log

\* One process more, or one less, uses buffer b.
LEMMA OneUserMore ==
  ASSUME TypeOK, CountOK, NEW p \in Proc, NEW b \in Buf, buf[p] = NULL,
         buf' = [buf EXCEPT ![p] = b], refcnt' = [refcnt EXCEPT ![b] = @ + 1], UNCHANGED log
  PROVE  CountOK'
<1>1. Users(b)' = Users(b) \cup {p} /\ p \notin Users(b)
  BY BcacheConstants DEF TypeOK, Users
<1>2. Cardinality(Users(b)') = Cardinality(Users(b)) + 1
  BY <1>1, UsersFinite, FS_AddElement, Zenon
<1>3. \A c \in Buf \ {b} : Users(c)' = Users(c) /\ refcnt'[c] = refcnt[c]
  BY BcacheConstants, Zenon DEF TypeOK, Users
<1>4. Cardinality(Users(b)) \in Nat /\ refcnt'[b] = refcnt[b] + 1 /\ pins[b] \in Nat
  BY UsersFinite, Zenon DEF TypeOK
<1>5. pins' = pins /\ short' = short
  BY Zenon DEF log
<1>. QED
  BY <1>2, <1>3, <1>4, <1>5 DEF CountOK

LEMMA OneUserLess ==
  ASSUME TypeOK, CountOK, NEW p \in Proc, NEW b \in Buf, buf[p] = b,
         buf' = [buf EXCEPT ![p] = NULL], refcnt' = [refcnt EXCEPT ![b] = @ - 1], UNCHANGED log
  PROVE  CountOK'
<1>1. Users(b)' = Users(b) \ {p} /\ p \in Users(b)
  BY BcacheConstants, Zenon DEF TypeOK, Users
<1>2. Cardinality(Users(b)') = Cardinality(Users(b)) - 1
  BY <1>1, UsersFinite, FS_RemoveElement, Zenon
<1>3. \A c \in Buf \ {b} : Users(c)' = Users(c) /\ refcnt'[c] = refcnt[c]
  BY BcacheConstants, Zenon DEF TypeOK, Users
<1>4. Cardinality(Users(b)) \in Nat /\ refcnt'[b] = refcnt[b] - 1 /\ pins[b] \in Nat
  BY UsersFinite, Zenon DEF TypeOK
<1>5. pins' = pins /\ short' = short
  BY Zenon DEF log
<1>. QED
  BY <1>2, <1>3, <1>4, <1>5 DEF CountOK

\* bget() gives process p the buffer b, which counts as unused, for block k, which is
\* not cached, and no other process is looking for a buffer for k.
LEMMA RecycleOK ==
  ASSUME Inv, NEW p \in Proc, NEW k \in Block, NEW b \in Buf, refcnt[b] = 0,
         pc[p] \in {"idle", "steal"}, want'[p] = k,
         want' = [want EXCEPT ![p] = k], recycle(p, k, b),
         \A c \in Buf : blockno[c] # k,
         \A q \in Proc \ {p} : pc[q] = "steal" => want[q] # k /\ blk'[HASH(want[q])] = q,
         blk' \in [Bucket -> ProcOrNull], idx' \in [Proc -> Bucket]
  PROVE  Inv'
<1>. SUFFICES ASSUME IInv PROVE IInv'
  BY Zenon DEF Inv
<1>1. b \notin short => Users(b) = {} /\ pins[b] = 0
  BY UnusedBuffer, Zenon DEF IInv
<1>2. buf[p] = NULL /\ (b \notin short => \A q \in Proc : buf[q] # b)
  BY <1>1, Zenon DEF IInv, HoldOK, Users, Holding
<1>3. /\ bucket' = [bucket EXCEPT ![b] = HASH(k)]
      /\ blockno' = [blockno EXCEPT ![b] = k]
      /\ valid' = [valid EXCEPT ![b] = FALSE]
      /\ refcnt' = [refcnt EXCEPT ![b] = 1]
      /\ timestamp' = [timestamp EXCEPT ![b] = ticks]
      /\ buf' = [buf EXCEPT ![p] = b]
      /\ pc' = [pc EXCEPT ![p] = "acquiresleep"]
      /\ UNCHANGED <<data, lock, log, ticks>>
  BY Zenon DEF recycle
<1>4. HASH(k) \in Bucket /\ k # NULL /\ b # NULL
  BY HashType, BcacheConstants, Zenon
<1>5. TypeOK'
  BY <1>3, <1>4 DEF IInv, TypeOK, Holding, log
<1>6. HoldOK' /\ DataOK' /\ StealOK'
  <2>1. short' = short
    BY <1>3, Zenon DEF log
  <2>2. HoldOK'
    BY <1>2, <1>3, <1>4, BcacheConstants DEF IInv, TypeOK, HoldOK, Holding
  <2>3. DataOK'
    BY <1>2, <1>3, <1>4, <2>1, BcacheConstants DEF IInv, TypeOK, DataOK, HoldOK, Holding
  <2>4. StealOK'
    BY <1>3, <1>4, BcacheConstants DEF IInv, TypeOK, StealOK
  <2>. QED
    BY <2>2, <2>3, <2>4, Zenon
<1>7. OneCopy' /\ ReadsItsBlock'
  BY <1>2, <1>3, <1>4, BcacheConstants
     DEF IInv, TypeOK, OneCopy, ReadsItsBlock, log
<1>8. CountOK'
  <2>1. CASE b \in short
    <3>1. buf'[p] = b /\ \A q \in Proc \ {p} : buf'[q] = buf[q]
      BY <1>3, Zenon DEF IInv, TypeOK
    <3>2. \A c \in Buf \ {b} : refcnt'[c] = refcnt[c]
      BY <1>3, Zenon DEF IInv, TypeOK
    <3>3. TypeOK /\ CountOK /\ buf[p] \in {b, NULL} /\ buf'[p] \in {b, NULL} /\ UNCHANGED log
      BY <1>2, <1>3, <3>1, Zenon DEF IInv
    <3>. QED
      BY <2>1, <3>1, <3>2, <3>3, ShortUsers, Zenon
  <2>2. CASE b \notin short
    <3>1. refcnt' = [refcnt EXCEPT ![b] = @ + 1]
      BY <1>3 DEF IInv, TypeOK
    <3>. QED
      BY <1>2, <1>3, <3>1, OneUserMore, Zenon DEF IInv
  <2>. QED
    BY <2>1, <2>2, Zenon
<1>9. PairOK'
  <2>. SUFFICES ASSUME ~ crashed PROVE PairOK'
    BY <1>3, Zenon DEF PairOK, log
  <2>1. short = {} /\ pins[b] = 0 /\ blockno[b] \notin logged /\ k \notin logged
    <3>1. short = {} /\ pins[b] = 0
      BY <1>1, Zenon DEF IInv, PairOK
    <3>2. k \notin logged
      BY Zenon DEF IInv, PairOK
    <3>. QED
      BY <3>1, <3>2 DEF IInv, PairOK
  <2>2. \A c \in Buf \ {b} : blockno'[c] = blockno[c]
    BY <1>3, Zenon DEF IInv, TypeOK
  <2>3. blockno'[b] = k
    BY <1>3, Zenon DEF IInv, TypeOK
  <2>4. short' = {} /\ pins' = pins /\ logged' = logged
    BY <1>3, <2>1, Zenon DEF log
  <2>5. \A c \in Buf : pins'[c] = IF blockno'[c] \in logged' THEN 1 ELSE 0
    <3>1. \A c \in Buf : pins[c] = IF blockno[c] \in logged THEN 1 ELSE 0
      BY Zenon DEF IInv, PairOK
    <3>. QED
      BY <2>1, <2>2, <2>3, <2>4, <3>1
  <2>6. logged' \subseteq {blockno'[c] : c \in Buf}
    <3>0. logged \subseteq {blockno[c] : c \in Buf}
      BY ZenonT(40) DEF IInv, PairOK
    <3>1. \A j \in logged : \E c \in Buf : blockno[c] = j
      BY <3>0, ZenonT(40)
    <3>2. \A j \in logged : \E c \in Buf : blockno'[c] = j
      BY <2>1, <2>2, <3>1
    <3>. QED
      BY <2>4, <3>2, Zenon
  <2>. QED
    BY <2>4, <2>5, <2>6, Zenon DEF PairOK
<1>. QED
  BY <1>5, <1>6, <1>7, <1>8, <1>9, Zenon DEF IInv

-----------------------------------------------------------------------------
(* The steps.                                                              *)

\* Buffers of block k are on k's list, so that the list says whether k is cached.
LEMMA CachedOnList ==
  ASSUME OneCopy, NEW k \in Block
  PROVE  /\ \A b \in Cached(HASH(k), k) : b \in Buf /\ blockno[b] = k
         /\ Cached(HASH(k), k) = {} => \A b \in Buf : blockno[b] # k
<1>. QED
  BY BcacheConstants, Zenon DEF OneCopy, Cached

LEMMA HitIInv ==
  ASSUME Inv, NEW p \in Proc, NEW k \in Block, bget_hit(p, k)
  PROVE  Inv'
<1>. SUFFICES ASSUME IInv PROVE IInv'
  BY Zenon DEF Inv
<1>1. PICK b \in Cached(HASH(k), k) :
        /\ refcnt' = [refcnt EXCEPT ![b] = @ + 1]
        /\ timestamp' = [timestamp EXCEPT ![b] = ticks]
        /\ buf' = [buf EXCEPT ![p] = b]
  BY Zenon DEF bget_hit
<1>2. b \in Buf /\ blockno[b] = k /\ b # NULL /\ k # NULL
  BY CachedOnList, BcacheConstants, Zenon DEF IInv
<1>3. pc[p] = "idle" /\ buf[p] = NULL
  BY Zenon DEF IInv, HoldOK, Holding, bget_hit
<1>4. TypeOK'
  BY <1>1, <1>2 DEF IInv, TypeOK, Holding, bget_hit, log
<1>5. HoldOK' /\ DataOK'
  BY <1>1, <1>2, <1>3 DEF IInv, TypeOK, HoldOK, DataOK, Holding, bget_hit, log
<1>6. StealOK'
  BY <1>2, <1>3 DEF IInv, TypeOK, StealOK, bget_hit
<1>7. OneCopy' /\ ReadsItsBlock'
  BY <1>1, <1>2, <1>3 DEF IInv, TypeOK, OneCopy, ReadsItsBlock, bget_hit, log
<1>8. CountOK' /\ PairOK'
  BY <1>1, <1>2, <1>3, OneUserMore, SamePairs, Zenon DEF IInv, bget_hit
<1>. QED
  BY <1>4, <1>5, <1>6, <1>7, <1>8, Zenon DEF IInv

LEMMA MissIInv ==
  ASSUME Inv, NEW p \in Proc, NEW k \in Block, bget_miss(p, k)
  PROVE  Inv'
<1>. SUFFICES ASSUME IInv PROVE IInv'
  BY Zenon DEF Inv
<1>1. pc[p] = "idle" /\ blk[HASH(k)] = NULL /\ want' = [want EXCEPT ![p] = k]
  BY Zenon DEF bget_miss
<1>2. \A b \in Buf : blockno[b] # k
  BY CachedOnList, Zenon DEF IInv, bget_miss
<1>3. k \in Nat /\ HASH(k) \in Bucket /\ HASH(k + 1) \in Bucket /\ k # NULL
  BY HashType, BcacheConstants
<1>4. \A q \in Proc : pc[q] = "steal" => blk[HASH(want[q])] = q /\ want[q] # k
  BY <1>1, BcacheConstants DEF IInv, StealOK
<1>5. ASSUME NEW b \in LRU(HASH(k)), recycle(p, k, b), UNCHANGED <<blk, idx>>
      PROVE  IInv'
  <2>1. b \in Buf /\ refcnt[b] = 0
    BY Zenon DEF LRU
  <2>2. want'[p] = k /\ blk' \in [Bucket -> ProcOrNull] /\ idx' \in [Proc -> Bucket]
    BY <1>1, <1>5, Zenon DEF IInv, TypeOK
  <2>. QED
    BY <1>1, <1>2, <1>4, <1>5, <2>1, <2>2, RecycleOK, Zenon DEF Inv
<1>6. ASSUME pc' = [pc EXCEPT ![p] = "steal"], blk' = [blk EXCEPT ![HASH(k)] = p],
             idx' = [idx EXCEPT ![p] = HASH(k + 1)],
             UNCHANGED <<bucket, blockno, valid, data, refcnt, timestamp, lock, log,
                         buf, ticks>>
      PROVE  IInv'
  <2>1. TypeOK'
    BY <1>1, <1>3, <1>6, Zenon DEF IInv, TypeOK, Holding, ProcOrNull, log
  <2>2. HoldOK' /\ DataOK'
    BY <1>1, <1>6, Zenon DEF IInv, TypeOK, HoldOK, DataOK, Holding, log
  <2>3. StealOK'
    <3>1. want'[p] = k /\ blk'[HASH(k)] = p
      BY <1>1, <1>3, <1>6, Zenon DEF IInv, TypeOK
    <3>2. \A q \in Proc \ {p} : pc'[q] = pc[q] /\ want'[q] = want[q]
      BY <1>1, <1>6, Zenon DEF IInv, TypeOK
    <3>3. \A q \in Proc : pc[q] = "steal" => HASH(want[q]) # HASH(k)
      BY <1>1, <1>4, BcacheConstants, Zenon
    <3>4. \A i : i # HASH(k) /\ i \in Bucket => blk'[i] = blk[i]
      BY <1>6, Zenon DEF IInv, TypeOK
    <3>5. \A q \in Proc : pc[q] = "steal" => HASH(want[q]) \in Bucket
      BY HashType, BcacheConstants, Zenon DEF IInv, HoldOK
    <3>. QED
      BY <1>2, <1>6, <3>1, <3>2, <3>3, <3>4, <3>5 DEF IInv, StealOK
  <2>4. OneCopy' /\ ReadsItsBlock'
    BY <1>1, <1>6 DEF IInv, TypeOK, HoldOK, Holding, OneCopy, ReadsItsBlock, log
  <2>5. CountOK' /\ PairOK'
    BY <1>6, SameUsers, SamePairs, Zenon DEF IInv
  <2>. QED
    BY <2>1, <2>2, <2>3, <2>4, <2>5, Zenon DEF IInv
<1>. QED
  BY <1>5, <1>6, Zenon DEF bget_miss

LEMMA StealIInv ==
  ASSUME Inv, NEW p \in Proc, bget_steal(p)
  PROVE  Inv'
<1>. SUFFICES ASSUME IInv PROVE IInv'
  BY Zenon DEF Inv
<1>. DEFINE k == want[p]
<1>1. pc[p] = "steal" /\ UNCHANGED want /\ k \in Block /\ blk[HASH(k)] = p
  BY Zenon DEF IInv, HoldOK, StealOK, bget_steal
<1>2. k \in Nat /\ HASH(k) \in Bucket /\ HASH(idx[p] + 1) \in Bucket
  <2>1. k \in Nat /\ idx[p] \in Bucket
    BY <1>1, BcacheConstants, Zenon DEF IInv, TypeOK
  <2>2. idx[p] + 1 \in Nat
    BY <2>1, BcacheConstants DEF Bucket
  <2>. QED
    BY <2>1, <2>2, HashType, Zenon
<1>3. \A q \in Proc : pc[q] = "steal" =>
        HASH(want[q]) \in Bucket /\ blk[HASH(want[q])] = q
  BY HashType, BcacheConstants, Zenon DEF IInv, HoldOK, StealOK
<1>4. ASSUME pc' = [pc EXCEPT ![p] = "panic"],
             UNCHANGED <<bucket, blockno, valid, data, refcnt, timestamp, lock,
                         log, blk, buf, idx, ticks>>
      PROVE  IInv'
  <2>1. TypeOK' /\ HoldOK' /\ DataOK' /\ StealOK'
    BY <1>1, <1>4 DEF IInv, TypeOK, HoldOK, DataOK, StealOK, Holding, log
  <2>2. OneCopy' /\ ReadsItsBlock'
    BY <1>1, <1>4, Zenon DEF IInv, TypeOK, OneCopy, ReadsItsBlock, log
  <2>3. CountOK' /\ PairOK'
    BY <1>4, SameUsers, SamePairs, Zenon DEF IInv
  <2>. QED
    BY <2>1, <2>2, <2>3, Zenon DEF IInv
<1>5. ASSUME NEW b \in LRU(idx[p]), recycle(p, k, b),
             blk' = [blk EXCEPT ![HASH(k)] = NULL], idx' = [idx EXCEPT ![p] = 0]
      PROVE  IInv'
  <2>1. b \in Buf /\ refcnt[b] = 0
    BY Zenon DEF LRU
  <2>2. want'[p] = k /\ want' = [want EXCEPT ![p] = k]
    BY <1>1, Zenon DEF IInv, TypeOK
  <2>3. blk' \in [Bucket -> ProcOrNull] /\ idx' \in [Proc -> Bucket]
    BY <1>5, ZeroBucket, Zenon DEF IInv, TypeOK, ProcOrNull
  <2>4. \A q \in Proc \ {p} : pc[q] = "steal" => want[q] # k /\ blk'[HASH(want[q])] = q
    BY <1>1, <1>2, <1>3, <1>5, Zenon DEF IInv, TypeOK
  <2>5. \A c \in Buf : blockno[c] # k
    BY <1>1, Zenon DEF IInv, StealOK
  <2>. QED
    BY <1>1, <1>5, <2>1, <2>2, <2>3, <2>4, <2>5, RecycleOK, Zenon DEF Inv
<1>6. ASSUME idx' = [idx EXCEPT ![p] = HASH(idx[p] + 1)],
             UNCHANGED <<bucket, blockno, valid, data, refcnt, timestamp,
                         lock, log, blk, pc, buf, ticks>>
      PROVE  IInv'
  <2>1. TypeOK'
    BY <1>1, <1>2, <1>6, Zenon DEF IInv, TypeOK, log
  <2>2. HoldOK' /\ DataOK' /\ StealOK' /\ OneCopy' /\ ReadsItsBlock'
    BY <1>1, <1>6 DEF IInv, HoldOK, DataOK, StealOK, OneCopy, ReadsItsBlock, log
  <2>3. CountOK' /\ PairOK'
    BY <1>6, SameUsers, SamePairs, Zenon DEF IInv
  <2>. QED
    BY <2>1, <2>2, <2>3, Zenon DEF IInv
<1>. QED
  BY <1>4, <1>5, <1>6, Zenon DEF bget_steal, log

\* bpin() and bunpin() count the log as one more user.
LEMMA PinIInv ==
  ASSUME Inv, NEW p \in Proc, bpin(p)
  PROVE  Inv'
<1>. SUFFICES ASSUME IInv PROVE IInv'
  BY Zenon DEF Inv
<1>. DEFINE b == buf[p]
<1>1. b \in Buf /\ b # NULL /\ blockno[b] \in Block
  <2>1. pc[p] = "use" /\ b \in Buf \cup {NULL}
    BY Zenon DEF IInv, TypeOK, bpin
  <2>2. b # NULL /\ blockno[b] # NULL
    BY <2>1, Zenon DEF IInv, HoldOK, Holding
  <2>. QED
    BY <2>1, <2>2, Zenon DEF IInv, TypeOK
<1>2. TypeOK'
  BY <1>1 DEF IInv, TypeOK, bpin, procs
<1>3. HoldOK' /\ DataOK' /\ StealOK' /\ OneCopy' /\ ReadsItsBlock'
  BY DEF IInv, HoldOK, DataOK, StealOK, OneCopy, ReadsItsBlock, bpin, procs
<1>4. CountOK'
  <2>1. \A c \in Buf : Users(c)' = Users(c) /\ Cardinality(Users(c)) \in Nat
    BY UsersFinite, Zenon DEF Users, bpin, procs
  <2>2. \A c \in Buf \ {b} : refcnt'[c] = refcnt[c] /\ pins'[c] = pins[c]
    BY Zenon DEF IInv, TypeOK, bpin
  <2>3. refcnt'[b] = refcnt[b] + 1 /\ pins'[b] = pins[b] + 1 /\ pins[b] \in Nat
    BY <1>1, Zenon DEF IInv, TypeOK, bpin
  <2>4. short' = short
    BY Zenon DEF bpin
  <2>5. b \notin short => refcnt'[b] = Cardinality(Users(b)) + pins'[b]
    <3>1. b \notin short => refcnt[b] = Cardinality(Users(b)) + pins[b]
      BY <1>1, Zenon DEF IInv, CountOK
    <3>. QED
      BY <1>1, <2>1, <2>3, <3>1
  <2>. QED
    BY <2>1, <2>2, <2>4, <2>5, Zenon DEF IInv, CountOK
<1>5. PairOK'
  <2>. SUFFICES ASSUME ~ crashed PROVE PairOK'
    BY Zenon DEF PairOK, bpin
  <2>1. logged' = logged \cup {blockno[b]} /\ blockno' = blockno /\ short' = short
    BY Zenon DEF bpin
  <2>2. pins[b] = 0 /\ pins'[b] = pins[b] + 1
    BY <1>1, Zenon DEF IInv, PairOK, TypeOK, bpin
  <2>3. \A c \in Buf \ {b} : pins'[c] = pins[c] /\ blockno[c] # blockno[b]
    BY <1>1, BcacheConstants, Zenon DEF IInv, TypeOK, OneCopy, bpin
  <2>4. \A c \in Buf : pins'[c] = IF blockno'[c] \in logged' THEN 1 ELSE 0
    BY <1>1, <2>1, <2>2, <2>3 DEF IInv, PairOK
  <2>5. logged' \subseteq {blockno'[c] : c \in Buf}
    BY <1>1, <2>1, Zenon DEF IInv, PairOK
  <2>. QED
    BY <2>1, <2>4, <2>5, Zenon DEF IInv, PairOK
<1>. QED
  BY <1>2, <1>3, <1>4, <1>5, Zenon DEF IInv

LEMMA UnpinIInv ==
  ASSUME Inv, NEW p \in Proc, bunpin(p)
  PROVE  Inv'
<1>. SUFFICES ASSUME IInv PROVE IInv'
  BY Zenon DEF Inv
<1>. DEFINE b == buf[p]
<1>1. b \in Buf /\ b # NULL /\ want[p] \in logged
  BY BcacheConstants, Zenon DEF IInv, TypeOK, HoldOK, Holding, bunpin
<1>2. short \subseteq short' /\ short' \subseteq Buf
  BY <1>1, Zenon DEF IInv, TypeOK, bunpin
<1>3. TypeOK'
  <2>1. pins' \in [Buf -> Nat]
    BY <1>1 DEF IInv, TypeOK, bunpin
  <2>. QED
    BY <1>1, <1>2, <2>1 DEF IInv, TypeOK, bunpin, procs
<1>4. HoldOK' /\ DataOK' /\ StealOK' /\ OneCopy' /\ ReadsItsBlock'
  <2>1. UNCHANGED <<bucket, blockno, valid, data, lock, blk, pc, want, buf>>
    BY Zenon DEF bunpin, procs
  <2>2. HoldOK' /\ StealOK' /\ OneCopy'
    BY <2>1, Zenon DEF IInv, HoldOK, StealOK, OneCopy
  <2>3. DataOK'
    BY <1>2, <2>1, Zenon DEF IInv, DataOK
  <2>4. ReadsItsBlock'
    BY <1>2, <2>1 DEF IInv, ReadsItsBlock
  <2>. QED
    BY <2>2, <2>3, <2>4, Zenon
<1>5. CountOK'
  <2>1. \A c \in Buf : Users(c)' = Users(c) /\ Cardinality(Users(c)) \in Nat
    BY UsersFinite, Zenon DEF Users, bunpin, procs
  <2>2. \A c \in Buf \ {b} : refcnt'[c] = refcnt[c] /\ pins'[c] = pins[c]
    BY Zenon DEF IInv, TypeOK, bunpin
  <2>3. refcnt'[b] = refcnt[b] - 1 /\ pins[b] \in Nat
    BY <1>1, Zenon DEF IInv, TypeOK, bunpin
  <2>4. b \notin short' => pins'[b] = pins[b] - 1 /\ b \notin short
    BY <1>1, <1>2, Zenon DEF IInv, TypeOK, bunpin
  <2>5. b \notin short' => refcnt'[b] = Cardinality(Users(b)) + pins'[b]
    <3>1. b \notin short => refcnt[b] = Cardinality(Users(b)) + pins[b]
      BY <1>1, Zenon DEF IInv, CountOK
    <3>. QED
      BY <1>1, <2>1, <2>3, <2>4, <3>1
  <2>. QED
    BY <1>2, <2>1, <2>2, <2>5, Zenon DEF IInv, CountOK
<1>6. PairOK'
  <2>. SUFFICES ASSUME ~ crashed PROVE PairOK'
    BY Zenon DEF PairOK, bunpin
  <2>1. logged' = logged \ {want[p]} /\ blockno' = blockno
    BY Zenon DEF bunpin
  <2>2. short = {} /\ blockno[b] = want[p]
    BY <1>1, Zenon DEF IInv, PairOK, ReadsItsBlock
  <2>3. pins[b] = 1
    BY <1>1, <2>2, Zenon DEF IInv, PairOK
  <2>4. short' = {} /\ pins'[b] = 0
    <3>1. pins[b] # 0
      BY <2>3
    <3>2. short' = short /\ pins' = [pins EXCEPT ![b] = @ - 1]
      BY <3>1, Zenon DEF bunpin
    <3>. QED
      BY <1>1, <2>2, <2>3, <3>2 DEF IInv, TypeOK
  <2>5. \A c \in Buf \ {b} : pins'[c] = pins[c] /\ blockno[c] # want[p]
    <3>1. want[p] # NULL
      BY <1>1, BcacheConstants, Zenon DEF IInv, TypeOK
    <3>. QED
      BY <1>1, <2>2, <3>1, Zenon DEF IInv, TypeOK, OneCopy, bunpin
  <2>6. \A c \in Buf : pins'[c] = IF blockno'[c] \in logged' THEN 1 ELSE 0
    BY <1>1, <2>1, <2>2, <2>4, <2>5, Zenon DEF IInv, PairOK
  <2>7. logged' \subseteq {blockno'[c] : c \in Buf}
    BY <2>1, Zenon DEF IInv, PairOK
  <2>. QED
    BY <2>4, <2>6, <2>7, Zenon DEF PairOK
<1>. QED
  BY <1>3, <1>4, <1>5, <1>6, Zenon DEF IInv

LEMMA UnrefIInv ==
  ASSUME Inv, NEW p \in Proc, brelse_unref(p)
  PROVE  Inv'
<1>. SUFFICES ASSUME IInv PROVE IInv'
  BY Zenon DEF Inv
<1>1. pc[p] = "brelse" /\ buf[p] \in Buf /\ buf[p] # NULL
  BY BcacheConstants, Zenon DEF IInv, TypeOK, HoldOK, Holding, brelse_unref
<1>2. TypeOK'
  BY <1>1, ZeroBucket DEF IInv, TypeOK, Holding, brelse_unref, log
<1>3. HoldOK' /\ DataOK' /\ StealOK'
  BY <1>1 DEF IInv, TypeOK, HoldOK, DataOK, StealOK, Holding, brelse_unref, log
<1>4. OneCopy' /\ ReadsItsBlock'
  BY <1>1 DEF IInv, TypeOK, OneCopy, ReadsItsBlock, brelse_unref, log
<1>5. CountOK' /\ PairOK'
  BY <1>1, OneUserLess, SamePairs, Zenon DEF IInv, brelse_unref
<1>. QED
  BY <1>2, <1>3, <1>4, <1>5, Zenon DEF IInv

LEMMA NextIInv == Inv /\ [Next]_vars => Inv'
<1>. SUFFICES ASSUME IInv, [Next]_vars PROVE IInv'
  BY Zenon DEF Inv
<1>1. CASE clockintr
  <2>1. TypeOK'
    BY <1>1 DEF IInv, TypeOK, clockintr, procs, log
  <2>2. HoldOK' /\ DataOK' /\ StealOK' /\ OneCopy' /\ ReadsItsBlock'
    BY <1>1, Zenon DEF IInv, HoldOK, DataOK, StealOK, OneCopy, ReadsItsBlock, clockintr, procs, log
  <2>3. CountOK' /\ PairOK'
    BY <1>1, SameUsers, SamePairs, Zenon DEF IInv, clockintr, procs
  <2>. QED
    BY <2>1, <2>2, <2>3, Zenon DEF IInv
<1>2. ASSUME NEW p \in Proc, bget_lock(p) PROVE IInv'
  <2>1. buf[p] \in Buf /\ buf[p] # NULL
    BY <1>2, BcacheConstants, Zenon DEF IInv, TypeOK, HoldOK, Holding, bget_lock
  <2>2. TypeOK'
    BY <1>2, <2>1, Zenon DEF IInv, TypeOK, ProcOrNull, Holding, bget_lock, log
  <2>3. HoldOK' /\ DataOK' /\ StealOK'
    BY <1>2, <2>1, BcacheConstants
       DEF IInv, TypeOK, HoldOK, DataOK, StealOK, ReadsItsBlock, Holding, bget_lock, log
  <2>4. OneCopy' /\ ReadsItsBlock'
    BY <1>2, <2>1, BcacheConstants
       DEF IInv, TypeOK, HoldOK, DataOK, Holding, OneCopy, ReadsItsBlock, bget_lock, log
  <2>5. CountOK' /\ PairOK'
    BY <1>2, SameUsers, SamePairs, Zenon DEF IInv, bget_lock
  <2>. QED
    BY <2>2, <2>3, <2>4, <2>5, Zenon DEF IInv
<1>3. ASSUME NEW p \in Proc, bread(p) PROVE IInv'
  <2>1. buf[p] \in Buf /\ buf[p] # NULL
    BY <1>3, BcacheConstants, Zenon DEF IInv, TypeOK, HoldOK, Holding, bread
  <2>2. TypeOK'
    BY <1>3, <2>1, Zenon DEF IInv, TypeOK, ProcOrNull, Holding, bread, log
  <2>3. HoldOK' /\ DataOK' /\ StealOK'
    BY <1>3, <2>1, BcacheConstants
       DEF IInv, TypeOK, HoldOK, DataOK, StealOK, ReadsItsBlock, Holding, bread, log
  <2>4. OneCopy' /\ ReadsItsBlock'
    BY <1>3, <2>1, BcacheConstants
       DEF IInv, TypeOK, HoldOK, DataOK, Holding, OneCopy, ReadsItsBlock, bread, log
  <2>5. CountOK' /\ PairOK'
    BY <1>3, SameUsers, SamePairs, Zenon DEF IInv, bread
  <2>. QED
    BY <2>2, <2>3, <2>4, <2>5, Zenon DEF IInv
<1>4. ASSUME NEW p \in Proc, brelse(p) PROVE IInv'
  <2>1. buf[p] \in Buf /\ buf[p] # NULL
    BY <1>4, BcacheConstants, Zenon DEF IInv, TypeOK, HoldOK, Holding, brelse
  <2>2. TypeOK'
    <3>1. blockno[buf[p]] \in Block
      BY <2>1, Zenon DEF IInv, TypeOK, HoldOK
    <3>2. HASH(blockno[buf[p]]) \in Bucket
      BY <3>1, HashType, BcacheConstants, Zenon
    <3>. QED
      BY <1>4, <2>1, <3>2, Zenon DEF IInv, TypeOK, ProcOrNull, Holding, brelse, log
  <2>3. HoldOK' /\ DataOK' /\ StealOK'
    BY <1>4, <2>1, BcacheConstants
       DEF IInv, TypeOK, HoldOK, DataOK, StealOK, ReadsItsBlock, Holding, brelse, log
  <2>4. OneCopy' /\ ReadsItsBlock'
    BY <1>4, <2>1, BcacheConstants
       DEF IInv, TypeOK, HoldOK, DataOK, Holding, OneCopy, ReadsItsBlock, brelse, log
  <2>5. CountOK' /\ PairOK'
    BY <1>4, SameUsers, SamePairs, Zenon DEF IInv, brelse
  <2>. QED
    BY <2>2, <2>3, <2>4, <2>5, Zenon DEF IInv
<1>5. ASSUME NEW p \in Proc, recovered(p) PROVE IInv'
  <2>1. TypeOK'
    BY <1>5 DEF IInv, TypeOK, ProcOrNull, recovered, procs
  <2>2. HoldOK' /\ DataOK' /\ StealOK' /\ OneCopy' /\ ReadsItsBlock'
    <3>1. UNCHANGED <<bucket, blockno, valid, data, lock, short, blk, pc, want, buf>>
      BY <1>5, Zenon DEF recovered, procs
    <3>2. HoldOK' /\ DataOK' /\ StealOK'
      BY <3>1, Zenon DEF IInv, HoldOK, DataOK, StealOK
    <3>3. OneCopy' /\ ReadsItsBlock'
      BY <3>1, Zenon DEF IInv, OneCopy, ReadsItsBlock
    <3>. QED
      BY <3>2, <3>3, Zenon
  <2>3. CountOK' /\ PairOK'
    BY <1>5, Zenon DEF IInv, CountOK, PairOK, Users, recovered, procs
  <2>. QED
    BY <2>1, <2>2, <2>3, Zenon DEF IInv
<1>6. CASE UNCHANGED vars
  <2>1. TypeOK' /\ HoldOK' /\ DataOK' /\ StealOK' /\ OneCopy' /\ ReadsItsBlock'
    BY <1>6, Zenon
       DEF IInv, TypeOK, HoldOK, DataOK, StealOK, OneCopy, ReadsItsBlock, vars, procs, log
  <2>2. CountOK' /\ PairOK'
    BY <1>6, SameUsers, SamePairs, Zenon DEF IInv, vars, procs
  <2>. QED
    BY <2>1, <2>2, Zenon DEF IInv
<1>. QED
  BY <1>1, <1>2, <1>3, <1>4, <1>5, <1>6, HitIInv, MissIInv, StealIInv, PinIInv, UnpinIInv,
     UnrefIInv, Zenon
     DEF Inv, Next, Step

LEMMA Invariance == Spec => []Inv
  BY InitIInv, NextIInv, PTL DEF Spec

\* What bget() and brelse() keep true, for any number of processes, buffers, buckets
\* and blocks, whatever recovery does: a block has one buffer, on the list of its bucket,
\* and the reference count of a buffer is the number of its users and pins until it is
\* unpinned without a pin.  After a boot with an empty log that never happens, and
\* the logged blocks are the blocks of the pinned buffers.
THEOREM BcacheSafe == Spec => [](OneCopy /\ RefcntExact)
<1>1. Inv => OneCopy /\ RefcntExact
  BY Zenon DEF Inv, IInv, CountOK, PairOK, RefcntExact
<1>. QED
  BY <1>1, Invariance, PTL

\* A buffer is used by one process at a time, and bread() returns the contents of the
\* block that was asked for, although a buffer may be stolen for another block at any
\* moment it counts as unused; except in a buffer that was unpinned without a pin.
THEOREM ReadSafe == Spec => []ReadsItsBlock
<1>1. Inv => ReadsItsBlock
  BY Zenon DEF Inv, IInv
<1>. QED
  BY <1>1, Invariance, PTL
=============================================================================
