----------------------------- MODULE LogProofs ------------------------------
(***************************************************************************)
(* Proofs about the log (Log.tla), for any number of processes, blocks and *)
(* crashes.                                                                *)
(***************************************************************************)
EXTENDS Log, FiniteSetTheorems, TLAPS

\* Where a process is in commit(), and while the kernel starts.
Commit == {"write_log", "write_head", "install", "done"}
Boot == {"down", "recover"}

\* What the log can come to hold.
Cap == IF OPBLOCKS < MAXOPBLOCKS THEN LOGSIZE - 1 ELSE LOGSIZE

Header == {h \in Seq(Block) :
             Len(h) <= Cap /\ \A i, j \in 1 .. Len(h) : h[i] = h[j] => i = j}

\* Every variable holds a value of its type; no block is in a header twice.
TypeOK ==
  /\ disk \in [Block -> Val] /\ cache \in [Block -> Val]
  /\ logd \in [1 .. LOGSIZE -> Val]
  /\ head \in Header /\ lh \in Header
  /\ outstanding \in Nat /\ committing \in BOOLEAN
  /\ pc \in [Proc -> {"begin", "asleep", "op", "log"} \cup Commit \cup Boot]
  /\ buf \in [Proc -> Block \cup {NULL}]
  /\ left \in [Proc -> Nat]
  /\ tail \in Nat \ {0}
  /\ panicked \in BOOLEAN
  /\ crashes \in Nat

\* Calls, a commit and recovery exclude each other, and only one process is in
\* commit() or recovers.  A buffer is locked by the process in log_write().
PhaseOK ==
  /\ \A p \in Proc : buf[p] # NULL <=> pc[p] = "log"
  /\ \A p, q \in Proc : buf[p] # NULL /\ buf[p] = buf[q] => p = q
  /\ committing <=> \E p \in Proc : pc[p] \in Commit
  /\ committing => Ops = {}
  /\ \A p, q \in Proc : pc[p] \in Commit /\ pc[q] \in Commit => p = q
  /\ \A p, q \in Proc : pc[p] \in Boot => pc[q] \in Boot
  /\ \A p, q \in Proc : pc[p] = "recover" /\ pc[q] = "recover" => p = q

\* log.outstanding counts the calls in progress.
CountOK == outstanding = Cardinality(Ops)

\* The header on the disk is empty except from write_head() to the end of
\* install_trans(), by commit() or by recovery; lh is empty when nothing is to commit.
HeadOK ==
  /\ head # <<>> => \E p \in Proc : pc[p] \in {"install"} \cup Boot
  /\ lh # <<>> => \E p \in Proc : pc[p] \in {"op", "log", "recover"} \cup (Commit \ {"done"})
  /\ (\A p \in Proc : pc[p] = "down") => tail = 1
  /\ \A p \in Proc : pc[p] \in {"install", "recover"} => head = lh /\ tail <= Len(lh) + 1
  /\ \A p \in Proc : pc[p] = "write_log" => tail <= Len(lh)
  /\ \A p \in Proc : pc[p] = "write_head" => tail = 1

\* The blocks that write_log() has copied, those that install_trans() has copied, and
\* those that no transaction has changed.
DataOK ==
  /\ \A p \in Proc : \A i \in 1 .. Len(lh) :
       \/ pc[p] = "write_log" /\ i < tail
       \/ pc[p] \in {"write_head", "install"}
       => logd[i] = cache[lh[i]]
  /\ \A p \in Proc : \A i \in 1 .. Len(lh) :
       pc[p] \in {"install", "recover"} /\ i < tail => logd[i] = disk[lh[i]]
  /\ \A b \in Block :
       \/ ~ InLog(b, lh) /\ \A p \in Proc : buf[p] # b
       \/ \E p \in Proc : pc[p] \in Boot
       => cache[b] = disk[b]

\* begin_op() reserves enough for what the calls in progress will still log.
SpaceOK ==
  /\ \A p \in Ops : Need(p) <= OPBLOCKS
  /\ Len(lh) + Cardinality(Room) <= Cap

IInv == /\ TypeOK /\ PhaseOK /\ CountOK /\ HeadOK /\ DataOK /\ SpaceOK /\ ~ panicked

\* The invariant under the name that the lemmas have for it, which their proofs leave
\* folded in what they cite.
Inv == IInv

\* log_write() has found the log full, with one block of the reservations left.
PanicOK ==
  /\ panicked /\ outstanding # 0 /\ OPBLOCKS = MAXOPBLOCKS
  /\ Len(lh) + Cardinality(Room) = LOGSIZE

Safe == Inv \/ PanicOK

-----------------------------------------------------------------------------
(* Counting calls and the blocks they may log.                             *)

LEMMA OpsFinite ==
  ASSUME LogConstants
  PROVE  /\ IsFiniteSet(Ops) /\ Cardinality(Ops) \in Nat
         /\ IsFiniteSet(Ops') /\ Cardinality(Ops') \in Nat
<1>1. IsFiniteSet(Proc) /\ Ops \subseteq Proc /\ Ops' \subseteq Proc
  BY Zenon DEF LogConstants, Ops
<1>. QED
  BY <1>1, FS_Subset, FS_CardinalityType, Zenon

\* Each call logs at most OPBLOCKS blocks.
LEMMA RoomBound ==
  ASSUME LogConstants
  PROVE  /\ IsFiniteSet(Room)
         /\ Cardinality(Room) \in Nat
         /\ Cardinality(Room) <= Cardinality(Ops) * OPBLOCKS
<1>1. IsFiniteSet(1 .. OPBLOCKS) /\ Cardinality(1 .. OPBLOCKS) = OPBLOCKS
  BY FS_Interval DEF LogConstants
<1>2. /\ IsFiniteSet(Ops \X (1 .. OPBLOCKS))
      /\ Cardinality(Ops \X (1 .. OPBLOCKS)) = Cardinality(Ops) * OPBLOCKS
  BY <1>1, OpsFinite, FS_Product, Zenon
<1>3. Room \subseteq Ops \X (1 .. OPBLOCKS)
  BY Zenon DEF Room
<1>. QED
  BY <1>2, <1>3, FS_Subset, FS_CardinalityType, Zenon

LEMMA NoOps ==
  ASSUME LogConstants, CountOK
  PROVE  outstanding = 0 <=> Ops = {}
<1>. QED
  BY OpsFinite, FS_EmptySet, Zenon DEF CountOK

LEMMA SameOps ==
  ASSUME CountOK, SpaceOK, Ops' = Ops, UNCHANGED outstanding, Len(lh') = Len(lh),
         \A p \in Ops : Need(p)' = Need(p)
  PROVE  CountOK' /\ SpaceOK'
<1>1. Room' = Room
  BY Zenon DEF Room
<1>. QED
  BY <1>1, Zenon DEF CountOK, SpaceOK

LEMMA CapType ==
  ASSUME LogConstants PROVE Cap \in Nat /\ Cap <= LOGSIZE
<1>. QED
  BY DEF LogConstants, Cap

\* Without calls nothing is left to log.
LEMMA NoRoom ==
  ASSUME Ops = {}, lh \in Header PROVE SpaceOK
<1>1. Room = {} /\ Cardinality({}) = 0
  BY FS_EmptySet, Zenon DEF Room
<1>2. Len(lh) \in Nat /\ Len(lh) <= Cap
  BY DEF Header
<1>3. Len(lh) + 0 <= Cap
  BY <1>2
<1>. QED
  BY <1>1, <1>3, Zenon DEF SpaceOK

LEMMA NoRoomNext ==
  ASSUME Ops' = {}, lh' \in Header PROVE SpaceOK'
<1>1. Room' = {} /\ Cardinality({}) = 0
  BY FS_EmptySet, Zenon DEF Room
<1>2. Len(lh') \in Nat /\ Len(lh') <= Cap
  BY DEF Header
<1>3. Len(lh') + 0 <= Cap
  BY <1>2
<1>. QED
  BY <1>1, <1>3, Zenon DEF SpaceOK

\* The log has room for one more call.
LEMMA Reserve ==
  ASSUME LogConstants, NEW n \in Nat, NEW m \in Nat, NEW r \in Nat, r <= n * OPBLOCKS,
         m + (n + 1) * MAXOPBLOCKS <= LOGSIZE
  PROVE  m + r + OPBLOCKS <= Cap
<1>1. OPBLOCKS \in Nat /\ MAXOPBLOCKS \in Nat /\ LOGSIZE \in Nat /\ OPBLOCKS <= MAXOPBLOCKS
  BY DEF LogConstants
<1>2. CASE OPBLOCKS < MAXOPBLOCKS
  <2>1. (n + 1) * (OPBLOCKS + 1) <= (n + 1) * MAXOPBLOCKS
    BY <1>1, <1>2
  <2>2. (n + 1) * (OPBLOCKS + 1) = n * OPBLOCKS + OPBLOCKS + n + 1
    BY <1>1
  <2>. QED
    BY <1>1, <1>2, <2>1, <2>2 DEF Cap
<1>3. CASE OPBLOCKS = MAXOPBLOCKS
  <2>1. (n + 1) * OPBLOCKS = n * OPBLOCKS + OPBLOCKS
    BY <1>1
  <2>. QED
    BY <1>1, <1>3, <2>1 DEF Cap
<1>. QED
  BY <1>1, <1>2, <1>3

LEMMA InitIInv ==
  ASSUME LogConstants PROVE Init => Inv
<1>. SUFFICES ASSUME Init PROVE IInv
  BY Zenon DEF Inv
<1>1. Ops = {} /\ \A p \in Proc : pc[p] = "begin"
  BY Zenon DEF Init, Ops
<1>2. <<>> \in Header
  BY CapType DEF Header
<1>3. TypeOK
  <2>1. (CHOOSE v \in Val : TRUE) \in Val
    BY Zenon DEF LogConstants
  <2>2. logd \in [1 .. LOGSIZE -> Val]
    BY <2>1, Zenon DEF Init
  <2>3. disk \in [Block -> Val] /\ cache \in [Block -> Val] /\ head \in Header /\ lh \in Header
    BY <1>2, Zenon DEF Init
  <2>4. /\ pc \in [Proc -> {"begin"}] /\ buf \in [Proc -> Block \cup {NULL}]
        /\ left \in [Proc -> Nat]
    BY Zenon DEF Init
  <2>5. outstanding = 0 /\ tail = 1 /\ crashes = 0
    BY Zenon DEF Init
  <2>6. committing \in BOOLEAN /\ panicked \in BOOLEAN
    BY Zenon DEF Init
  <2>. QED
    BY <2>2, <2>3, <2>4, <2>5, <2>6 DEF TypeOK
<1>4. PhaseOK
  BY <1>1, Zenon DEF Init, PhaseOK, Commit, Boot
<1>5. HeadOK
  BY <1>1, Zenon DEF LogConstants, Init, HeadOK
<1>6. DataOK
  BY <1>1, Zenon DEF Init, DataOK, Boot
<1>7. CountOK /\ SpaceOK /\ ~ panicked
  BY <1>1, <1>2, NoRoom, FS_EmptySet, Zenon DEF Init, CountOK
<1>. QED
  BY <1>3, <1>4, <1>5, <1>6, <1>7, Zenon DEF IInv

-----------------------------------------------------------------------------
(* The steps.                                                              *)

LEMMA BeginIInv ==
  ASSUME LogConstants, Inv, NEW p \in Proc, begin_op(p)
  PROVE  Inv'
<1>. SUFFICES ASSUME IInv PROVE IInv'
  BY Zenon DEF Inv
<1>1. pc[p] = "begin" /\ p \notin Ops /\ ~ (pc[p] \in Boot)
  BY Zenon DEF begin_op, Ops, Boot
<1>2. UNCHANGED <<disk, logd, head, cache, lh, committing, buf, tail, panicked, crashes>>
  BY Zenon DEF begin_op, disks
<1>3. CASE UNCHANGED <<outstanding, left>> /\ Goto(p, "asleep")
  <2>1. pc' = [pc EXCEPT ![p] = "asleep"]
    BY <1>3, Zenon DEF Goto
  <2>2. TypeOK'
    BY <1>2, <1>3, <2>1, Zenon DEF IInv, TypeOK
  <2>3. PhaseOK'
    BY <1>1, <1>2, <2>1 DEF IInv, TypeOK, PhaseOK, Commit, Boot, Ops
  <2>4. HeadOK'
    BY <1>1, <1>2, <2>1, Zenon DEF IInv, TypeOK, HeadOK, Commit, Boot
  <2>5. DataOK'
    BY <1>1, <1>2, <2>1 DEF IInv, TypeOK, DataOK, InLog, Boot
  <2>6. CountOK' /\ SpaceOK'
    BY <1>1, <1>2, <1>3, <2>1, SameOps, Zenon DEF IInv, TypeOK, Ops, Need
  <2>. QED
    BY <1>2, <2>2, <2>3, <2>4, <2>5, <2>6, Zenon DEF IInv
<1>4. CASE /\ ~ (committing \/ Len(lh) + (outstanding + 1) * MAXOPBLOCKS > LOGSIZE)
           /\ outstanding' = outstanding + 1
           /\ left' = [left EXCEPT ![p] = OPBLOCKS]
           /\ Goto(p, "op")
  <2>1. pc' = [pc EXCEPT ![p] = "op"]
    BY <1>4, Zenon DEF Goto
  <2>2. TypeOK'
    BY <1>2, <1>4, <2>1 DEF LogConstants, IInv, TypeOK
  <2>3. PhaseOK'
    BY <1>1, <1>2, <1>4, <2>1 DEF IInv, TypeOK, PhaseOK, Commit, Boot
  <2>4. HeadOK'
    BY <1>1, <1>2, <2>1, Zenon DEF IInv, TypeOK, HeadOK, Commit, Boot
  <2>5. DataOK'
    BY <1>1, <1>2, <2>1 DEF IInv, TypeOK, DataOK, InLog, Boot
  <2>6. Ops' = Ops \cup {p}
    BY <2>1, Zenon DEF IInv, TypeOK, Ops
  <2>7. CountOK'
    BY <1>1, <1>4, <2>6, OpsFinite, FS_AddElement, Zenon DEF IInv, CountOK
  <2>8. SpaceOK'
    <3>. DEFINE New == {p} \X (1 .. OPBLOCKS)
    <3>1. Need(p)' = OPBLOCKS /\ \A q \in Ops : Need(q)' = Need(q)
      BY <1>1, <1>4, <2>1 DEF LogConstants, IInv, TypeOK, Ops, Need
    <3>2. Room' = Room \cup New
      BY <2>6, <3>1, <1>1 DEF LogConstants, Room
    <3>3. Room \cap New = {}
      BY <1>1, Zenon DEF Room
    <3>4. IsFiniteSet(New) /\ Cardinality(New) = OPBLOCKS
      <4>1. IsFiniteSet(1 .. OPBLOCKS) /\ Cardinality(1 .. OPBLOCKS) = OPBLOCKS
        BY FS_Interval DEF LogConstants
      <4>2. IsFiniteSet({p}) /\ Cardinality({p}) = 1
        BY FS_Singleton, Zenon
      <4>3. IsFiniteSet(New) /\ Cardinality(New) = Cardinality({p}) * Cardinality(1 .. OPBLOCKS)
        BY <4>1, <4>2, FS_Product, Zenon
      <4>4. 1 * OPBLOCKS = OPBLOCKS
        BY DEF LogConstants
      <4>. QED
        BY <4>1, <4>2, <4>3, <4>4, Zenon
    <3>5. Cardinality(Room') = Cardinality(Room) + OPBLOCKS
      <4>1. Cardinality(Room \cup New)
            = Cardinality(Room) + Cardinality(New) - Cardinality(Room \cap New)
        BY <3>4, RoomBound, FS_Union, Zenon
      <4>2. Cardinality(Room \cap New) = 0
        BY <3>3, FS_EmptySet, Zenon
      <4>3. Cardinality(Room) \in Nat /\ OPBLOCKS \in Nat
        BY RoomBound, Zenon DEF LogConstants
      <4>. QED
        BY <3>2, <3>4, <4>1, <4>2, <4>3
    <3>6. Cardinality(Room) <= outstanding * OPBLOCKS /\ Cardinality(Room) \in Nat
      BY RoomBound, Zenon DEF IInv, CountOK
    <3>7. Len(lh) \in Nat /\ outstanding \in Nat
      BY DEF IInv, TypeOK, Header
    <3>8. Len(lh) + (outstanding + 1) * MAXOPBLOCKS <= LOGSIZE
      BY <1>4, <3>7 DEF LogConstants
    <3>9. Len(lh) + Cardinality(Room) + OPBLOCKS <= Cap
      BY <3>6, <3>7, <3>8, Reserve, Zenon
    <3>10. Len(lh') + Cardinality(Room') <= Cap
      BY <1>2, <3>5, <3>6, <3>7, <3>9, CapType DEF LogConstants
    <3>. QED
      BY <2>6, <3>1, <3>10 DEF LogConstants, IInv, SpaceOK
  <2>. QED
    BY <1>2, <2>2, <2>3, <2>4, <2>5, <2>7, <2>8, Zenon DEF IInv
<1>. QED
  BY <1>3, <1>4, Zenon DEF begin_op

LEMMA ModifyIInv ==
  ASSUME LogConstants, Inv, NEW p \in Proc, NEW b \in Block, NEW v \in Val, modify(p, b, v)
  PROVE  Inv' \/ (PanicOK' /\ pc' = pc)
<1>. SUFFICES ASSUME IInv PROVE IInv' \/ (PanicOK' /\ pc' = pc)
  BY Zenon DEF Inv
<1>1. pc[p] = "op" /\ p \in Ops /\ left[p] > 0 /\ \A q \in Proc : buf[q] # b
  BY Zenon DEF modify, Ops
<1>2. cache' = [cache EXCEPT ![b] = v]
      /\ UNCHANGED <<disk, logd, head, lh, outstanding, committing, tail, crashes>>
  BY Zenon DEF modify, disks
<1>3. outstanding >= 1
  BY <1>1, NoOps DEF IInv, TypeOK
<1>4. ASSUME Len(lh) >= LOGSIZE - 1, panicked', UNCHANGED <<buf, pc, left>>
      PROVE  PanicOK' /\ pc' = pc
  <2>1. <<p, 1>> \in Room
    BY <1>1 DEF LogConstants, IInv, TypeOK, SpaceOK, Room, Need
  <2>2. Cardinality(Room) \in Nat /\ Cardinality(Room) # 0
    BY <2>1, RoomBound, FS_EmptySet, Zenon
  <2>3. Len(lh) + Cardinality(Room) <= Cap /\ Len(lh) \in Nat
    BY DEF IInv, SpaceOK, TypeOK, Header
  <2>4. OPBLOCKS = MAXOPBLOCKS /\ Len(lh) + Cardinality(Room) = LOGSIZE
    BY <1>4, <2>2, <2>3 DEF LogConstants, Cap
  <2>5. Room' = Room
    BY <1>4, Zenon DEF Room, Ops, Need
  <2>6. outstanding' # 0
    BY <1>2, <1>3 DEF IInv, TypeOK
  <2>. QED
    BY <1>2, <1>4, <2>4, <2>5, <2>6, Zenon DEF PanicOK
<1>5. ASSUME /\ buf' = [buf EXCEPT ![p] = b]
             /\ left' = [left EXCEPT ![p] = left[p] - 1]
             /\ pc' = [pc EXCEPT ![p] = "log"]
             /\ UNCHANGED panicked
      PROVE  IInv'
  <2>6. Ops' = Ops /\ \A q \in Ops : Need(q)' = Need(q)
    BY <1>1, <1>5 DEF IInv, TypeOK, Ops, Need
  <2>7. TypeOK'
    BY <1>1, <1>2, <1>5 DEF IInv, TypeOK
  <2>8. PhaseOK'
    BY <1>1, <1>2, <1>5, <2>6 DEF LogConstants, IInv, TypeOK, PhaseOK, Commit, Boot
  <2>9. HeadOK'
    BY <1>1, <1>2, <1>5 DEF IInv, TypeOK, PhaseOK, HeadOK, Commit, Boot
  <2>10. DataOK'
    <3>1. \A q \in Proc : pc'[q] \notin Commit \cup Boot
      BY <1>1, <1>5, Zenon DEF IInv, TypeOK, PhaseOK, Commit, Boot
    <3>. QED
      BY <1>1, <1>2, <1>5, <3>1
         DEF LogConstants, IInv, TypeOK, PhaseOK, DataOK, Commit, Boot
  <2>11. CountOK' /\ SpaceOK'
    BY <1>2, <2>6, SameOps, Zenon DEF IInv
  <2>. QED
    BY <1>5, <2>7, <2>8, <2>9, <2>10, <2>11, Zenon DEF IInv
<1>6. Len(lh) >= LOGSIZE - 1 \/ ~ (Len(lh) >= LOGSIZE \/ Len(lh) >= NLOG - 1 \/ outstanding < 1)
  BY <1>3 DEF LogConstants, IInv, TypeOK, Header
<1>7. CASE Len(lh) >= LOGSIZE \/ Len(lh) >= NLOG - 1 \/ outstanding < 1
  <2>1. panicked' /\ UNCHANGED <<buf, pc, left>>
    BY <1>7, Zenon DEF modify
  <2>. QED
    BY <1>4, <1>6, <1>7, <2>1, Zenon
<1>8. CASE ~ (Len(lh) >= LOGSIZE \/ Len(lh) >= NLOG - 1 \/ outstanding < 1)
  <2>1. /\ buf' = [buf EXCEPT ![p] = b]
        /\ left' = [left EXCEPT ![p] = left[p] - 1]
        /\ pc' = [pc EXCEPT ![p] = "log"]
        /\ UNCHANGED panicked
    BY <1>8 DEF modify, Goto
  <2>. QED
    BY <1>5, <2>1, Zenon
<1>. QED
  BY <1>7, <1>8, Zenon

LEMMA LogWriteIInv ==
  ASSUME LogConstants, Inv, NEW p \in Proc, log_write(p)
  PROVE  Inv'
<1>. SUFFICES ASSUME IInv PROVE IInv'
  BY Zenon DEF Inv
<1>1. pc[p] = "log" /\ p \in Ops /\ buf[p] \in Block
  BY Zenon DEF log_write, Ops, IInv, TypeOK, PhaseOK
<1>2. /\ buf' = [buf EXCEPT ![p] = NULL] /\ pc' = [pc EXCEPT ![p] = "op"]
      /\ UNCHANGED <<disk, logd, head, cache, outstanding, committing, left, tail,
                     panicked, crashes>>
  BY Zenon DEF log_write, Goto, disks
<1>3. \/ InLog(buf[p], lh) /\ lh' = lh
      \/ ~ InLog(buf[p], lh) /\ lh' = Append(lh, buf[p])
  BY Zenon DEF log_write
<1>4. Ops' = Ops
  BY <1>1, <1>2, Zenon DEF IInv, TypeOK, Ops
<1>5. Len(lh) \in Nat /\ Len(lh') \in Nat /\ Len(lh') <= Len(lh) + 1
  BY <1>1, <1>3 DEF IInv, TypeOK, Header
<1>a. ASSUME lh' = Append(lh, buf[p])
      PROVE  /\ lh' \in Seq(Block) /\ Len(lh') = Len(lh) + 1 /\ lh'[Len(lh) + 1] = buf[p]
             /\ \A i \in 1 .. Len(lh) : lh'[i] = lh[i]
  BY <1>1, <1>a DEF IInv, TypeOK, Header
<1>6. CountOK'
  BY <1>2, <1>4, Zenon DEF IInv, CountOK
<1>7. SpaceOK'
  <2>. DEFINE s == <<p, Need(p)>>
  <2>1. /\ Need(p)' = Need(p) - 1 /\ Need(p) \in Nat \ {0}
        /\ \A q \in Ops \ {p} : Need(q)' = Need(q)
    <3>1. /\ left[p] \in Nat /\ left' = left /\ pc'[p] = "op"
          /\ \A q \in Proc \ {p} : pc'[q] = pc[q]
      BY <1>2, Zenon DEF IInv, TypeOK
    <3>2. Need(p) = left[p] + 1 /\ Need(p)' = left[p]  + 0
      BY <1>1, <3>1, Zenon DEF Need
    <3>. QED
      BY <3>1, <3>2 DEF Need, Ops
  <2>2. \A q \in Ops : Need(q) \in Nat /\ Need(q)' \in Nat
    <3>1. \A q \in Ops : left[q] \in Nat /\ left'[q] \in Nat
      BY <1>2, Zenon DEF IInv, TypeOK, Ops
    <3>. QED
      BY <3>1 DEF Need
  <2>3. s \in Room
    BY <1>1, <2>1 DEF IInv, SpaceOK, Room
  <2>4. Room' = Room \ {s}
    <3>1. Room' = {t \in Ops \X (1 .. OPBLOCKS) : t[2] <= Need(t[1])'}
      BY <1>4, Zenon DEF Room
    <3>2. \A t \in Ops \X (1 .. OPBLOCKS) : t[2] <= Need(t[1])' <=> t[2] <= Need(t[1]) /\ t # s
      BY <2>1, <2>2 DEF LogConstants
    <3>. QED
      BY <3>1, <3>2, Zenon DEF Room
  <2>5. Cardinality(Room') = Cardinality(Room) - 1 /\ Cardinality(Room) \in Nat
    BY <2>3, <2>4, RoomBound, FS_RemoveElement, Zenon
  <2>6. Len(lh) + Cardinality(Room) <= Cap
    BY <1>1, Zenon DEF IInv, SpaceOK
  <2>7. Len(lh') + Cardinality(Room') <= Cap
    BY <1>5, <2>5, <2>6, CapType
  <2>8. \A q \in Ops : Need(q)' <= OPBLOCKS
    BY <2>1, <2>2 DEF LogConstants, IInv, SpaceOK
  <2>. QED
    BY <1>4, <2>7, <2>8, Zenon DEF SpaceOK
<1>8. lh' \in Header
  <2>1. Len(lh) + 1 <= Cap
    <3>1. <<p, 1>> \in Room
      BY <1>1 DEF LogConstants, IInv, TypeOK, SpaceOK, Room, Need
    <3>2. Cardinality(Room) \in Nat /\ Cardinality(Room) # 0
      BY <3>1, RoomBound, FS_EmptySet, Zenon
    <3>3. Len(lh) + Cardinality(Room) <= Cap
      BY Zenon DEF IInv, SpaceOK
    <3>. QED
      BY <3>2, <3>3, <1>5, CapType
  <2>2. CASE lh' = lh
    BY <2>2, Zenon DEF IInv, TypeOK
  <2>3. CASE ~ InLog(buf[p], lh) /\ lh' = Append(lh, buf[p])
    <3>1. \A i \in 1 .. Len(lh) : lh[i] # buf[p]
      BY <2>3, Zenon DEF InLog
    <3>2. \A i, j \in 1 .. Len(lh) : lh[i] = lh[j] => i = j
      BY Zenon DEF IInv, TypeOK, Header
    <3>3. \A i \in 1 .. Len(lh') : i \in 1 .. Len(lh) \/ i = Len(lh) + 1
      BY <1>5, <1>a, <2>3
    <3>4. \A i, j \in 1 .. Len(lh') : lh'[i] = lh'[j] => i = j
      BY <1>a, <2>3, <3>1, <3>2, <3>3
    <3>. QED
      BY <1>a, <2>1, <2>3, <3>4, Zenon DEF Header
  <2>. QED
    BY <1>3, <2>2, <2>3, Zenon
<1>9. TypeOK'
  BY <1>2, <1>8, Zenon DEF IInv, TypeOK
<1>10. PhaseOK'
  BY <1>1, <1>2, <1>4 DEF IInv, TypeOK, PhaseOK, Commit, Boot
<1>11. \A q \in Proc : pc[q] \notin Commit \cup Boot /\ pc'[q] \notin Commit \cup Boot
  BY <1>1, <1>2, Zenon DEF IInv, TypeOK, PhaseOK, Commit, Boot
<1>12. HeadOK'
  BY <1>1, <1>2, <1>11, Zenon DEF IInv, TypeOK, HeadOK, Commit, Boot
<1>13. DataOK'
  <2>1. \A b \in Block : ~ InLog(b, lh') => ~ InLog(b, lh) /\ b # buf[p]
    <3>1. CASE InLog(buf[p], lh) /\ lh' = lh
      BY <3>1, Zenon
    <3>2. CASE lh' = Append(lh, buf[p])
      <4>1. 1 .. Len(lh) \subseteq 1 .. Len(lh') /\ Len(lh) + 1 \in 1 .. Len(lh')
        BY <1>5, <1>a, <3>2
      <4>. QED
        BY <1>a, <3>2, <4>1, Zenon DEF InLog
    <3>. QED
      BY <1>3, <3>1, <3>2, Zenon
  <2>. QED
    BY <1>1, <1>2, <1>11, <2>1 DEF IInv, TypeOK, DataOK, Commit, Boot
<1>. QED
  BY <1>2, <1>6, <1>7, <1>9, <1>10, <1>12, <1>13, Zenon DEF IInv

LEMMA EndIInv ==
  ASSUME LogConstants, Inv, NEW p \in Proc, end_op(p)
  PROVE  Inv'
<1>. SUFFICES ASSUME IInv PROVE IInv'
  BY Zenon DEF Inv
<1>1. pc[p] = "op" /\ p \in Ops /\ ~ committing
  BY Zenon DEF end_op, Ops, IInv, PhaseOK
<1>2. /\ outstanding' = outstanding - 1 /\ left' = [left EXCEPT ![p] = 0]
      /\ UNCHANGED <<disk, logd, head, cache, lh, buf, panicked, crashes>>
  BY <1>1, Zenon DEF end_op, disks
<1>3. \A q \in Proc : pc[q] \notin Commit \cup Boot
  BY <1>1, Zenon DEF IInv, TypeOK, PhaseOK, Commit, Boot
<1>4. head = <<>> /\ \A b \in Block : ~ InLog(b, lh) /\ (\A q \in Proc : buf[q] # b)
          => cache[b] = disk[b]
  BY <1>3, Zenon DEF IInv, HeadOK, DataOK, Commit, Boot
<1>5. outstanding >= 1 /\ outstanding \in Nat
  BY <1>1, NoOps DEF IInv, TypeOK
<1>6. ASSUME Ops' = Ops \ {p} PROVE CountOK'
  <2>1. Cardinality(Ops') = Cardinality(Ops) - 1
    BY <1>1, <1>6, OpsFinite, FS_RemoveElement, Zenon
  <2>. QED
    BY <1>2, <2>1, Zenon DEF IInv, CountOK
<1>7. CASE outstanding = 1
  <2>. DEFINE l == IF Len(lh) > 0 THEN "write_log" ELSE "done"
  <2>1. committing' = TRUE /\ tail' = 1 /\ pc' = [pc EXCEPT ![p] = l]
    BY <1>1, <1>7, Zenon DEF end_op, Goto
  <2>2. l \in {"write_log", "done"}
    BY Zenon
  <2>3. Ops = {p}
    <3>1. Cardinality(Ops) = 1
      BY <1>7, Zenon DEF IInv, CountOK
    <3>2. PICK q : Ops = {q}
      BY <3>1, OpsFinite, FS_Singleton, Zenon
    <3>. QED
      BY <1>1, <3>2, Zenon
  <2>4. Ops' = {} /\ Ops' = Ops \ {p}
    BY <1>1, <2>1, <2>2, <2>3, Zenon DEF IInv, TypeOK, Ops
  <2>5. TypeOK'
    BY <1>2, <1>5, <2>1, <2>2 DEF IInv, TypeOK, Commit
  <2>6. PhaseOK'
    BY <1>1, <1>2, <1>3, <2>1, <2>2, <2>4 DEF IInv, TypeOK, PhaseOK, Commit, Boot
  <2>7. HeadOK'
    <3>1. Len(lh) \in Nat /\ (Len(lh) = 0 => lh = <<>>)
      BY DEF IInv, TypeOK, Header
    <3>2. \A q \in Proc \ {p} : pc'[q] = pc[q]
      BY <2>1, Zenon DEF IInv, TypeOK
    <3>3. pc'[p] = l
      BY <2>1, Zenon DEF IInv, TypeOK
    <3>. QED
      BY <1>2, <1>3, <1>4, <2>1, <3>1, <3>2, <3>3 DEF HeadOK, Commit, Boot
  <2>8. DataOK'
    <3>2. \A q \in Proc \ {p} : pc'[q] = pc[q]
      BY <2>1, Zenon DEF IInv, TypeOK
    <3>3. pc'[p] \in {"write_log", "done"}
      BY <2>1, <2>2, Zenon DEF IInv, TypeOK
    <3>. QED
      BY <1>2, <1>3, <1>4, <2>1, <3>2, <3>3 DEF IInv, TypeOK, Header, DataOK, Commit, Boot
  <2>9. SpaceOK'
    BY <1>2, <2>4, NoRoomNext, Zenon DEF IInv, TypeOK
  <2>. QED
    BY <1>2, <1>6, <2>4, <2>5, <2>6, <2>7, <2>8, <2>9, Zenon DEF IInv
<1>8. CASE outstanding # 1
  <2>1. /\ committing' = committing /\ tail' = tail
        /\ pc' = [q \in Proc |-> IF q = p THEN "begin"
                                 ELSE IF pc[q] = "asleep" THEN "begin" ELSE pc[q]]
    BY <1>1, <1>8, Zenon DEF end_op, WakeupGoto
  <2>2. \A q \in Proc : pc'[q] \notin Commit \cup Boot
    BY <1>3, <2>1, Zenon DEF Commit, Boot
  <2>3. Ops' = Ops \ {p}
    BY <2>1, Zenon DEF IInv, TypeOK, Ops
  <2>4. Ops' # {}
    <3>1. CountOK'
      BY <1>6, <2>3, Zenon
    <3>2. Cardinality(Ops') # 0
      BY <1>2, <1>5, <1>8, <3>1 DEF CountOK
    <3>. QED
      BY <3>2, FS_EmptySet, Zenon
  <2>5. TypeOK'
    BY <1>2, <1>5, <2>1 DEF IInv, TypeOK
  <2>6. PhaseOK'
    BY <1>1, <1>2, <2>1, <2>2, Zenon DEF IInv, TypeOK, PhaseOK
  <2>7. HeadOK'
    <3>1. PICK q \in Proc : pc'[q] \in {"op", "log"}
      BY <2>4, Zenon DEF Ops
    <3>. QED
      BY <1>2, <1>4, <2>2, <3>1, Zenon DEF HeadOK, Commit, Boot
  <2>8. DataOK'
    BY <1>2, <1>4, <2>2, Zenon DEF DataOK, Commit, Boot
  <2>9. SpaceOK'
    <3>1. \A q \in Ops' : q \in Ops /\ Need(q)' = Need(q)
      BY <1>2, <2>1, <2>3, Zenon DEF IInv, TypeOK, Ops, Need
    <3>2. Room' \subseteq Room
      BY <3>1, Zenon DEF Room
    <3>3. Cardinality(Room') <= Cardinality(Room) /\ Cardinality(Room') \in Nat
          /\ Cardinality(Room) \in Nat
      BY <3>2, RoomBound, FS_Subset, FS_CardinalityType, Zenon
    <3>4. Len(lh) + Cardinality(Room) <= Cap /\ Len(lh) \in Nat
      BY <1>1 DEF IInv, SpaceOK, TypeOK, Header
    <3>5. Len(lh') + Cardinality(Room') <= Cap
      BY <1>2, <3>3, <3>4, CapType
    <3>. QED
      BY <3>1, <3>5, Zenon DEF IInv, SpaceOK
  <2>. QED
    BY <1>2, <1>6, <2>3, <2>5, <2>6, <2>7, <2>8, <2>9, Zenon DEF IInv
<1>. QED
  BY <1>7, <1>8, Zenon

\* In commit() no call is in progress and every other process waits in begin_op().
LEMMA InCommit ==
  ASSUME LogConstants, Inv, NEW p \in Proc, pc[p] \in Commit
  PROVE  /\ committing /\ Ops = {}
         /\ \A q \in Proc : buf[q] = NULL
         /\ \A q \in Proc \ {p} : pc[q] \in {"begin", "asleep"}
<1>. SUFFICES ASSUME IInv
             PROVE  /\ committing /\ Ops = {}
                    /\ \A q \in Proc : buf[q] = NULL
                    /\ \A q \in Proc \ {p} : pc[q] \in {"begin", "asleep"}
  BY Zenon DEF Inv
<1>1. committing /\ Ops = {}
  BY Zenon DEF IInv, PhaseOK
<1>2. \A q \in Proc \ {p} : pc[q] \in {"begin", "asleep"}
  BY <1>1, Zenon DEF IInv, PhaseOK, TypeOK, Ops, Commit, Boot
<1>. QED
  BY <1>1, <1>2, Zenon DEF IInv, PhaseOK, Ops, Commit

\* A step from one place in commit() to the next.
LEMMA CommitStep ==
  ASSUME LogConstants, Inv, NEW p \in Proc, pc[p] \in Commit, NEW l \in Commit,
         pc' = [pc EXCEPT ![p] = l], UNCHANGED <<outstanding, committing, buf>>,
         lh' \in Header
  PROVE  PhaseOK' /\ CountOK' /\ SpaceOK' /\ Ops' = {}
<1>. SUFFICES ASSUME IInv
             PROVE  PhaseOK' /\ CountOK' /\ SpaceOK' /\ Ops' = {}
  BY Zenon DEF Inv
<1>1. /\ committing /\ Ops = {}
      /\ \A q \in Proc : buf[q] = NULL
      /\ \A q \in Proc \ {p} : pc[q] \in {"begin", "asleep"}
  BY InCommit, Zenon
<1>2. pc'[p] = l /\ \A q \in Proc \ {p} : pc'[q] = pc[q]
  BY Zenon DEF IInv, TypeOK
<1>3. Ops' = {}
  BY <1>1, <1>2, Zenon DEF Ops, Commit
<1>4. PhaseOK'
  BY <1>1, <1>2, <1>3, Zenon DEF PhaseOK, Commit, Boot
<1>. QED
  BY <1>1, <1>3, <1>4, NoRoomNext, Zenon DEF IInv, CountOK

LEMMA WriteLogIInv ==
  ASSUME LogConstants, Inv, NEW p \in Proc, write_log(p)
  PROVE  Inv'
<1>. SUFFICES ASSUME IInv PROVE IInv'
  BY Zenon DEF Inv
<1>. DEFINE l == IF tail = Len(lh) THEN "write_head" ELSE "write_log"
<1>1. pc[p] = "write_log" /\ pc[p] \in Commit /\ l \in Commit
  BY Zenon DEF write_log, Commit
<1>2. /\ pc' = [pc EXCEPT ![p] = l]
      /\ tail' = IF tail = Len(lh) THEN 1 ELSE tail + 1
      /\ logd' = [logd EXCEPT ![tail] = cache[lh[tail]]]
      /\ UNCHANGED <<disk, head, cache, lh, outstanding, committing, buf, panicked,
                     crashes, left>>
  BY Zenon DEF write_log, Goto, IInv, TypeOK
<1>3. /\ lh \in Seq(Block) /\ Len(lh) \in Nat /\ Len(lh) <= LOGSIZE /\ tail \in 1 .. Len(lh)
      /\ lh[tail] \in Block
  BY <1>1, CapType DEF LogConstants, IInv, TypeOK, HeadOK, Header
<1>4. PhaseOK' /\ CountOK' /\ SpaceOK'
  BY <1>1, <1>2, CommitStep, Zenon DEF IInv, TypeOK
<1>5. TypeOK'
  BY <1>1, <1>2, <1>3 DEF LogConstants, IInv, TypeOK
<1>6. \A q \in Proc \ {p} : pc[q] \in {"begin", "asleep"} /\ pc'[q] \in {"begin", "asleep"}
  BY <1>1, <1>2, InCommit, Zenon DEF IInv, TypeOK
<1>7. pc'[p] = l
  BY <1>2, Zenon DEF IInv, TypeOK
<1>8. HeadOK'
  <2>1. head = <<>>
    BY <1>1, <1>6, Zenon DEF IInv, HeadOK, Boot
  <2>. QED
    BY <1>1, <1>2, <1>3, <1>6, <1>7, <2>1 DEF HeadOK, Commit
<1>9. DataOK'
  <2>1. logd' [tail] = cache[lh[tail]] /\ \A i \in 1 .. Len(lh) : i # tail => logd'[i] = logd[i]
    BY <1>2, <1>3 DEF LogConstants, IInv, TypeOK
  <2>2. \A i \in 1 .. Len(lh) : i < tail => logd[i] = cache[lh[i]]
    BY <1>1, Zenon DEF IInv, DataOK
  <2>3. \A i \in 1 .. Len(lh) : i < tail \/ i = tail => logd'[i] = cache[lh[i]]
    BY <2>1, <2>2, <1>3, Zenon
  <2>4. \A i \in 1 .. Len(lh) : \/ pc'[p] = "write_log" /\ i < tail'
                               \/ pc'[p] = "write_head"
                               => i < tail \/ i = tail
    BY <1>2, <1>3, <1>7
  <2>5. \A b \in Block : ~ InLog(b, lh) /\ (\A q \in Proc : buf[q] # b) => cache[b] = disk[b]
    BY Zenon DEF IInv, DataOK
  <2>. QED
    BY <1>2, <1>6, <1>7, <2>3, <2>4, <2>5 DEF DataOK, Boot
<1>. QED
  BY <1>2, <1>4, <1>5, <1>8, <1>9, Zenon DEF IInv

LEMMA WriteHeadIInv ==
  ASSUME LogConstants, Inv, NEW p \in Proc, write_head(p)
  PROVE  Inv'
<1>. SUFFICES ASSUME IInv PROVE IInv'
  BY Zenon DEF Inv
<1>1. pc[p] = "write_head" /\ pc[p] \in Commit /\ "install" \in Commit
  BY Zenon DEF write_head, Commit
<1>2. /\ pc' = [pc EXCEPT ![p] = "install"] /\ head' = lh
      /\ UNCHANGED <<disk, logd, cache, lh, outstanding, committing, buf, tail, panicked,
                     crashes, left>>
  BY Zenon DEF write_head, Goto
<1>3. PhaseOK' /\ CountOK' /\ SpaceOK'
  BY <1>1, <1>2, CommitStep, Zenon DEF IInv, TypeOK
<1>4. TypeOK'
  BY <1>1, <1>2, Zenon DEF IInv, TypeOK
<1>5. pc'[p] = "install" /\ \A q \in Proc \ {p} : pc'[q] \in {"begin", "asleep"}
  BY <1>1, <1>2, InCommit, Zenon DEF IInv, TypeOK
<1>6. tail = 1 /\ Len(lh) \in Nat
  BY <1>1 DEF IInv, HeadOK, TypeOK, Header
<1>7. HeadOK'
  BY <1>2, <1>5, <1>6 DEF HeadOK, Commit
<1>8. DataOK'
  BY <1>1, <1>2, <1>5, <1>6 DEF IInv, DataOK, Boot
<1>. QED
  BY <1>2, <1>3, <1>4, <1>7, <1>8, Zenon DEF IInv

\* While the kernel starts, nobody is in a call or in commit().
LEMMA InBoot ==
  ASSUME LogConstants, Inv, NEW p \in Proc, pc[p] \in Boot
  PROVE  /\ ~ committing /\ Ops = {} /\ outstanding = 0
         /\ \A q \in Proc : buf[q] = NULL /\ pc[q] \in Boot
         /\ pc[p] = "recover" => \A q \in Proc \ {p} : pc[q] = "down"
<1>. SUFFICES ASSUME IInv
             PROVE  /\ ~ committing /\ Ops = {} /\ outstanding = 0
                    /\ \A q \in Proc : buf[q] = NULL /\ pc[q] \in Boot
                    /\ pc[p] = "recover" => \A q \in Proc \ {p} : pc[q] = "down"
  BY Zenon DEF Inv
<1>1. \A q \in Proc : pc[q] \in Boot
  BY Zenon DEF IInv, PhaseOK
<1>2. Ops = {}
  BY <1>1, Zenon DEF Ops, Boot
<1>. QED
  BY <1>1, <1>2, NoOps, Zenon DEF IInv, PhaseOK, Boot, Commit

\* Of the processes in install_trans() there is one, and no call is in progress.
LEMMA Installing ==
  ASSUME LogConstants, Inv, NEW p \in Proc, pc[p] \in {"install", "recover"}
  PROVE  /\ Ops = {} /\ head = lh /\ \A q \in Proc : buf[q] = NULL
         /\ \A q \in Proc \ {p} : pc[q] \in {"begin", "asleep", "down"}
<1>. SUFFICES ASSUME IInv
             PROVE  /\ Ops = {} /\ head = lh /\ \A q \in Proc : buf[q] = NULL
                    /\ \A q \in Proc \ {p} : pc[q] \in {"begin", "asleep", "down"}
  BY Zenon DEF Inv
<1>. QED
  BY InCommit, InBoot, Zenon DEF IInv, HeadOK, Commit, Boot

LEMMA InstallIInv ==
  ASSUME LogConstants, Inv, NEW p \in Proc, install_trans(p)
  PROVE  Inv'
<1>. SUFFICES ASSUME IInv PROVE IInv'
  BY Zenon DEF Inv
<1>. DEFINE b == lh[tail]
<1>1. pc[p] \in {"install", "recover"} /\ tail <= Len(lh)
  BY Zenon DEF install_trans
<1>2. /\ disk' = [disk EXCEPT ![b] = logd[tail]]
      /\ cache' = [cache EXCEPT ![b] = logd[tail]]
      /\ tail' = tail + 1
      /\ UNCHANGED <<logd, head, lh, outstanding, committing, pc, buf, left, panicked, crashes>>
  BY Zenon DEF install_trans
<1>3. /\ tail \in 1 .. Len(lh) /\ Len(lh) \in Nat /\ Len(lh) <= LOGSIZE /\ b \in Block
      /\ logd[tail] \in Val
  BY <1>1, CapType DEF LogConstants, IInv, TypeOK, Header
<1>4. \A i \in 1 .. Len(lh) : lh[i] \in Block /\ (i # tail => lh[i] # b)
  BY <1>3 DEF IInv, TypeOK, Header
<1>5. /\ Ops = {} /\ head = lh /\ \A q \in Proc : buf[q] = NULL
      /\ \A q \in Proc \ {p} : pc[q] \in {"begin", "asleep", "down"}
  BY <1>1, Installing, Zenon
<1>6. TypeOK'
  BY <1>2, <1>3 DEF IInv, TypeOK
<1>7. PhaseOK' /\ CountOK' /\ SpaceOK'
  BY <1>2, <1>5, <1>6, NoRoomNext, Zenon DEF IInv, TypeOK, PhaseOK, CountOK, Ops
<1>8. HeadOK'
  BY <1>1, <1>2, <1>3, <1>5 DEF IInv, HeadOK, Commit
<1>9. DataOK'
  <2>1. \A i \in 1 .. Len(lh) : i < tail => disk'[lh[i]] = disk[lh[i]] /\ i # tail
    BY <1>2, <1>3, <1>4 DEF IInv, TypeOK
  <2>2. disk'[b] = logd[tail] /\ cache'[b] = logd[tail]
    BY <1>2, <1>3, Zenon DEF IInv, TypeOK
  <2>3. \A c \in Block \ {b} : disk'[c] = disk[c] /\ cache'[c] = cache[c]
    BY <1>2, <1>3, Zenon DEF IInv, TypeOK
  <2>4. \A i \in 1 .. Len(lh) : i < tail' => i < tail \/ i = tail
    BY <1>2, <1>3
  <2>5. \A i \in 1 .. Len(lh) : i < tail' => logd[i] = disk'[lh[i]]
    BY <1>1, <2>1, <2>2, <2>4, Zenon DEF IInv, DataOK
  <2>6. \A i \in 1 .. Len(lh) : pc[p] = "install" => logd[i] = cache'[lh[i]]
    BY <1>4, <2>2, <2>3, Zenon DEF IInv, DataOK
  <2>7. \A c \in Block :
          \/ ~ InLog(c, lh) /\ \A q \in Proc : buf[q] # c
          \/ \E q \in Proc : pc[q] \in Boot
          => cache'[c] = disk'[c]
    BY <2>2, <2>3, Zenon DEF IInv, DataOK
  <2>. QED
    BY <1>1, <1>2, <1>5, <2>5, <2>6, <2>7 DEF DataOK
<1>. QED
  BY <1>2, <1>6, <1>7, <1>8, <1>9, Zenon DEF IInv

\* When everything is installed, the buffers are as the disk.
LEMMA Installed ==
  ASSUME LogConstants, Inv, NEW p \in Proc, pc[p] \in {"install", "recover"}, tail > Len(lh)
  PROVE  /\ \A i \in 1 .. Len(lh) : logd[i] = disk[lh[i]]
         /\ cache = disk
<1>. SUFFICES ASSUME IInv
             PROVE  /\ \A i \in 1 .. Len(lh) : logd[i] = disk[lh[i]]
                    /\ cache = disk
  BY Zenon DEF Inv
<1>1. Len(lh) \in Nat /\ tail \in Nat /\ lh \in Seq(Block)
  BY DEF IInv, TypeOK, Header
<1>2. \A i \in 1 .. Len(lh) : logd[i] = disk[lh[i]]
  BY <1>1 DEF IInv, DataOK
<1>3. \A q \in Proc : buf[q] = NULL
  BY Installing, Zenon
<1>4. \A b \in Block : cache[b] = disk[b]
  <2>1. SUFFICES ASSUME NEW b \in Block PROVE cache[b] = disk[b]
    BY Zenon
  <2>2. CASE pc[p] = "recover"
    BY <2>2, Zenon DEF IInv, DataOK, Boot
  <2>3. CASE ~ InLog(b, lh)
    BY <1>3, <2>3, Zenon DEF LogConstants, IInv, DataOK
  <2>4. CASE pc[p] = "install" /\ InLog(b, lh)
    <3>1. PICK i \in 1 .. Len(lh) : lh[i] = b
      BY <2>4, Zenon DEF InLog
    <3>2. logd[i] = cache[lh[i]]
      BY <2>4, Zenon DEF IInv, DataOK
    <3>. QED
      BY <1>2, <3>1, <3>2, Zenon
  <2>. QED
    BY <2>2, <2>3, <2>4, Zenon
<1>. QED
  BY <1>2, <1>4 DEF IInv, TypeOK

LEMMA ClearIInv ==
  ASSUME LogConstants, Inv, NEW p \in Proc, clear(p)
  PROVE  Inv'
<1>. SUFFICES ASSUME IInv PROVE IInv'
  BY Zenon DEF Inv
<1>1. pc[p] \in {"install", "recover"} /\ tail > Len(lh)
  BY Zenon DEF clear
<1>2. /\ lh' = <<>> /\ head' = <<>>
      /\ UNCHANGED <<disk, logd, cache, outstanding, committing, buf, left, tail, panicked,
                     crashes>>
  BY Zenon DEF clear
<1>3. cache = disk
  BY <1>1, Installed, Zenon
<1>4. lh' \in Header /\ head' \in Header
  BY <1>2, CapType DEF Header
<1>5. DataOK'
  BY <1>2, <1>3 DEF DataOK
<1>6. CASE pc[p] = "install"
  <2>1. pc' = [pc EXCEPT ![p] = "done"]
    BY <1>6, Zenon DEF clear, Goto
  <2>2. TypeOK'
    BY <1>2, <1>4, <2>1, Zenon DEF IInv, TypeOK, Commit
  <2>3. PhaseOK' /\ CountOK' /\ SpaceOK'
    BY <1>2, <1>4, <1>6, <2>1, CommitStep, Zenon DEF Commit
  <2>4. pc'[p] = "done" /\ \A q \in Proc \ {p} : pc'[q] \in {"begin", "asleep"}
    BY <1>6, <2>1, InCommit, Zenon DEF IInv, TypeOK, Commit
  <2>5. HeadOK'
    BY <1>2, <2>4, Zenon DEF HeadOK
  <2>. QED
    BY <1>2, <1>5, <2>2, <2>3, <2>5, Zenon DEF IInv
<1>7. CASE pc[p] = "recover"
  <2>1. pc' = [q \in Proc |-> "begin"]
    BY <1>7, Zenon DEF clear
  <2>2. TypeOK'
    BY <1>2, <1>4, <2>1, Zenon DEF IInv, TypeOK
  <2>3. ~ committing /\ outstanding = 0 /\ \A q \in Proc : buf[q] = NULL
    BY <1>7, InBoot, Zenon DEF Boot
  <2>4. Ops' = {}
    BY <2>1, Zenon DEF Ops
  <2>5. PhaseOK' /\ CountOK' /\ SpaceOK'
    BY <1>2, <1>4, <2>1, <2>3, <2>4, NoRoomNext, FS_EmptySet, Zenon
       DEF PhaseOK, CountOK, Commit, Boot
  <2>6. HeadOK'
    BY <1>2, <2>1, Zenon DEF LogConstants, HeadOK
  <2>. QED
    BY <1>2, <1>5, <2>2, <2>5, <2>6, Zenon DEF IInv
<1>. QED
  BY <1>1, <1>6, <1>7, Zenon

LEMMA EndCommitIInv ==
  ASSUME LogConstants, Inv, NEW p \in Proc, end_commit(p)
  PROVE  Inv'
<1>. SUFFICES ASSUME IInv PROVE IInv'
  BY Zenon DEF Inv
<1>1. pc[p] = "done" /\ pc[p] \in Commit
  BY Zenon DEF end_commit, Commit
<1>2. /\ committing' = FALSE
      /\ UNCHANGED <<disk, logd, head, cache, lh, outstanding, buf, left, tail, panicked,
                     crashes>>
  BY Zenon DEF end_commit, disks
<1>3. /\ Ops = {} /\ \A q \in Proc : buf[q] = NULL
      /\ \A q \in Proc \ {p} : pc[q] \in {"begin", "asleep"}
  BY <1>1, InCommit, Zenon
<1>4. pc' = [q \in Proc |-> "begin"]
  BY <1>3, Zenon DEF end_commit, WakeupGoto
<1>5. TypeOK'
  BY <1>2, <1>4, Zenon DEF IInv, TypeOK
<1>6. Ops' = {}
  BY <1>4, Zenon DEF Ops
<1>7. PhaseOK' /\ CountOK' /\ SpaceOK'
  BY <1>2, <1>3, <1>4, <1>5, <1>6, NoRoomNext, Zenon
     DEF IInv, TypeOK, PhaseOK, CountOK, Commit, Boot
<1>8. HeadOK'
  BY <1>1, <1>2, <1>3, <1>4, Zenon DEF LogConstants, IInv, HeadOK, Commit, Boot
<1>9. DataOK'
  BY <1>1, <1>2, <1>3, <1>4, Zenon DEF IInv, DataOK, Boot
<1>. QED
  BY <1>2, <1>5, <1>7, <1>8, <1>9, Zenon DEF IInv

LEMMA CrashIInv ==
  ASSUME LogConstants, Inv, crash
  PROVE  Inv'
<1>. SUFFICES ASSUME IInv PROVE IInv'
  BY Zenon DEF Inv
<1>1. /\ crashes' = crashes + 1 /\ cache' = disk /\ lh' = <<>> /\ outstanding' = 0
      /\ committing' = FALSE /\ pc' = [p \in Proc |-> "down"]
      /\ buf' = [p \in Proc |-> NULL] /\ left' = [p \in Proc |-> 0] /\ tail' = 1
      /\ UNCHANGED <<disk, logd, head, panicked>>
  BY Zenon DEF crash, disks
<1>2. Ops' = {} /\ lh' \in Header
  BY <1>1, CapType DEF Ops, Header
<1>3. TypeOK'
  <2>1. committing' \in BOOLEAN
    BY <1>1, Zenon
  <2>. QED
    BY <1>1, <1>2, <2>1 DEF IInv, TypeOK, Boot
<1>4. PhaseOK' /\ CountOK' /\ SpaceOK'
  BY <1>1, <1>2, NoRoomNext, FS_EmptySet, Zenon DEF PhaseOK, CountOK, Commit, Boot
<1>5. HeadOK' /\ DataOK'
  BY <1>1, Zenon DEF LogConstants, HeadOK, DataOK, Commit, Boot
<1>. QED
  BY <1>1, <1>3, <1>4, <1>5, Zenon DEF IInv

LEMMA ReadHeadIInv ==
  ASSUME LogConstants, Inv, NEW p \in Proc, read_head(p)
  PROVE  Inv'
<1>. SUFFICES ASSUME IInv PROVE IInv'
  BY Zenon DEF Inv
<1>1. /\ \A q \in Proc : pc[q] = "down"
      /\ lh' = head /\ pc' = [pc EXCEPT ![p] = "recover"]
      /\ UNCHANGED <<disk, logd, head, cache, outstanding, committing, buf, left, tail,
                     panicked, crashes>>
  BY Zenon DEF read_head, disks, Goto
<1>2. pc'[p] = "recover" /\ \A q \in Proc \ {p} : pc'[q] = "down"
  BY <1>1, Zenon DEF IInv, TypeOK
<1>3. TypeOK'
  BY <1>1, Zenon DEF IInv, TypeOK, Boot
<1>4. Ops' = {} /\ Ops = {}
  BY <1>1, <1>2, Zenon DEF Ops
<1>5. PhaseOK' /\ CountOK' /\ SpaceOK'
  BY <1>1, <1>2, <1>3, <1>4, NoRoomNext, Zenon
     DEF IInv, TypeOK, PhaseOK, CountOK, Commit, Boot
<1>6. tail = 1 /\ Len(head) \in Nat
  BY <1>1 DEF IInv, TypeOK, Header, HeadOK
<1>7. HeadOK'
  BY <1>1, <1>2, <1>6 DEF HeadOK, Commit, Boot
<1>8. DataOK'
  BY <1>1, <1>2, <1>6 DEF IInv, DataOK, Boot
<1>. QED
  BY <1>1, <1>3, <1>5, <1>7, <1>8, Zenon DEF IInv

\* Only log_write() panics, and leaves everybody where they are.
LEMMA StepIInv ==
  ASSUME LogConstants, Inv, Next
  PROVE  \/ Inv'
         \/ /\ PanicOK' /\ pc' = pc
            /\ \E p \in Proc, b \in Block, v \in Val : modify(p, b, v)
<1>. QED
  BY BeginIInv, ModifyIInv, LogWriteIInv, EndIInv, WriteLogIInv, WriteHeadIInv,
     InstallIInv, ClearIInv, EndCommitIInv, CrashIInv, ReadHeadIInv, Zenon DEF Next, Step

LEMMA StutterIInv ==
  ASSUME Inv, UNCHANGED vars PROVE Inv'
<1>. SUFFICES ASSUME IInv PROVE IInv'
  BY Zenon DEF Inv
<1>1. TypeOK'
  BY Zenon DEF vars, IInv, TypeOK
<1>2. PhaseOK'
  BY Zenon DEF vars, IInv, PhaseOK, Ops
<1>3. HeadOK'
  BY Zenon DEF vars, IInv, HeadOK
<1>4. DataOK'
  BY Zenon DEF vars, IInv, DataOK
<1>5. Ops' = Ops /\ \A p \in Ops : Need(p)' = Need(p)
  BY Zenon DEF vars, Ops, Need
<1>6. CountOK' /\ SpaceOK'
  BY <1>5, SameOps, Zenon DEF vars, IInv
<1>. QED
  BY <1>1, <1>2, <1>3, <1>4, <1>6, Zenon DEF vars, IInv

LEMMA NextSafe ==
  ASSUME LogConstants PROVE Safe /\ [Next]_vars => Safe'
<1>. SUFFICES ASSUME Safe, [Next]_vars PROVE Safe'
  BY Zenon
<1>1. CASE PanicOK
  <2>1. UNCHANGED vars
    BY <1>1, Zenon DEF PanicOK, Next, Intact
  <2>2. Room' = Room
    BY <2>1, Zenon DEF vars, Room, Ops, Need
  <2>. QED
    BY <1>1, <2>1, <2>2, Zenon DEF vars, Safe, PanicOK
<1>2. CASE Inv
  BY <1>2, StepIInv, StutterIInv, Zenon DEF Safe
<1>. QED
  BY <1>1, <1>2, Zenon DEF Safe

-----------------------------------------------------------------------------
(* What the log promises.                                                  *)

\* Recovery takes block lh[i] of a committed transaction from log block i.
RecoversLogged ==
  /\ \A i \in 1 .. Len(head) : head[i] \in Block => Recovered[head[i]] = logd[i]
  /\ \A b \in Block : ~ InLog(b, head) => Recovered[b] = disk[b]

LEMMA RecoveredBlock == head \in Header => RecoversLogged
<1>. SUFFICES ASSUME head \in Header PROVE RecoversLogged
  BY Zenon
<1>1. ASSUME NEW i \in 1 .. Len(head), head[i] \in Block
      PROVE  Recovered[head[i]] = logd[i]
  <2>1. InLog(head[i], head)
    BY Zenon DEF InLog
  <2>2. \A j \in 1 .. Len(head) : head[j] = head[i] <=> j = i
    BY Zenon DEF Header
  <2>3. (CHOOSE j \in 1 .. Len(head) : head[j] = head[i]) = i
    BY <2>2, Zenon
  <2>. QED
    BY <1>1, <2>1, <2>3, Zenon DEF Recovered
<1>. QED
  BY <1>1, Zenon DEF RecoversLogged, Recovered

\* With an empty header recovery leaves the disk alone.
LEMMA RecoveredEmpty == TypeOK /\ head = <<>> => Recovered = disk
<1>. SUFFICES ASSUME TypeOK, head = <<>> PROVE Recovered = disk
  BY Zenon
<1>1. \A b \in Block : ~ InLog(b, head)
  BY DEF InLog
<1>. QED
  BY <1>1, Zenon DEF TypeOK, Recovered

\* Between calls the buffers hold what is on the disk.
LEMMA IdleDurable ==
  ASSUME LogConstants, Inv PROVE DurableWhenIdle
<1>. SUFFICES ASSUME IInv
              PROVE  DurableWhenIdle
  BY Zenon DEF Inv
<1>. SUFFICES ASSUME outstanding = 0, ~ committing,
                     ~ \E p \in Proc : pc[p] \in {"down", "recover"}
              PROVE  cache = Recovered
  BY Zenon DEF DurableWhenIdle, Volatile
<1>1. Ops = {}
  BY NoOps, Zenon DEF IInv
<1>2. \A p \in Proc : pc[p] \in {"begin", "asleep"}
  BY <1>1, Zenon DEF IInv, TypeOK, PhaseOK, Ops, Commit, Boot
<1>3. lh = <<>> /\ head = <<>>
  BY <1>2, Zenon DEF IInv, HeadOK, Commit, Boot
<1>4. \A b \in Block : ~ InLog(b, lh) /\ \A p \in Proc : buf[p] # b
  BY <1>2, <1>3 DEF LogConstants, IInv, PhaseOK, InLog
<1>5. cache = disk
  BY <1>4 DEF IInv, TypeOK, DataOK
<1>. QED
  BY <1>3, <1>5, RecoveredEmpty, Zenon DEF IInv

LEMMA Invariance == Spec => []Safe
<1>1. Init => Safe
  BY LogAssumption, InitIInv, Zenon DEF Safe
<1>2. Safe /\ [Next]_vars => Safe'
  BY LogAssumption, NextSafe, Zenon
<1>. QED
  BY <1>1, <1>2, PTL DEF Spec

\* The header has room for what begin_op() admits, for any number of processes and sizes of
\* the log.  log_write() panics, or lists a block that the log area has no place for, only
\* when calls log as many blocks as begin_op() reserves and all reservations are used up:
\* calls that log fewer than MAXOPBLOCKS blocks never see it.
THEOREM FitsSafe == Spec => []LogFits
<1>1. Inv => LogFits
  <2>. SUFFICES ASSUME IInv PROVE LogFits
    BY Zenon DEF Inv
  <2>1. /\ Len(lh) + Cardinality(Room) <= Cap /\ Len(lh) \in Nat
        /\ Cardinality(Room) \in Nat /\ ~ panicked
    BY LogAssumption, RoomBound DEF IInv, SpaceOK, TypeOK, Header
  <2>. QED
    BY <2>1, LogAssumption DEF LogConstants, Cap, LogFits, Intact
<1>2. PanicOK => LogFits
  BY LogAssumption DEF PanicOK, LogFits, LogConstants
<1>3. Safe => LogFits
  BY <1>1, <1>2, Zenon DEF Safe
<1>. QED
  BY <1>3, Invariance, PTL

\* When no call and no commit is in progress, what calls wrote is safe on the disk.
THEOREM DurableSafe == Spec => []DurableWhenIdle
<1>1. Safe => DurableWhenIdle
  BY LogAssumption, IdleDurable, Zenon DEF Safe, PanicOK, DurableWhenIdle
<1>. QED
  BY <1>1, Invariance, PTL

-----------------------------------------------------------------------------
(* The log implements LogSpec.                                             *)

LEMMA InitAbstract ==
  ASSUME LogConstants PROVE Init => Abstract!Init
<1>. SUFFICES ASSUME Init PROVE Abstract!Init
  BY Zenon
<1>1. head = <<>> /\ TypeOK
  BY InitIInv, Zenon DEF Inv, IInv, Init
<1>2. Recovered = disk
  BY <1>1, RecoveredEmpty, Zenon
<1>3. Volatile = disk
  BY Zenon DEF Volatile, Init
<1>4. Ops = {}
  BY DEF Ops, Init
<1>. QED
  BY <1>1, <1>2, <1>3, <1>4, Zenon DEF Abstract!Init, Init, TypeOK

\* A step that changes neither what recovery would find nor what calls see.
LEMMA Stutter ==
  ASSUME Recovered' = Recovered, Volatile' = Volatile, Ops' = Ops, crashes' = crashes
  PROVE  UNCHANGED Abstract!vars
<1>. QED
  BY Zenon DEF Abstract!vars, Ops

LEMMA SameRecovered ==
  ASSUME UNCHANGED <<disk, logd, head>> PROVE Recovered' = Recovered
<1>. QED
  BY Zenon DEF Recovered, InLog

\* A process that is neither down nor recovering shows that recovery is through, and
\* calls see the buffers.
SeesBuffers == (\E p \in Proc : pc[p] \notin Boot) => Volatile = cache

LEMMA Started == Inv => SeesBuffers
<1>. QED
  BY Zenon DEF Inv, IInv, PhaseOK, SeesBuffers, Volatile, Boot

LEMMA NextAbstract ==
  ASSUME LogConstants
  PROVE  Inv /\ Inv' /\ [Next]_vars => [Abstract!Next]_(Abstract!vars)
<1>. SUFFICES ASSUME Inv, Inv', IInv, IInv', [Next]_vars
              PROVE  [Abstract!Next]_(Abstract!vars)
  BY Zenon DEF Inv
<1>a. SeesBuffers /\ SeesBuffers'
  <2>1. (Inv => SeesBuffers)'
    BY Started, PTL
  <2>. QED
    BY <2>1, Started, Zenon
<1>b. head' = <<>> => Recovered' = disk'
  <2>1. (TypeOK /\ head = <<>> => Recovered = disk)'
    BY RecoveredEmpty, PTL
  <2>. QED
    BY <2>1, Zenon DEF IInv
<1>c. RecoversLogged'
  <2>1. (head \in Header => RecoversLogged)'
    BY RecoveredBlock, PTL
  <2>. QED
    BY <2>1, Zenon DEF IInv, TypeOK
<1>1. CASE UNCHANGED vars
  <2>1. Recovered' = Recovered
    BY <1>1, SameRecovered, Zenon DEF vars
  <2>2. Volatile' = Volatile /\ Ops' = Ops
    BY <1>1, <2>1, Zenon DEF vars, Volatile, Ops
  <2>. QED
    BY <1>1, <2>1, <2>2, Stutter, Zenon DEF vars
<1>2. CASE crash
  <2>1. Recovered' = Recovered
    BY <1>2, SameRecovered, Zenon DEF crash, disks
  <2>2. PICK p \in Proc : TRUE
    BY Zenon DEF LogConstants
  <2>3. Volatile' = Recovered
    BY <1>2, <2>1, <2>2, Zenon DEF crash, Volatile
  <2>4. Ops' = {}
    BY <1>2, Zenon DEF crash, Ops
  <2>. QED
    BY <1>2, <2>1, <2>3, <2>4, Zenon DEF crash, Abstract!Next, Abstract!Crash, Ops
<1>3. ASSUME NEW p \in Proc, begin_op(p) PROVE [Abstract!Next]_(Abstract!vars)
  <2>1. Recovered' = Recovered /\ crashes' = crashes
    BY <1>3, SameRecovered, Zenon DEF begin_op, disks
  <2>2. pc[p] = "begin" /\ pc'[p] \in {"asleep", "op"} /\ cache' = cache
    BY <1>3, Zenon DEF begin_op, Goto, IInv, TypeOK
  <2>3. Volatile' = Volatile
    BY <2>2, <1>a, Zenon DEF SeesBuffers, Boot
  <2>4. \A q \in Proc \ {p} : pc'[q] = pc[q]
    BY <1>3, Zenon DEF begin_op, Goto, IInv, TypeOK
  <2>5. CASE pc'[p] = "asleep"
    <3>1. Ops' = Ops
      BY <2>2, <2>4, <2>5, Zenon DEF Ops
    <3>. QED
      BY <2>1, <2>3, <3>1, Stutter, Zenon
  <2>6. CASE pc'[p] = "op"
    <3>1. Ops' = Ops \cup {p} /\ p \notin Ops
      BY <2>2, <2>4, <2>6, Zenon DEF Ops
    <3>2. Abstract!Begin(p)
      BY <2>1, <2>3, <3>1, Zenon DEF Abstract!Begin, Ops
    <3>. QED
      BY <3>2, Zenon DEF Abstract!Next
  <2>. QED
    BY <2>2, <2>5, <2>6, Zenon
<1>4. ASSUME NEW p \in Proc, NEW b \in Block, NEW v \in Val, modify(p, b, v)
      PROVE  [Abstract!Next]_(Abstract!vars)
  <2>1. Recovered' = Recovered /\ crashes' = crashes
    BY <1>4, SameRecovered, Zenon DEF modify, disks
  <2>2. pc[p] = "op" /\ cache' = [cache EXCEPT ![b] = v]
    BY <1>4, Zenon DEF modify
  <2>3. pc' = [pc EXCEPT ![p] = "log"] \/ pc' = pc
    BY <1>4, Zenon DEF modify, Goto
  <2>4. pc'[p] \in {"op", "log"} /\ Ops' = Ops /\ p \in Ops
    BY <2>2, <2>3, Zenon DEF IInv, TypeOK, Ops
  <2>5. Volatile = cache /\ Volatile' = cache'
    BY <2>2, <2>4, <1>a, Zenon DEF SeesBuffers, Boot
  <2>6. Abstract!Write(p, b, v)
    BY <2>1, <2>2, <2>4, <2>5, Zenon DEF Abstract!Write, Ops
  <2>. QED
    BY <2>6, Zenon DEF Abstract!Next
<1>5. ASSUME NEW p \in Proc, log_write(p) PROVE [Abstract!Next]_(Abstract!vars)
  <2>1. Recovered' = Recovered /\ crashes' = crashes /\ cache' = cache
    BY <1>5, SameRecovered, Zenon DEF log_write, disks
  <2>2. pc[p] = "log" /\ pc' = [pc EXCEPT ![p] = "op"]
    BY <1>5, Zenon DEF log_write, Goto
  <2>3. pc'[p] = "op" /\ Ops' = Ops
    BY <2>2, Zenon DEF IInv, TypeOK, Ops
  <2>4. Volatile' = Volatile
    BY <2>1, <2>2, <2>3, <1>a, Zenon DEF SeesBuffers, Boot
  <2>. QED
    BY <2>1, <2>3, <2>4, Stutter, Zenon
<1>6. ASSUME NEW p \in Proc, end_op(p) PROVE [Abstract!Next]_(Abstract!vars)
  <2>1. Recovered' = Recovered /\ crashes' = crashes /\ cache' = cache
    BY <1>6, SameRecovered, Zenon DEF end_op, disks
  <2>2. pc[p] = "op" /\ p \in Ops /\ ~ committing
    BY <1>6, Zenon DEF end_op, Ops, IInv, PhaseOK
  <2>3. \/ pc' = [pc EXCEPT ![p] = IF Len(lh) > 0 THEN "write_log" ELSE "done"]
        \/ pc' = [q \in Proc |-> IF q = p THEN "begin"
                                 ELSE IF pc[q] = "asleep" THEN "begin" ELSE pc[q]]
    BY <1>6, <2>2, Zenon DEF end_op, Goto, WakeupGoto
  <2>4. pc'[p] \in {"write_log", "done", "begin"} /\ Ops' = Ops \ {p}
    BY <2>3, Zenon DEF IInv, TypeOK, Ops
  <2>5. Volatile' = Volatile
    BY <2>1, <2>2, <2>4, <1>a, Zenon DEF SeesBuffers, Boot
  <2>6. Abstract!End(p)
    BY <2>1, <2>2, <2>4, <2>5, Zenon DEF Abstract!End, Ops
  <2>. QED
    BY <2>6, Zenon DEF Abstract!Next
<1>7. ASSUME NEW p \in Proc, write_log(p) PROVE [Abstract!Next]_(Abstract!vars)
  <2>1. pc[p] = "write_log" /\ UNCHANGED <<disk, head, cache, crashes>>
    BY <1>7, Zenon DEF write_log
  <2>2. pc'[p] \in {"write_log", "write_head"} /\ \A q \in Proc \ {p} : pc'[q] = pc[q]
    BY <1>7, <2>1, Zenon DEF write_log, Goto, IInv, TypeOK
  <2>3. head = <<>>
    BY <2>1, InCommit, Zenon DEF IInv, HeadOK, Commit, Boot
  <2>4. Recovered = disk /\ Recovered' = disk'
    BY <1>b, <2>1, <2>3, RecoveredEmpty, Zenon DEF IInv
  <2>5. Volatile' = Volatile /\ Ops' = Ops
    BY <2>1, <2>2, <1>a, Zenon DEF SeesBuffers, Boot, Ops
  <2>. QED
    BY <2>1, <2>4, <2>5, Stutter, Zenon
<1>8. ASSUME NEW p \in Proc, write_head(p) PROVE [Abstract!Next]_(Abstract!vars)
  <2>1. /\ pc[p] = "write_head" /\ pc' = [pc EXCEPT ![p] = "install"] /\ head' = lh
        /\ UNCHANGED <<disk, logd, cache, lh, crashes, buf>>
    BY <1>8, Zenon DEF write_head, Goto
  <2>2. pc'[p] = "install" /\ Ops' = Ops
    BY <2>1, Zenon DEF IInv, TypeOK, Ops
  <2>3. Ops = {} /\ \A q \in Proc : buf[q] = NULL
    BY <2>1, InCommit, Zenon DEF Commit
  <2>4. Volatile = cache /\ Volatile' = cache
    BY <2>1, <2>2, <1>a, Zenon DEF SeesBuffers, Boot
  <2>5. Recovered' = cache
    <3>1. head' \in Header /\ lh \in Seq(Block) /\ cache \in [Block -> Val]
      BY Zenon DEF IInv, TypeOK, Header
    <3>2. ASSUME NEW b \in Block PROVE Recovered'[b] = cache[b]
      <4>1. CASE InLog(b, lh)
        <5>1. PICK i \in 1 .. Len(lh) : lh[i] = b
          BY <4>1, Zenon DEF InLog
        <5>2. Recovered'[b] = logd[i]
          BY <1>c, <2>1, <3>1, <5>1, Zenon DEF RecoversLogged
        <5>3. logd[i] = cache[lh[i]]
          BY <2>1, Zenon DEF IInv, DataOK
        <5>. QED
          BY <5>1, <5>2, <5>3, Zenon
      <4>2. CASE ~ InLog(b, lh)
        <5>1. Recovered'[b] = disk[b]
          BY <1>c, <2>1, <3>1, <4>2, Zenon DEF RecoversLogged
        <5>. QED
          BY <2>3, <4>2, <5>1, Zenon DEF LogConstants, IInv, DataOK
      <4>. QED
        BY <4>1, <4>2, Zenon
    <3>3. Recovered' = [b \in Block |-> Recovered'[b]]
      BY DEF Recovered
    <3>. QED
      BY <3>1, <3>2, <3>3, Zenon
  <2>6. Abstract!Commit
    BY <2>1, <2>2, <2>3, <2>4, <2>5, Zenon DEF Abstract!Commit, Ops
  <2>. QED
    BY <2>6, Zenon DEF Abstract!Next
<1>9. ASSUME NEW p \in Proc, install_trans(p) PROVE [Abstract!Next]_(Abstract!vars)
  <2>. DEFINE b == lh[tail]
  <2>1. /\ pc[p] \in {"install", "recover"} /\ tail \in 1 .. Len(lh)
        /\ disk' = [disk EXCEPT ![b] = logd[tail]]
        /\ cache' = [cache EXCEPT ![b] = logd[tail]]
        /\ UNCHANGED <<logd, head, pc, crashes>>
    BY <1>9 DEF install_trans, IInv, TypeOK, Header
  <2>2. head = lh /\ b \in Block /\ InLog(b, head) /\ Ops' = Ops
    BY <2>1, Installing DEF IInv, TypeOK, Header, InLog, Ops
  <2>3. Recovered' = Recovered
    <3>1. \A c \in Block : ~ InLog(c, head) => disk'[c] = disk[c]
      BY <2>1, <2>2, Zenon DEF IInv, TypeOK
    <3>. QED
      BY <2>1, <3>1 DEF Recovered
  <2>4. Volatile' = Volatile
    <3>1. CASE pc[p] = "recover"
      BY <2>1, <2>3, <3>1, Zenon DEF Volatile
    <3>2. CASE pc[p] = "install"
      <4>1. logd[tail] = cache[b]
        BY <2>1, <3>2, Zenon DEF IInv, DataOK
      <4>2. cache' = cache
        BY <2>1, <2>2, <4>1, Zenon DEF IInv, TypeOK
      <4>. QED
        BY <2>1, <3>2, <4>2, <1>a, Zenon DEF SeesBuffers, Boot
    <3>. QED
      BY <2>1, <3>1, <3>2, Zenon
  <2>. QED
    BY <2>1, <2>2, <2>3, <2>4, Stutter, Zenon
<1>10. ASSUME NEW p \in Proc, clear(p) PROVE [Abstract!Next]_(Abstract!vars)
  <2>1. /\ pc[p] \in {"install", "recover"} /\ tail > Len(lh)
        /\ head' = <<>> /\ UNCHANGED <<disk, cache, crashes>>
    BY <1>10, Zenon DEF clear
  <2>2. cache = disk /\ head = lh /\ Ops = {}
    BY <2>1, Installed, Installing, Zenon
  <2>3. Recovered' = disk
    BY <1>b, <2>1, Zenon
  <2>4. Recovered = disk
    <3>1. head \in Header /\ head \in Seq(Block) /\ disk \in [Block -> Val]
      BY Zenon DEF IInv, TypeOK, Header
    <3>2. ASSUME NEW b \in Block PROVE Recovered[b] = disk[b]
      <4>1. CASE InLog(b, head)
        <5>1. PICK i \in 1 .. Len(head) : head[i] = b
          BY <4>1, Zenon DEF InLog
        <5>2. Recovered[b] = logd[i]
          BY <3>1, <5>1, RecoveredBlock, Zenon DEF RecoversLogged
        <5>. QED
          BY <2>1, <2>2, <5>1, <5>2, Installed, Zenon
      <4>2. CASE ~ InLog(b, head)
        BY <3>1, <4>2, RecoveredBlock, Zenon DEF RecoversLogged
      <4>. QED
        BY <4>1, <4>2, Zenon
    <3>3. Recovered = [b \in Block |-> Recovered[b]]
      BY DEF Recovered
    <3>. QED
      BY <3>1, <3>2, <3>3, Zenon
  <2>5. pc'[p] \in {"done", "begin"} /\ Ops' = {}
    BY <1>10, <2>1, <2>2, Zenon DEF clear, Goto, IInv, TypeOK, Ops
  <2>6. Volatile' = disk
    BY <2>1, <2>2, <2>5, <1>a, Zenon DEF SeesBuffers, Boot
  <2>7. Volatile = disk
    BY <2>2, <2>4, Zenon DEF Volatile
  <2>. QED
    BY <2>1, <2>2, <2>3, <2>4, <2>5, <2>6, <2>7, Stutter, Zenon
<1>11. ASSUME NEW p \in Proc, end_commit(p) PROVE [Abstract!Next]_(Abstract!vars)
  <2>1. pc[p] = "done" /\ UNCHANGED <<disk, logd, head, cache, crashes>>
    BY <1>11, Zenon DEF end_commit, disks
  <2>2. pc'[p] = "begin" /\ Ops' = Ops
    BY <1>11, <2>1, Zenon DEF end_commit, WakeupGoto, IInv, TypeOK, Ops
  <2>3. Recovered' = Recovered /\ Volatile' = Volatile
    BY <2>1, <2>2, SameRecovered, <1>a, Zenon DEF SeesBuffers, Boot
  <2>. QED
    BY <2>1, <2>2, <2>3, Stutter, Zenon
<1>12. ASSUME NEW p \in Proc, read_head(p) PROVE [Abstract!Next]_(Abstract!vars)
  <2>1. /\ \A q \in Proc : pc[q] = "down"
        /\ pc' = [pc EXCEPT ![p] = "recover"] /\ UNCHANGED <<disk, logd, head, crashes>>
    BY <1>12, Zenon DEF read_head, Goto, disks
  <2>2. pc'[p] = "recover" /\ Ops' = Ops
    BY <2>1, Zenon DEF IInv, TypeOK, Ops
  <2>3. Recovered' = Recovered
    BY <2>1, SameRecovered, Zenon
  <2>4. Volatile' = Volatile
    BY <2>1, <2>2, <2>3, Zenon DEF Volatile
  <2>. QED
    BY <2>1, <2>2, <2>3, <2>4, Stutter, Zenon
<1>. QED
  BY <1>1, <1>2, <1>3, <1>4, <1>5, <1>6, <1>7, <1>8, <1>9, <1>10, <1>11, <1>12, Zenon
     DEF Next, Step

\* log_write() panics after its caller has changed the buffer.
LEMMA PanicAbstract ==
  ASSUME LogConstants, Inv, pc' = pc,
         NEW p \in Proc, NEW b \in Block, NEW v \in Val, modify(p, b, v)
  PROVE  [Abstract!Next]_(Abstract!vars)
<1>1. Recovered' = Recovered /\ crashes' = crashes
  BY SameRecovered, Zenon DEF modify, disks
<1>2. pc[p] = "op" /\ cache' = [cache EXCEPT ![b] = v] /\ p \in Ops /\ Ops' = Ops
  BY Zenon DEF modify, Ops
<1>3. Volatile = cache
  BY <1>2, Started, Zenon DEF SeesBuffers, Boot
<1>4. \A q \in Proc : pc[q] \notin Boot
  BY <1>2, Zenon DEF Inv, IInv, PhaseOK, Boot
<1>5. Volatile' = cache'
  BY <1>4, Zenon DEF Volatile, Boot
<1>6. Abstract!Write(p, b, v)
  BY <1>1, <1>2, <1>3, <1>5, Zenon DEF Abstract!Write
<1>. QED
  BY <1>6, Zenon DEF Abstract!Next

LEMMA SafeAbstract ==
  ASSUME LogConstants
  PROVE  Safe /\ [Next]_vars => [Abstract!Next]_(Abstract!vars)
<1>. SUFFICES ASSUME Safe, [Next]_vars PROVE [Abstract!Next]_(Abstract!vars)
  BY Zenon
<1>1. CASE UNCHANGED vars
  <2>1. Recovered' = Recovered
    BY <1>1, SameRecovered, Zenon DEF vars
  <2>2. Volatile' = Volatile /\ Ops' = Ops
    BY <1>1, <2>1, Zenon DEF vars, Volatile, Ops
  <2>. QED
    BY <1>1, <2>1, <2>2, Stutter, Zenon DEF vars
<1>2. CASE Next
  <2>1. Inv
    BY <1>2, Zenon DEF Safe, PanicOK, Next, Intact
  <2>. QED
    BY <1>2, <2>1, StepIInv, NextAbstract, PanicAbstract, Zenon
<1>. QED
  BY <1>1, <1>2, Zenon

\* The log gives file system calls atomic transactions: for any number of processes,
\* blocks and crashes, and wherever a crash falls between two writes of commit() or of
\* recovery, the disk that recovery leaves is the one of the last commit, and a commit
\* contains no part of a call.
THEOREM LogImplements == Spec => ImplementsLogSpec
<1>1. Init => Abstract!Init
  BY LogAssumption, InitAbstract, Zenon
<1>2. Safe /\ [Next]_vars => [Abstract!Next]_(Abstract!vars)
  BY LogAssumption, SafeAbstract, Zenon
<1>. QED
  BY <1>1, <1>2, Invariance, PTL DEF Spec, ImplementsLogSpec, Abstract!Spec
=============================================================================
