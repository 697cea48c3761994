--------------------------- MODULE RunQueueProofs ---------------------------
(***************************************************************************)
(* Proofs about the run queue of RunQueue.tla, for any number of processes *)
(* and harts, any number of levels a 64-bit bitmap can index, and any      *)
(* priorities.                                                             *)
(***************************************************************************)
EXTENDS RunQueue, WellFoundedInduction, TLAPS

QueueOK(q) == q \in RQType /\ EndsOK(q) /\ LinksOK(q) /\ BitmapOK(q)

-----------------------------------------------------------------------------
(* The operators of sched_o1.c.                                            *)

\* runq_dyn() always yields a legal level, whatever the priority.
LEMMA DynInLevel ==
  ASSUME NEW prio \in Int, NEW w \in Nat, NEW u \in Nat
  PROVE  runq_dyn(prio, w, u) \in Level
<1>1. w \div AGE \in Int /\ u \div AGE \in Int
  BY RunqConstants, SMT
<1>. QED
  BY <1>1, RunqConstants, SMT DEF runq_dyn, Level

\* runq_enqueue() keeps the lists and the bitmap consistent, and puts p, and
\* nothing else, on the queue.
LEMMA EnqueueOK ==
  ASSUME NEW q, QueueOK(q), NEW p \in Proc, NEW i \in Level
  PROVE  LET r == runq_enqueue(q, p, i)
         IN  QueueOK(r) /\ r.on = [q.on EXCEPT ![p] = TRUE]
<1>. DEFINE r == runq_enqueue(q, p, i)
<1>1. CASE q.on[p]
  BY <1>1, Zenon DEF QueueOK, RQType, runq_enqueue
<1>2. CASE ~ q.on[p]
  <2>1. r.head = IF q.tail[i] = NULL THEN [q.head EXCEPT ![i] = p] ELSE q.head
    BY <1>2, Zenon DEF runq_enqueue
  <2>2. r.tail = [q.tail EXCEPT ![i] = p]
    BY <1>2, Zenon DEF runq_enqueue
  <2>3. r.bitmap = q.bitmap \cup {i}
    BY <1>2, Zenon DEF runq_enqueue
  <2>4. r.next = [x \in Proc |-> IF x = q.tail[i] THEN p
                                 ELSE IF x = p THEN NULL ELSE q.next[x]]
    BY <1>2, Zenon DEF runq_enqueue
  <2>5. r.prev = [q.prev EXCEPT ![p] = q.tail[i]]
    BY <1>2, Zenon DEF runq_enqueue
  <2>6. r.on = [q.on EXCEPT ![p] = TRUE]
    BY <1>2, Zenon DEF runq_enqueue
  <2>7. r.dyn = [q.dyn EXCEPT ![p] = i]
    BY <1>2, Zenon DEF runq_enqueue
  <2>8. r \in RQType
    BY <1>2, Zenon DEF runq_enqueue, QueueOK, RQType, ProcOrNull
  <2>a. /\ q.head \in [Level -> ProcOrNull] /\ q.tail \in [Level -> ProcOrNull]
        /\ q.next \in [Proc -> ProcOrNull] /\ q.prev \in [Proc -> ProcOrNull]
        /\ q.on \in [Proc -> BOOLEAN] /\ q.dyn \in [Proc -> Level]
        /\ q.bitmap \subseteq Level
    BY Zenon DEF QueueOK, RQType
  <2>9. EndsOK(r)
    BY <1>2, <2>1, <2>2, <2>4, <2>5, <2>6, <2>7, <2>a, RunqConstants
       DEF QueueOK, EndsOK, LinksOK, ProcOrNull
  <2>10. LinksOK(r)
    BY <1>2, <2>1, <2>2, <2>4, <2>5, <2>6, <2>7, <2>a, RunqConstants
       DEF QueueOK, EndsOK, LinksOK, ProcOrNull
  <2>11. BitmapOK(r)
    BY <1>2, <2>1, <2>3, <2>a, RunqConstants
       DEF QueueOK, EndsOK, BitmapOK, ProcOrNull
  <2>. QED
    BY <2>6, <2>8, <2>9, <2>10, <2>11, Zenon DEF QueueOK
<1>. QED
  BY <1>1, <1>2, Zenon

\* runq_remove() keeps the lists and the bitmap consistent, and takes p, and
\* nothing else, off the queue.
LEMMA RemoveOK ==
  ASSUME NEW q, QueueOK(q), NEW p \in Proc
  PROVE  LET r == runq_remove(q, p)
         IN  QueueOK(r) /\ r.on = [q.on EXCEPT ![p] = FALSE]
<1>. DEFINE r == runq_remove(q, p)
<1>1. CASE ~ q.on[p]
  BY <1>1, Zenon DEF QueueOK, RQType, runq_remove
<1>2. CASE q.on[p]
  <2>. DEFINE i == q.dyn[p]
              hd == IF q.prev[p] = NULL THEN [q.head EXCEPT ![i] = q.next[p]]
                    ELSE q.head
  <2>1. r.head = hd
    BY <1>2, Zenon DEF runq_remove
  <2>2. r.tail = IF q.next[p] = NULL THEN [q.tail EXCEPT ![i] = q.prev[p]]
                 ELSE q.tail
    BY <1>2, Zenon DEF runq_remove
  <2>3. r.bitmap = IF hd[i] = NULL THEN q.bitmap \ {i} ELSE q.bitmap
    BY <1>2, Zenon DEF runq_remove
  <2>4. r.next = [x \in Proc |-> IF x = p THEN NULL
                                 ELSE IF x = q.prev[p] THEN q.next[p] ELSE q.next[x]]
    BY <1>2, Zenon DEF runq_remove
  <2>5. r.prev = [x \in Proc |-> IF x = p THEN NULL
                                 ELSE IF x = q.next[p] THEN q.prev[p] ELSE q.prev[x]]
    BY <1>2, Zenon DEF runq_remove
  <2>6. r.on = [q.on EXCEPT ![p] = FALSE]
    BY <1>2, Zenon DEF runq_remove
  <2>7. r.dyn = q.dyn
    BY <1>2, Zenon DEF runq_remove
  <2>a. /\ q.head \in [Level -> ProcOrNull] /\ q.tail \in [Level -> ProcOrNull]
        /\ q.next \in [Proc -> ProcOrNull] /\ q.prev \in [Proc -> ProcOrNull]
        /\ q.on \in [Proc -> BOOLEAN] /\ q.dyn \in [Proc -> Level]
        /\ q.bitmap \subseteq Level
    BY Zenon DEF QueueOK, RQType
  <2>8. r \in RQType
    <3>1. /\ hd \in [Level -> ProcOrNull]
          /\ r.tail \in [Level -> ProcOrNull]
          /\ r.bitmap \in SUBSET Level
          /\ r.next \in [Proc -> ProcOrNull] /\ r.prev \in [Proc -> ProcOrNull]
          /\ r.on \in [Proc -> BOOLEAN]
      BY <2>2, <2>3, <2>4, <2>5, <2>6, <2>a DEF ProcOrNull
    <3>2. r = [head |-> r.head, tail |-> r.tail, bitmap |-> r.bitmap,
               next |-> r.next, prev |-> r.prev, on |-> r.on, dyn |-> r.dyn]
      BY <1>2, Zenon DEF runq_remove
    <3>. QED
      BY <2>1, <2>7, <2>a, <3>1, <3>2, Zenon DEF RQType
  <2>. HIDE DEF r
  <2>9. EndsOK(r)
    BY <1>2, <2>1, <2>2, <2>4, <2>5, <2>6, <2>7, <2>a, RunqConstants
       DEF QueueOK, EndsOK, LinksOK, ProcOrNull
  <2>10. LinksOK(r)
    BY <1>2, <2>1, <2>2, <2>4, <2>5, <2>6, <2>7, <2>a, RunqConstants
       DEF QueueOK, EndsOK, LinksOK, ProcOrNull
  <2>11. BitmapOK(r)
    BY <1>2, <2>1, <2>3, <2>a, RunqConstants
       DEF QueueOK, EndsOK, LinksOK, BitmapOK, ProcOrNull
  <2>. QED
    BY <2>6, <2>8, <2>9, <2>10, <2>11, Zenon DEF QueueOK, r
<1>. QED
  BY <1>1, <1>2, Zenon

\* ctz64() of a non-empty bitmap is one of its bits, so runq_pick() reads the
\* head of a non-empty level.
LEMMA CtzInBitmap ==
  ASSUME NEW bits \in SUBSET Level, bits # {}
  PROVE  ctz64(bits) \in bits
<1>1. bits \subseteq Nat
  BY RunqConstants DEF Level
<1>. DEFINE R == OpToRel(<, Nat)
<1>2. \A x, y \in Nat : <<x, y>> \in R <=> x < y
  BY Zenon DEF OpToRel
<1>3. IsWellFoundedOn(R, Nat)
  BY NatLessThanWellFounded, Zenon
<1>. HIDE DEF R
<1>4. PICK i \in bits : \A j \in bits : ~ (<<j, i>> \in R)
  BY <1>1, <1>3, WFMin, Zenon
<1>5. ASSUME NEW j \in bits PROVE i <= j
  <2>1. i \in Nat /\ j \in Nat
    BY <1>1, Zenon
  <2>2. ~ (<<j, i>> \in R)
    BY <1>4, Zenon
  <2>3. ~ (j < i)
    BY <1>2, <2>1, <2>2, Zenon
  <2>. QED
    BY <2>1, <2>3
<1>. QED
  BY <1>5, Zenon DEF ctz64

-----------------------------------------------------------------------------
(* The inductive invariant.                                                *)

\* A hart that has picked a process runs none.
PickerIdle == \A c \in CPU : claim[c] # NULL => cur[c] = NULL

IInv == /\ TypeOK /\ ListOK /\ RunnableAccounted /\ RunsOnOneHart
        /\ TickHasNode /\ PickerIdle

\* A queued process is filed under a legal level, computed from its own fields.
LEMMA DynType ==
  ASSUME TypeOK, NEW p \in Proc
  PROVE  Dyn(p) \in Level
<1>1. priority[p] \in Int /\ wait_time[p] \in Nat /\ cpu_time[p] \in Nat
  BY RunqConstants DEF TypeOK
<1>. QED
  BY <1>1, DynInLevel, Zenon DEF Dyn

\* dyn_priority of a process that is off the queue may take any value.
LEMMA RefileOK ==
  ASSUME NEW q, QueueOK(q), NEW p \in Proc, ~ q.on[p], NEW i \in Level
  PROVE  LET r == [q EXCEPT !.dyn = [@ EXCEPT ![p] = i]]
         IN  QueueOK(r) /\ r.on = q.on
<1>. DEFINE r == [q EXCEPT !.dyn = [@ EXCEPT ![p] = i]]
<1>1. /\ r.head = q.head /\ r.tail = q.tail /\ r.bitmap = q.bitmap
      /\ r.next = q.next /\ r.prev = q.prev /\ r.on = q.on
      /\ r.dyn = [q.dyn EXCEPT ![p] = i]
  BY Zenon DEF QueueOK, RQType
<1>2. r \in RQType
  BY Zenon DEF QueueOK, RQType
<1>a. /\ q.head \in [Level -> ProcOrNull] /\ q.tail \in [Level -> ProcOrNull]
      /\ q.next \in [Proc -> ProcOrNull] /\ q.prev \in [Proc -> ProcOrNull]
      /\ q.on \in [Proc -> BOOLEAN] /\ q.dyn \in [Proc -> Level]
  BY Zenon DEF QueueOK, RQType
<1>. HIDE DEF r
<1>3. EndsOK(r)
  BY <1>1, <1>a, RunqConstants DEF QueueOK, EndsOK, ProcOrNull
<1>4. LinksOK(r)
  BY <1>1, <1>a, RunqConstants DEF QueueOK, LinksOK, ProcOrNull
<1>5. BitmapOK(r)
  BY <1>1, Zenon DEF QueueOK, BitmapOK
<1>. QED
  BY <1>1, <1>2, <1>3, <1>4, <1>5, Zenon DEF QueueOK, r

LEMMA InitIInv == Init => IInv
<1>. SUFFICES ASSUME Init PROVE IInv
  BY Zenon
<1>1. QueueOK(runq_init)
  <2>1. 0 \in Level
    BY RunqConstants DEF Level
  <2>2. runq_init \in RQType
    BY <2>1, Zenon DEF runq_init, RQType, ProcOrNull
  <2>3. EndsOK(runq_init)
    BY Zenon DEF runq_init, EndsOK
  <2>4. LinksOK(runq_init)
    BY Zenon DEF runq_init, LinksOK
  <2>5. BitmapOK(runq_init)
    BY Zenon DEF runq_init, BitmapOK
  <2>. QED
    BY <2>2, <2>3, <2>4, <2>5, Zenon DEF QueueOK
<1>2. QueueOK(rq) /\ rq.on = [[p \in Proc |-> FALSE] EXCEPT ![INITPROC] = TRUE]
  <2>1. runq_init.on = [p \in Proc |-> FALSE]
    BY Zenon DEF runq_init
  <2>2. INITPROC \in Proc /\ DEFPRIO \in Level
    BY RunqConstants, Zenon
  <2>3. LET r == runq_enqueue(runq_init, INITPROC, DEFPRIO)
        IN  QueueOK(r) /\ r.on = [runq_init.on EXCEPT ![INITPROC] = TRUE]
    BY <1>1, <2>2, EnqueueOK, Zenon
  <2>. QED
    BY <2>1, <2>3, Zenon DEF Init
<1>3. TypeOK
  BY <1>2, RunqConstants, SMTT(30)
     DEF Init, TypeOK, QueueOK, TickType, State, ProcOrNull, Level
<1>4. RunnableAccounted /\ RunsOnOneHart /\ TickHasNode /\ PickerIdle
  BY <1>2, RunqConstants, Zenon
     DEF Init, RunnableAccounted, RunsOnOneHart, TickHasNode, PickerIdle, RunqFree
<1>. QED
  BY <1>2, <1>3, <1>4, Zenon DEF IInv, ListOK, QueueOK

\* Every step preserves the invariant; one step of the proof per action.
LEMMA NextIInv == IInv /\ [Next]_vars => IInv'
<1>. SUFFICES ASSUME IInv, [Next]_vars PROVE IInv'
  BY Zenon
<1>q. QueueOK(rq)
  BY Zenon DEF IInv, TypeOK, ListOK, QueueOK
<1>t. TypeOK /\ RunnableAccounted /\ RunsOnOneHart /\ TickHasNode /\ PickerIdle
  BY Zenon DEF IInv
<1>d. ASSUME NEW p \in Proc PROVE Dyn(p) \in Level
  BY <1>t, DynType, Zenon
<1>n. NULL \notin Proc /\ BOOTCPU \in CPU /\ MAXTIME \in Nat
  BY RunqConstants, Zenon
<1>z. ASSUME QueueOK(rq'), TypeOK', RunnableAccounted', RunsOnOneHart',
             TickHasNode', PickerIdle'
      PROVE  IInv'
  BY <1>z, Zenon DEF IInv, ListOK, QueueOK
<1>1. ASSUME NEW c \in CPU, runq_pick(c) PROVE IInv'
  <2>. DEFINE p == rq.head[ctz64(rq.bitmap)]
  <2>1. p \in Proc /\ rq.on[p]
    <3>1. ctz64(rq.bitmap) \in rq.bitmap /\ rq.bitmap \subseteq Level
      BY <1>1, <1>q, CtzInBitmap, Zenon DEF runq_pick, QueueOK, RQType
    <3>. QED
      BY <1>q, <3>1 DEF QueueOK, RQType, BitmapOK, EndsOK, ProcOrNull
  <2>2. QueueOK(rq') /\ rq'.on = [rq.on EXCEPT ![p] = FALSE]
    BY <1>1, <1>q, <2>1, RemoveOK, Zenon DEF runq_pick
  <2>3. /\ claim' = [claim EXCEPT ![c] = p] /\ claim[c] = NULL /\ cur[c] = NULL
        /\ RunqFree
        /\ UNCHANGED <<state, priority, wait_time, cpu_time, cur, setp, tick>>
    BY <1>1, Zenon DEF runq_pick
  <2>. HIDE DEF p
  <2>4. TypeOK' /\ PickerIdle'
    BY <1>t, <2>1, <2>2, <2>3, Zenon DEF TypeOK, QueueOK, ProcOrNull, PickerIdle
  <2>5. RunnableAccounted'
    BY <1>q, <1>t, <1>n, <2>1, <2>2, <2>3
       DEF RunnableAccounted, TypeOK, QueueOK, RQType
  <2>. QED
    BY <1>t, <1>z, <2>2, <2>3, <2>4, <2>5, Zenon DEF RunsOnOneHart, TickHasNode, RunqFree
<1>2. ASSUME NEW c \in CPU, scheduler(c) PROVE IInv'
  <2>. DEFINE p == claim[c]
  <2>1. p \in Proc /\ state[p] = "RUNNABLE" /\ ~ rq.on[p] /\ cur[c] = NULL
    BY <1>2, <1>t DEF scheduler, RunnableAccounted, TypeOK, ProcOrNull, PickerIdle
  <2>2. /\ claim' = [claim EXCEPT ![c] = NULL]
        /\ state' = [state EXCEPT ![p] = "RUNNING"]
        /\ wait_time' = [wait_time EXCEPT ![p] = 0]
        /\ cur' = [cur EXCEPT ![c] = p]
        /\ UNCHANGED <<rq, priority, cpu_time, setp, tick>>
    BY <1>2, <2>1, Zenon DEF scheduler
  <2>3. TypeOK' /\ PickerIdle'
    BY <1>t, <1>n, <2>1, <2>2 DEF TypeOK, ProcOrNull, State, PickerIdle
  <2>4. RunnableAccounted'
    BY <1>t, <1>n, <2>1, <2>2 DEF TypeOK, RunnableAccounted
  <2>5. RunsOnOneHart'
    BY <1>t, <1>n, <2>1, <2>2 DEF TypeOK, RunsOnOneHart
  <2>. QED
    BY <1>q, <1>t, <1>z, <2>2, <2>3, <2>4, <2>5, Zenon DEF TickHasNode, RunqFree
<1>3. ASSUME NEW c \in CPU, yield(c) PROVE IInv'
  <2>. DEFINE p == cur[c]
  <2>1. p \in Proc /\ state[p] = "RUNNING" /\ claim[c] = NULL
    BY <1>3, <1>t DEF yield, RunsOnOneHart, TypeOK, ProcOrNull, PickerIdle
  <2>2. QueueOK(rq') /\ rq'.on = [rq.on EXCEPT ![p] = TRUE]
    BY <1>3, <1>q, <1>d, <2>1, EnqueueOK, Zenon DEF yield
  <2>3. /\ state' = [state EXCEPT ![p] = "RUNNABLE"]
        /\ cur' = [cur EXCEPT ![c] = NULL]
        /\ tick' = tick \/ tick' = [tick EXCEPT !.pc = "idle"]
        /\ RunqFree
        /\ UNCHANGED <<priority, wait_time, cpu_time, claim, setp>>
    BY <1>3, Zenon DEF yield
  <2>4. TypeOK' /\ PickerIdle' /\ TickHasNode'
    BY <1>t, <1>n, <2>1, <2>2, <2>3, Zenon
       DEF TypeOK, QueueOK, ProcOrNull, State, TickType, PickerIdle,
           TickHasNode, RunqFree
  <2>5. RunnableAccounted'
    BY <1>q, <1>t, <1>n, <2>1, <2>2, <2>3
       DEF TypeOK, RunnableAccounted, QueueOK, RQType
  <2>6. RunsOnOneHart'
    BY <1>t, <1>n, <2>1, <2>3 DEF TypeOK, RunsOnOneHart
  <2>. QED
    BY <1>z, <2>2, <2>4, <2>5, <2>6, Zenon
<1>4. ASSUME NEW c \in CPU, sleep(c) \/ exit(c) PROVE IInv'
  <2>. DEFINE p == cur[c]
  <2>1. p \in Proc /\ state[p] = "RUNNING" /\ claim[c] = NULL
    BY <1>4, <1>t DEF sleep, exit, RunsOnOneHart, TypeOK, ProcOrNull, PickerIdle
  <2>2. PICK s \in {"SLEEPING", "ZOMBIE"} :
          /\ state' = [state EXCEPT ![p] = s]
          /\ cur' = [cur EXCEPT ![c] = NULL]
          /\ tick' = tick \/ tick' = [tick EXCEPT !.pc = "idle"]
          /\ UNCHANGED <<rq, priority, wait_time, cpu_time, claim, setp>>
    BY <1>4, Zenon DEF sleep, exit
  <2>3. TypeOK' /\ PickerIdle' /\ TickHasNode'
    BY <1>t, <1>n, <2>1, <2>2, Zenon
       DEF TypeOK, ProcOrNull, State, TickType, PickerIdle, TickHasNode, RunqFree
  <2>4. RunnableAccounted'
    BY <1>t, <1>n, <2>1, <2>2 DEF TypeOK, RunnableAccounted
  <2>5. RunsOnOneHart'
    BY <1>t, <1>n, <2>1, <2>2 DEF TypeOK, RunsOnOneHart
  <2>. QED
    BY <1>q, <1>z, <2>2, <2>3, <2>4, <2>5, Zenon
<1>5. ASSUME NEW p \in Proc, wakeup(p) PROVE IInv'
  <2>1. QueueOK(rq') /\ rq'.on = [rq.on EXCEPT ![p] = TRUE]
    BY <1>5, <1>q, <1>d, EnqueueOK, Zenon DEF wakeup
  <2>2. /\ RunqFree /\ state[p] = "SLEEPING" /\ state' = [state EXCEPT ![p] = "RUNNABLE"]
        /\ UNCHANGED <<priority, wait_time, cpu_time, cur, claim, setp, tick>>
    BY <1>5, Zenon DEF wakeup
  <2>3. TypeOK' /\ PickerIdle' /\ TickHasNode'
    BY <1>t, <2>1, <2>2, Zenon DEF TypeOK, QueueOK, State, PickerIdle, TickHasNode, RunqFree
  <2>4. RunnableAccounted'
    BY <1>q, <1>t, <2>1, <2>2 DEF TypeOK, RunnableAccounted, QueueOK, RQType
  <2>5. RunsOnOneHart'
    BY <1>t, <2>2 DEF TypeOK, RunsOnOneHart
  <2>. QED
    BY <1>z, <2>1, <2>3, <2>4, <2>5, Zenon
<1>6. ASSUME NEW c \in CPU, NEW p \in Proc, fork(c, p) PROVE IInv'
  <2>. DEFINE q == [rq EXCEPT !.dyn = [@ EXCEPT ![p] = DEFPRIO]]
  <2>1. /\ RunqFree /\ state[p] = "UNUSED" /\ state' = [state EXCEPT ![p] = "RUNNABLE"]
        /\ priority' = [priority EXCEPT ![p] = DEFPRIO]
        /\ wait_time' = [wait_time EXCEPT ![p] = 0]
        /\ cpu_time' = [cpu_time EXCEPT ![p] = 0]
        /\ rq' = runq_enqueue(q, p, runq_dyn(DEFPRIO, 0, 0))
        /\ UNCHANGED <<cur, claim, setp, tick>>
    BY <1>6, Zenon DEF fork
  <2>2. DEFPRIO \in Level /\ DEFPRIO \in Int
    BY RunqConstants DEF Level
  <2>3. ~ rq.on[p]
    BY <1>t, <2>1, Zenon DEF RunnableAccounted
  <2>4. QueueOK(q) /\ q.on = rq.on
    BY <1>q, <2>2, <2>3, RefileOK, Zenon
  <2>. HIDE DEF q
  <2>5. runq_dyn(DEFPRIO, 0, 0) \in Level
    BY <2>2, DynInLevel, Zenon
  <2>6. QueueOK(rq') /\ rq'.on = [rq.on EXCEPT ![p] = TRUE]
    BY <2>1, <2>4, <2>5, EnqueueOK
  <2>7. TypeOK' /\ PickerIdle' /\ TickHasNode'
    BY <1>t, <1>n, <2>1, <2>2, <2>6
       DEF TypeOK, QueueOK, State, PickerIdle, TickHasNode, RunqFree
  <2>8. RunnableAccounted'
    BY <1>q, <1>t, <2>1, <2>6 DEF TypeOK, RunnableAccounted, QueueOK, RQType
  <2>9. RunsOnOneHart'
    BY <1>t, <2>1 DEF TypeOK, RunsOnOneHart
  <2>. QED
    BY <1>z, <2>6, <2>7, <2>8, <2>9, Zenon
<1>7. ASSUME NEW c \in CPU, NEW p \in Proc, freeproc(c, p) PROVE IInv'
  <2>1. QueueOK(rq') /\ rq'.on = [rq.on EXCEPT ![p] = FALSE]
    BY <1>7, <1>q, RemoveOK, Zenon DEF freeproc
  <2>2. /\ RunqFree /\ state[p] = "ZOMBIE" /\ state' = [state EXCEPT ![p] = "UNUSED"]
        /\ UNCHANGED <<priority, wait_time, cpu_time, cur, claim, setp, tick>>
    BY <1>7, Zenon DEF freeproc
  <2>3. TypeOK' /\ PickerIdle' /\ TickHasNode'
    BY <1>t, <2>1, <2>2, Zenon DEF TypeOK, QueueOK, State, PickerIdle, TickHasNode, RunqFree
  <2>4. RunnableAccounted'
    BY <1>q, <1>t, <2>1, <2>2 DEF TypeOK, RunnableAccounted, QueueOK, RQType
  <2>5. RunsOnOneHart'
    BY <1>t, <2>2 DEF TypeOK, RunsOnOneHart
  <2>. QED
    BY <1>z, <2>1, <2>3, <2>4, <2>5, Zenon
<1>8. ASSUME NEW c \in CPU, NEW p \in Proc, NEW v \in PRIO, setPriority(c, p, v)
      PROVE  IInv'
  <2>1. /\ priority' = [priority EXCEPT ![p] = v] /\ v \in Int
        /\ setp' = [setp EXCEPT ![c] = p]
        /\ UNCHANGED <<rq, state, wait_time, cpu_time, cur, claim, tick>>
    BY <1>8, RunqConstants, Zenon DEF setPriority
  <2>2. TypeOK'
    BY <1>t, <2>1, Zenon DEF TypeOK, ProcOrNull
  <2>. QED
    BY <1>q, <1>t, <1>z, <2>1, <2>2
       DEF RunnableAccounted, RunsOnOneHart, PickerIdle, TickHasNode, RunqFree
<1>9. ASSUME NEW c \in CPU, setPriority_requeue(c) PROVE IInv'
  <2>. DEFINE p == setp[c]
  <2>1. p \in Proc
    BY <1>9, <1>t, Zenon DEF setPriority_requeue, TypeOK, ProcOrNull
  <2>2. /\ RunqFree /\ setp' = [setp EXCEPT ![c] = NULL]
        /\ UNCHANGED <<state, priority, wait_time, cpu_time, cur, claim, tick>>
    BY <1>9, Zenon DEF setPriority_requeue
  <2>3. QueueOK(rq') /\ rq'.on = rq.on
    <3>1. CASE rq.on[p]
      <4>1. LET r == runq_remove(rq, p)
            IN  QueueOK(r) /\ r.on = [rq.on EXCEPT ![p] = FALSE]
        BY <1>q, <2>1, RemoveOK, Zenon
      <4>2. rq' = runq_enqueue(runq_remove(rq, p), p, Dyn(p))
        BY <1>9, <3>1, Zenon DEF setPriority_requeue
      <4>3. QueueOK(rq') /\ rq'.on = [runq_remove(rq, p).on EXCEPT ![p] = TRUE]
        BY <1>d, <2>1, <4>1, <4>2, EnqueueOK, Zenon
      <4>. QED
        BY <1>q, <2>1, <3>1, <4>1, <4>3 DEF QueueOK, RQType
    <3>2. CASE ~ rq.on[p]
      <4>1. rq' = [rq EXCEPT !.dyn = [@ EXCEPT ![p] = Dyn(p)]]
        BY <1>9, <3>2, Zenon DEF setPriority_requeue
      <4>. QED
        BY <1>q, <1>d, <2>1, <3>2, <4>1, RefileOK, Zenon
    <3>. QED
      BY <3>1, <3>2, Zenon
  <2>4. TypeOK'
    BY <1>t, <2>2, <2>3, Zenon DEF TypeOK, QueueOK, ProcOrNull
  <2>. QED
    BY <1>t, <1>z, <2>2, <2>3, <2>4
       DEF RunnableAccounted, RunsOnOneHart, PickerIdle, TickHasNode, RunqFree
<1>10. ASSUME tick_age PROVE IInv'
  <2>1. /\ wait_time' \in [Proc -> 0 .. MAXTIME]
        /\ UNCHANGED <<rq, state, priority, cpu_time, cur, claim, setp>>
    BY <1>10, <1>t, <1>n DEF tick_age, Inc, TypeOK
  <2>2. /\ tick' \in TickType /\ tick'.pc = "scan"
        /\ tick'.p # NULL => rq.on[tick'.p]
    <3>1. 0 \in Level
      BY RunqConstants DEF Level
    <3>2. tick' = [pc |-> "scan", i |-> 0, p |-> rq.head[0], nx |-> NULL]
      BY <1>10, Zenon DEF tick_age
    <3>. QED
      BY <1>q, <3>1, <3>2 DEF TickType, QueueOK, RQType, EndsOK, ProcOrNull
  <2>3. TypeOK'
    BY <1>t, <2>1, <2>2, Zenon DEF TypeOK
  <2>. QED
    BY <1>q, <1>t, <1>z, <2>1, <2>2, <2>3
       DEF RunnableAccounted, RunsOnOneHart, PickerIdle, TickHasNode, RunqFree
<1>11. ASSUME tick_scan PROVE IInv'
  <2>1. UNCHANGED <<rq, state, priority, wait_time, cpu_time, cur, claim, setp>>
    BY <1>11, Zenon DEF tick_scan
  <2>2. tick' \in TickType /\ TickHasNode'
    <3>1. tick \in TickType
      BY <1>t, Zenon DEF TypeOK
    <3>2. CASE tick.p # NULL
      <4>1. /\ rq.next[tick.p] \in ProcOrNull
            /\ rq.next[tick.p] # NULL => rq.on[rq.next[tick.p]]
            /\ rq.on[tick.p]
        BY <1>11, <1>q, <1>t, <3>1, <3>2, Zenon
           DEF tick_scan, TickType, QueueOK, RQType, LinksOK, ProcOrNull,
               TickHasNode, RunqFree
      <4>. QED
        BY <1>11, <2>1, <3>1, <3>2, <4>1, Zenon DEF tick_scan, TickType, TickHasNode, RunqFree
    <3>3. CASE tick.p = NULL /\ tick.i < RUNQ_LEN - 1
      <4>1. tick.i + 1 \in Level
        BY <3>1, <3>3, RunqConstants DEF TickType, Level
      <4>2. /\ rq.head[tick.i + 1] \in ProcOrNull
            /\ rq.head[tick.i + 1] # NULL => rq.on[rq.head[tick.i + 1]]
        BY <1>q, <4>1, Zenon DEF QueueOK, RQType, EndsOK
      <4>. QED
        BY <1>11, <2>1, <3>1, <3>3, <4>1, <4>2, Zenon
           DEF tick_scan, TickType, TickHasNode, RunqFree
    <3>4. CASE tick.p = NULL /\ ~ (tick.i < RUNQ_LEN - 1)
      <4>1. 0 \in Level
        BY RunqConstants DEF Level
      <4>. QED
        BY <1>11, <3>1, <3>4, <4>1, Zenon DEF tick_scan, TickType, TickHasNode, RunqFree
    <3>. QED
      BY <3>2, <3>3, <3>4, Zenon
  <2>3. TypeOK'
    BY <1>t, <2>1, <2>2, Zenon DEF TypeOK
  <2>. QED
    BY <1>q, <1>t, <1>z, <2>1, <2>2, <2>3
       DEF RunnableAccounted, RunsOnOneHart, PickerIdle
<1>12. ASSUME tick_move PROVE IInv'
  <2>. DEFINE p == tick.p
  <2>1. p \in Proc /\ tick \in TickType
    BY <1>12, <1>t, Zenon DEF tick_move, TypeOK, TickType, TickHasNode, RunqFree, ProcOrNull
  <2>2. /\ tick' = [tick EXCEPT !.pc = "scan", !.p = tick.nx, !.nx = NULL]
        /\ UNCHANGED <<state, priority, wait_time, cpu_time, cur, claim, setp>>
    BY <1>12, Zenon DEF tick_move
  <2>3. LET r == runq_remove(rq, p)
        IN  QueueOK(r) /\ r.on = [rq.on EXCEPT ![p] = FALSE]
    BY <1>q, <2>1, RemoveOK, Zenon
  <2>4. QueueOK(rq') /\ rq'.on = [runq_remove(rq, p).on EXCEPT ![p] = TRUE]
    BY <1>12, <1>d, <2>1, <2>3, EnqueueOK, Zenon DEF tick_move
  <2>5. rq.on[p] /\ (tick.nx # NULL => rq.on[tick.nx])
    BY <1>12, <1>t, <2>1, Zenon DEF tick_move, TickHasNode, RunqFree, ProcOrNull
  <2>6. rq'.on = rq.on
    BY <1>q, <2>1, <2>3, <2>4, <2>5 DEF QueueOK, RQType
  <2>7. TypeOK' /\ TickHasNode'
    BY <1>t, <2>1, <2>2, <2>4, <2>5, <2>6, Zenon
       DEF TypeOK, QueueOK, TickType, ProcOrNull, TickHasNode, RunqFree
  <2>8. RunnableAccounted' /\ RunsOnOneHart' /\ PickerIdle'
    BY <1>t, <2>2, <2>6 DEF RunnableAccounted, RunsOnOneHart, PickerIdle
  <2>. QED
    BY <1>z, <2>4, <2>7, <2>8, Zenon
<1>13. ASSUME tick_cpu PROVE IInv'
  <2>1. UNCHANGED <<rq, state, priority, wait_time, cur, claim, setp>>
    BY <1>13, Zenon DEF tick_cpu
  <2>2. cpu_time' \in [Proc -> 0 .. MAXTIME]
    BY <1>13, <1>t, <1>n DEF tick_cpu, TypeOK, Inc, ProcOrNull
  <2>3. tick' \in TickType /\ TickHasNode'
    BY <1>13, <2>1, <1>t, Zenon DEF tick_cpu, TypeOK, TickType, TickHasNode, RunqFree
  <2>4. TypeOK'
    BY <1>t, <2>1, <2>2, <2>3, Zenon DEF TypeOK
  <2>. QED
    BY <1>q, <1>t, <1>z, <2>1, <2>3, <2>4
       DEF RunnableAccounted, RunsOnOneHart, PickerIdle
<1>14. CASE UNCHANGED vars
  BY <1>14, <1>q, <1>t, <1>z
     DEF vars, TypeOK, RunnableAccounted, RunsOnOneHart, PickerIdle,
         TickHasNode, RunqFree
<1>. QED
  BY <1>1, <1>2, <1>3, <1>4, <1>5, <1>6, <1>7, <1>8, <1>9, <1>10, <1>11, <1>12,
     <1>13, <1>14, Zenon DEF Next, sched_tick

\* TypeOK, ListOK, RunnableAccounted, RunsOnOneHart and TickHasNode hold in every
\* reachable state: the lists, the bitmap, on_runq and the process states agree whatever
\* the interleaving of schedulers, wakers, setPriority and the timer tick.
THEOREM RunQueueSafe ==
  Spec => [](/\ TypeOK /\ ListOK /\ RunnableAccounted /\ RunsOnOneHart
             /\ TickHasNode)
<1>1. IInv => /\ TypeOK /\ ListOK /\ RunnableAccounted /\ RunsOnOneHart
              /\ TickHasNode
  BY Zenon DEF IInv
<1>. QED
  BY <1>1, InitIInv, NextIInv, PTL DEF Spec

\* No process is lost or run twice: RUNNABLE processes are those that are queued or picked
\* by one scheduler(), and RUNNING ones those that one hart has.
THEOREM StatesSafe == Spec => []StatesAgree
<1>1. RunnableAccounted /\ RunsOnOneHart => StatesAgree
  BY Zenon DEF StatesAgree
<1>. QED
  BY <1>1, RunQueueSafe, PTL

\* The loop of sched_tick() never follows a pointer to a node that has left the queue,
\* although it moves nodes to other lists as it goes.
THEOREM TickSafe == Spec => []TickHasNode
<1>. QED
  BY RunQueueSafe, PTL

-----------------------------------------------------------------------------
(* BucketFresh.  The tick's loop walks along the lists while it moves nodes *)
(* to the ends of other lists, so that what it has still to look at depends *)
(* on the order of the nodes.  That order is a number for every process     *)
(* which grows along run_next; the numbers are part of the invariant, under *)
(* a quantifier.                                                            *)

\* pos orders the nodes of every level from its head to its tail, and run_next and
\* run_prev lead to the neighbours in that order: the lists have no cycles, and every
\* queued process is reached from a head.
Ordered(q, pos) ==
  \A x \in Proc : q.on[x] =>
    /\ q.head[q.dyn[x]] # NULL /\ pos[q.head[q.dyn[x]]] <= pos[x]
    /\ q.tail[q.dyn[x]] # NULL /\ pos[x] <= pos[q.tail[q.dyn[x]]]
    /\ \A y \in Proc : q.on[y] /\ q.dyn[y] = q.dyn[x] =>
         /\ pos[x] = pos[y] => x = y
         /\ pos[x] < pos[y] => /\ q.next[x] # NULL /\ pos[q.next[x]] <= pos[y]
                               /\ q.prev[y] # NULL /\ pos[x] <= pos[q.prev[y]]
    /\ q.next[x] # NULL => pos[x] < pos[q.next[x]]

\* While sched_tick() holds runq_lock, a process that is filed under a stale level is
\* one the loop has still to come to (or a setPriority() waits to refile it).
ScanOK(pos) ==
  /\ tick.p # NULL => rq.on[tick.p] /\ rq.dyn[tick.p] = tick.i
  /\ tick.pc = "move" => tick.p # NULL /\ tick.nx = rq.next[tick.p]
  /\ \A x \in Proc :
       rq.on[x] /\ Unlocked(x) /\ rq.dyn[x] # Dyn(x)
       => \/ tick.i < rq.dyn[x]
          \/ rq.dyn[x] = tick.i /\ tick.p # NULL /\ pos[tick.p] <= pos[x]

Fresh(pos) == IF RunqFree THEN BucketFresh ELSE ScanOK(pos)

FInv == \E pos \in [Proc -> Int] : Ordered(rq, pos) /\ Fresh(pos)

\* The order with p after all others of level i.
Last(q, pos, p, i) ==
  [pos EXCEPT ![p] = IF q.tail[i] = NULL THEN 0 ELSE pos[q.tail[i]] + 1]

\* A process that runq_enqueue() puts on a list comes after all others of its level.
LEMMA EnqueueOrdered ==
  ASSUME NEW q, QueueOK(q), NEW p \in Proc, ~ q.on[p], NEW i \in Level,
         NEW pos \in [Proc -> Int], Ordered(q, pos)
  PROVE  LET r == runq_enqueue(q, p, i)
         IN  /\ r.dyn = [q.dyn EXCEPT ![p] = i]
             /\ Last(q, pos, p, i) \in [Proc -> Int]
             /\ Ordered(r, Last(q, pos, p, i))
<1>. DEFINE r == runq_enqueue(q, p, i)
            last == q.tail[i]
            new == Last(q, pos, p, i)
<1>1. /\ r.head = IF last = NULL THEN [q.head EXCEPT ![i] = p] ELSE q.head
      /\ r.tail = [q.tail EXCEPT ![i] = p]
      /\ r.next = [x \in Proc |-> IF x = last THEN p
                                  ELSE IF x = p THEN NULL ELSE q.next[x]]
      /\ r.prev = [q.prev EXCEPT ![p] = last]
      /\ r.on = [q.on EXCEPT ![p] = TRUE]
      /\ r.dyn = [q.dyn EXCEPT ![p] = i]
  BY Zenon DEF runq_enqueue
<1>2. /\ q.head \in [Level -> ProcOrNull] /\ q.tail \in [Level -> ProcOrNull]
      /\ q.next \in [Proc -> ProcOrNull] /\ q.prev \in [Proc -> ProcOrNull]
      /\ q.on \in [Proc -> BOOLEAN] /\ q.dyn \in [Proc -> Level]
  BY Zenon DEF QueueOK, RQType
<1>3. NULL \notin Proc /\ (last = NULL \/ last \in Proc)
  BY <1>2, RunqConstants, Zenon DEF ProcOrNull
<1>4. new \in [Proc -> Int] /\ \A x \in Proc : x # p => new[x] = pos[x]
  BY <1>3 DEF Last
<1>5. last # NULL => /\ q.on[last] /\ q.dyn[last] = i /\ q.next[last] = NULL
                     /\ new[p] = pos[last] + 1
  BY <1>3 DEF QueueOK, EndsOK, Last
<1>6. \A x \in Proc : q.on[x] /\ q.dyn[x] = i => last # NULL /\ pos[x] <= pos[last]
  BY Zenon DEF Ordered
<1>7. \A x \in Proc : q.on[x] /\ q.next[x] # NULL => q.next[x] \in Proc /\ q.next[x] # p
                                                      /\ q.on[q.next[x]]
  BY <1>2 DEF QueueOK, LinksOK, ProcOrNull
<1>8. \A x \in Proc : q.on[x] /\ q.prev[x] # NULL => q.prev[x] \in Proc /\ q.prev[x] # p
  BY <1>2 DEF QueueOK, LinksOK, ProcOrNull
<1>9. \A j \in Level : q.head[j] # NULL => q.head[j] \in Proc /\ q.head[j] # p
  BY <1>2 DEF QueueOK, EndsOK, ProcOrNull
<1>. HIDE DEF r, new
<1>10. ASSUME NEW x \in Proc, r.on[x] PROVE
         /\ r.head[r.dyn[x]] # NULL /\ new[r.head[r.dyn[x]]] <= new[x]
         /\ r.tail[r.dyn[x]] # NULL /\ new[x] <= new[r.tail[r.dyn[x]]]
  <2>1. CASE x = p
    <3>1. CASE last = NULL
      BY <1>1, <1>2, <1>3, <1>4, <2>1, <3>1
    <3>2. CASE last # NULL
      <4>1. q.head[i] \in Proc /\ q.head[i] # p /\ pos[q.head[i]] <= pos[last]
        BY <1>2, <1>3, <1>5, <1>9, <3>2, Zenon DEF Ordered
      <4>. QED
        BY <1>1, <1>2, <1>3, <1>4, <1>5, <2>1, <3>2, <4>1
    <3>. QED
      BY <3>1, <3>2, Zenon
  <2>2. CASE x # p
    <3>1. q.on[x] /\ r.dyn[x] = q.dyn[x] /\ new[x] = pos[x] /\ q.dyn[x] \in Level
      BY <1>1, <1>2, <1>4, <1>10, <2>2
    <3>2. /\ q.head[q.dyn[x]] \in Proc /\ q.head[q.dyn[x]] # p
          /\ pos[q.head[q.dyn[x]]] <= pos[x]
          /\ q.tail[q.dyn[x]] \in Proc /\ pos[x] <= pos[q.tail[q.dyn[x]]]
          /\ q.on[q.tail[q.dyn[x]]]
      BY <1>2, <1>9, <3>1 DEF Ordered, QueueOK, EndsOK, ProcOrNull
    <3>. QED
      BY <1>1, <1>2, <1>3, <1>4, <1>5, <1>6, <3>1, <3>2
  <2>. QED
    BY <2>1, <2>2, Zenon
<1>11. ASSUME NEW x \in Proc, r.on[x], NEW y \in Proc, r.on[y], r.dyn[y] = r.dyn[x] PROVE
         /\ new[x] = new[y] => x = y
         /\ new[x] < new[y] => /\ r.next[x] # NULL /\ new[r.next[x]] <= new[y]
                               /\ r.prev[y] # NULL /\ new[x] <= new[r.prev[y]]
  BY <1>1, <1>2, <1>3, <1>4, <1>5, <1>6, <1>7, <1>8, <1>11 DEF Ordered
<1>12. ASSUME NEW x \in Proc, r.on[x], r.next[x] # NULL PROVE new[x] < new[r.next[x]]
  BY <1>1, <1>2, <1>3, <1>4, <1>5, <1>7, <1>12 DEF Ordered, QueueOK, LinksOK
<1>13. Ordered(r, new)
  BY <1>10, <1>11, <1>12, Zenon DEF Ordered
<1>. QED
  BY <1>1, <1>4, <1>13, Zenon DEF r, new

\* runq_remove() leaves the others in their order.
LEMMA RemoveOrdered ==
  ASSUME NEW q, QueueOK(q), NEW p \in Proc,
         NEW pos \in [Proc -> Int], Ordered(q, pos)
  PROVE  LET r == runq_remove(q, p) IN r.dyn = q.dyn /\ Ordered(r, pos)
<1>. DEFINE r == runq_remove(q, p)
<1>1. CASE ~ q.on[p]
  BY <1>1, Zenon DEF runq_remove
<1>2. CASE q.on[p]
  <2>. DEFINE i == q.dyn[p]
              nx == q.next[p]
              pr == q.prev[p]
  <2>1. /\ r.head = IF pr = NULL THEN [q.head EXCEPT ![i] = nx] ELSE q.head
        /\ r.tail = IF nx = NULL THEN [q.tail EXCEPT ![i] = pr] ELSE q.tail
        /\ r.next = [x \in Proc |-> IF x = p THEN NULL
                                    ELSE IF x = pr THEN nx ELSE q.next[x]]
        /\ r.prev = [x \in Proc |-> IF x = p THEN NULL
                                    ELSE IF x = nx THEN pr ELSE q.prev[x]]
        /\ r.on = [q.on EXCEPT ![p] = FALSE]
        /\ r.dyn = q.dyn
    BY <1>2, Zenon DEF runq_remove
  <2>2. /\ q.head \in [Level -> ProcOrNull] /\ q.tail \in [Level -> ProcOrNull]
        /\ q.next \in [Proc -> ProcOrNull] /\ q.prev \in [Proc -> ProcOrNull]
        /\ q.on \in [Proc -> BOOLEAN] /\ q.dyn \in [Proc -> Level]
    BY Zenon DEF QueueOK, RQType
  <2>3. NULL \notin Proc /\ i \in Level /\ nx \in ProcOrNull /\ pr \in ProcOrNull
    BY <2>2, RunqConstants, Zenon
  <2>4. \A x \in Proc : q.on[x] /\ q.next[x] # NULL =>
          /\ q.next[x] \in Proc /\ q.on[q.next[x]] /\ q.dyn[q.next[x]] = q.dyn[x]
          /\ q.prev[q.next[x]] = x
    BY <2>2 DEF QueueOK, LinksOK, ProcOrNull
  <2>5. \A x \in Proc : q.on[x] /\ q.prev[x] # NULL =>
          /\ q.prev[x] \in Proc /\ q.on[q.prev[x]] /\ q.dyn[q.prev[x]] = q.dyn[x]
          /\ q.next[q.prev[x]] = x
    BY <2>2 DEF QueueOK, LinksOK, ProcOrNull
  <2>6. /\ nx = NULL => q.tail[i] = p
        /\ pr = NULL => q.head[i] = p
    BY <1>2, Zenon DEF QueueOK, LinksOK
  <2>7. \A x \in Proc : q.on[x] /\ q.dyn[x] = i /\ x # p =>
          \/ pos[x] < pos[p] /\ pr # NULL /\ pos[x] <= pos[pr]
          \/ pos[p] < pos[x] /\ nx # NULL /\ pos[nx] <= pos[x]
    BY <1>2 DEF Ordered
  <2>8. /\ nx # NULL => nx # p /\ pos[p] < pos[nx]
        /\ pr # NULL => pr # p /\ pos[pr] < pos[p]
    BY <1>2, <2>4, <2>5 DEF Ordered
  <2>. HIDE DEF r
  <2>10. ASSUME NEW x \in Proc, r.on[x] PROVE
           /\ r.head[r.dyn[x]] # NULL /\ pos[r.head[r.dyn[x]]] <= pos[x]
           /\ r.tail[r.dyn[x]] # NULL /\ pos[x] <= pos[r.tail[r.dyn[x]]]
    BY <1>2, <2>1, <2>2, <2>3, <2>6, <2>7, <2>10 DEF Ordered
  <2>11. ASSUME NEW x \in Proc, r.on[x], NEW y \in Proc, r.on[y], r.dyn[y] = r.dyn[x] PROVE
           /\ pos[x] = pos[y] => x = y
           /\ pos[x] < pos[y] => /\ r.next[x] # NULL /\ pos[r.next[x]] <= pos[y]
                                 /\ r.prev[y] # NULL /\ pos[x] <= pos[r.prev[y]]
    BY <1>2, <2>1, <2>2, <2>3, <2>4, <2>5, <2>7, <2>8, <2>11 DEF Ordered
  <2>12. ASSUME NEW x \in Proc, r.on[x], r.next[x] # NULL PROVE pos[x] < pos[r.next[x]]
    BY <1>2, <2>1, <2>2, <2>3, <2>4, <2>5, <2>8, <2>12 DEF Ordered, ProcOrNull
  <2>13. Ordered(r, pos)
    BY <2>10, <2>11, <2>12, Zenon DEF Ordered
  <2>. QED
    BY <2>1, <2>13, Zenon DEF r
<1>. QED
  BY <1>1, <1>2, Zenon

LEMMA InitFInv == Init => FInv
<1>. SUFFICES ASSUME Init PROVE FInv
  BY Zenon
<1>1. /\ rq = runq_enqueue(runq_init, INITPROC, DEFPRIO) /\ RunqFree
      /\ rq.on = [[p \in Proc |-> FALSE] EXCEPT ![INITPROC] = TRUE]
      /\ rq.dyn = [[p \in Proc |-> 0] EXCEPT ![INITPROC] = DEFPRIO]
      /\ rq.head = [[i \in Level |-> NULL] EXCEPT ![DEFPRIO] = INITPROC]
      /\ rq.tail = [[i \in Level |-> NULL] EXCEPT ![DEFPRIO] = INITPROC]
      /\ rq.next[INITPROC] = NULL
  BY RunqConstants, Zenon DEF Init, runq_enqueue, runq_init, RunqFree
<1>. DEFINE pos == [p \in Proc |-> 0]
<1>2. Ordered(rq, pos)
  BY <1>1, RunqConstants DEF Ordered
<1>3. Dyn(INITPROC) = DEFPRIO
  <2>1. 0 \div AGE = 0
    BY RunqConstants
  <2>2. DEFPRIO \in 0 .. RUNQ_LEN - 1 /\ RUNQ_LEN \in Int
    BY RunqConstants DEF Level
  <2>3. Dyn(INITPROC) = runq_dyn(DEFPRIO, 0, 0)
    BY RunqConstants, Zenon DEF Init, Dyn
  <2>. QED
    BY <2>1, <2>2, <2>3 DEF runq_dyn
<1>4. BucketFresh
  BY <1>1, <1>3, RunqConstants, Zenon DEF BucketFresh
<1>. QED
  BY <1>1, <1>2, <1>4 DEF FInv, Fresh

LEMMA NextFInv == IInv /\ FInv /\ [Next]_vars => FInv'
<1>. SUFFICES ASSUME IInv, FInv, [Next]_vars PROVE FInv'
  BY Zenon
<1>q. QueueOK(rq) /\ rq.on \in [Proc -> BOOLEAN] /\ rq.dyn \in [Proc -> Level]
  BY Zenon DEF IInv, TypeOK, ListOK, QueueOK, RQType
<1>t. TypeOK /\ RunnableAccounted /\ RunsOnOneHart /\ TickHasNode /\ PickerIdle
  BY Zenon DEF IInv
<1>d. ASSUME NEW p \in Proc PROVE Dyn(p) \in Level
  BY <1>t, DynType, Zenon
<1>n. NULL \notin Proc /\ BOOTCPU \in CPU
  BY RunqConstants, Zenon
<1>p. PICK pos \in [Proc -> Int] : Ordered(rq, pos) /\ Fresh(pos)
  BY Zenon DEF FInv
\* The queue stays as it is, and no dynamic priority of an unlocked queued process changes.
<1>a. ASSUME rq' = rq, tick' = tick \/ (RunqFree /\ RunqFree'),
             \A x \in Proc : rq.on[x] /\ Unlocked(x)' => Unlocked(x) /\ Dyn(x)' = Dyn(x)
      PROVE  FInv'
  <2>1. Fresh(pos)'
    BY <1>a, <1>p, Zenon DEF Fresh, BucketFresh, ScanOK, RunqFree
  <2>. QED
    BY <1>a, <1>p, <2>1, Zenon DEF FInv
\* Process p is filed under its dynamic priority; nobody else's changes.
<1>b. ASSUME RunqFree, RunqFree', NEW q, QueueOK(q), Ordered(q, pos),
             NEW p \in Proc, ~ q.on[p], Dyn(p)' \in Level,
             rq' = runq_enqueue(q, p, Dyn(p)'),
             \A x \in Proc : x # p /\ q.on[x] => rq.on[x] /\ q.dyn[x] = rq.dyn[x],
             \A x \in Proc : x # p /\ q.on[x] /\ Unlocked(x)'
                               => Unlocked(x) /\ Dyn(x)' = Dyn(x)
      PROVE  FInv'
  <2>1. rq'.dyn = [q.dyn EXCEPT ![p] = Dyn(p)']
    BY <1>b, <1>p, EnqueueOrdered
  <2>. DEFINE new == Last(q, pos, p, Dyn(p)')
  <2>2. new \in [Proc -> Int] /\ Ordered(rq', new)
    BY <1>b, <1>p, EnqueueOrdered, Zenon
  <2>3. rq'.on = [q.on EXCEPT ![p] = TRUE]
    BY <1>b, EnqueueOK, Zenon
  <2>4. q.on \in [Proc -> BOOLEAN] /\ q.dyn \in [Proc -> Level]
    BY <1>b, Zenon DEF QueueOK, RQType
  <2>5. BucketFresh'
    BY <1>b, <1>p, <2>1, <2>3, <2>4 DEF Fresh, BucketFresh
  <2>. QED
    BY <1>b, <2>2, <2>5, Zenon DEF FInv, Fresh
<1>1. ASSUME NEW c \in CPU, runq_pick(c) PROVE FInv'
  <2>. DEFINE p == rq.head[ctz64(rq.bitmap)]
  <2>1. p \in Proc
    <3>1. ctz64(rq.bitmap) \in rq.bitmap /\ rq.bitmap \subseteq Level
      BY <1>1, <1>q, CtzInBitmap, Zenon DEF runq_pick, QueueOK, RQType
    <3>. QED
      BY <1>q, <3>1 DEF QueueOK, RQType, BitmapOK, EndsOK, ProcOrNull
  <2>2. /\ RunqFree /\ rq' = runq_remove(rq, p)
        /\ UNCHANGED <<state, priority, wait_time, cpu_time, cur, setp, tick>>
    BY <1>1, Zenon DEF runq_pick
  <2>. HIDE DEF p
  <2>3. rq'.on = [rq.on EXCEPT ![p] = FALSE]
    BY <1>q, <2>1, <2>2, RemoveOK, Zenon
  <2>4. rq'.dyn = rq.dyn /\ Ordered(rq', pos)
    BY <1>q, <1>p, <2>1, <2>2, RemoveOrdered, Zenon
  <2>5. BucketFresh' /\ RunqFree'
    BY <1>q, <1>p, <2>1, <2>2, <2>3, <2>4, Zenon DEF Fresh, BucketFresh, Unlocked, Dyn, RunqFree
  <2>. QED
    BY <2>4, <2>5, Zenon DEF FInv, Fresh
<1>2. ASSUME NEW c \in CPU, scheduler(c) PROVE FInv'
  <2>1. claim[c] \in Proc /\ state[claim[c]] = "RUNNABLE" /\ ~ rq.on[claim[c]]
    BY <1>2, <1>t DEF scheduler, RunnableAccounted, TypeOK, ProcOrNull
  <2>2. /\ wait_time' = [wait_time EXCEPT ![claim[c]] = 0]
        /\ UNCHANGED <<rq, priority, cpu_time, setp, tick>>
    BY <1>2, <2>1, Zenon DEF scheduler
  <2>. QED
    BY <1>a, <1>t, <2>1, <2>2, Zenon DEF TypeOK, Unlocked, Dyn
<1>3. ASSUME NEW c \in CPU, yield(c) PROVE FInv'
  <2>. DEFINE p == cur[c]
  <2>1. p \in Proc /\ ~ rq.on[p]
    BY <1>3, <1>t DEF yield, RunsOnOneHart, RunnableAccounted, TypeOK, ProcOrNull
  <2>2. /\ RunqFree /\ RunqFree'
        /\ rq' = runq_enqueue(rq, p, Dyn(p))
        /\ UNCHANGED <<priority, wait_time, cpu_time, setp>>
    BY <1>3, <1>t, Zenon DEF yield, RunqFree, TypeOK, TickType
  <2>3. \A x \in Proc : Dyn(x)' = Dyn(x) /\ Unlocked(x)' = Unlocked(x)
    BY <2>2, Zenon DEF Dyn, Unlocked
  <2>. QED
    BY <1>b, <1>d, <1>p, <1>q, <2>1, <2>2, <2>3, Zenon
<1>4. ASSUME NEW c \in CPU, sleep(c) \/ exit(c) PROVE FInv'
  <2>1. /\ tick' = tick \/ (RunqFree /\ RunqFree')
        /\ UNCHANGED <<rq, priority, wait_time, cpu_time, setp>>
    BY <1>4, <1>t, Zenon DEF sleep, exit, RunqFree, TypeOK, TickType
  <2>. QED
    BY <1>a, <2>1, Zenon DEF Dyn, Unlocked
<1>5. ASSUME NEW p \in Proc, wakeup(p) PROVE FInv'
  <2>1. /\ RunqFree /\ RunqFree' /\ ~ rq.on[p]
        /\ rq' = runq_enqueue(rq, p, Dyn(p))
        /\ UNCHANGED <<priority, wait_time, cpu_time, setp>>
    BY <1>5, <1>t, Zenon DEF wakeup, RunqFree, RunnableAccounted
  <2>2. \A x \in Proc : Dyn(x)' = Dyn(x) /\ Unlocked(x)' = Unlocked(x)
    BY <2>1, Zenon DEF Dyn, Unlocked
  <2>. QED
    BY <1>b, <1>d, <1>p, <1>q, <2>1, <2>2, Zenon
<1>6. ASSUME NEW c \in CPU, NEW p \in Proc, fork(c, p) PROVE FInv'
  <2>. DEFINE q == [rq EXCEPT !.dyn = [@ EXCEPT ![p] = DEFPRIO]]
  <2>1. /\ RunqFree /\ RunqFree' /\ ~ rq.on[p]
        /\ priority' = [priority EXCEPT ![p] = DEFPRIO]
        /\ wait_time' = [wait_time EXCEPT ![p] = 0]
        /\ cpu_time' = [cpu_time EXCEPT ![p] = 0]
        /\ rq' = runq_enqueue(q, p, runq_dyn(DEFPRIO, 0, 0))
        /\ UNCHANGED setp
    BY <1>6, <1>t, Zenon DEF fork, RunqFree, RunnableAccounted
  <2>2. DEFPRIO \in Level /\ DEFPRIO \in Int
    BY RunqConstants DEF Level
  <2>3. QueueOK(q) /\ q.on = rq.on
    BY <1>q, <2>1, <2>2, RefileOK, Zenon
  <2>4. /\ q.head = rq.head /\ q.tail = rq.tail /\ q.next = rq.next /\ q.prev = rq.prev
        /\ q.dyn = [rq.dyn EXCEPT ![p] = DEFPRIO]
    BY <1>q, Zenon DEF QueueOK, RQType
  <2>. HIDE DEF q
  <2>5. Ordered(q, pos)
    BY <1>p, <1>q, <2>1, <2>3, <2>4 DEF Ordered
  <2>6. Dyn(p)' = runq_dyn(DEFPRIO, 0, 0) /\ runq_dyn(DEFPRIO, 0, 0) \in Level
    BY <1>t, <2>1, <2>2, DynInLevel, Zenon DEF TypeOK, Dyn
  <2>7. \A x \in Proc : x # p => Dyn(x)' = Dyn(x) /\ Unlocked(x)' = Unlocked(x)
    BY <1>t, <2>1, Zenon DEF TypeOK, Dyn, Unlocked
  <2>8. \A x \in Proc : x # p => q.dyn[x] = rq.dyn[x]
    BY <1>q, <2>4, Zenon
  <2>. QED
    BY <1>b, <2>1, <2>3, <2>5, <2>6, <2>7, <2>8, Zenon
<1>7. ASSUME NEW c \in CPU, NEW p \in Proc, freeproc(c, p) PROVE FInv'
  <2>1. /\ ~ rq.on[p] /\ rq' = runq_remove(rq, p)
        /\ UNCHANGED <<priority, wait_time, cpu_time, setp, tick>>
    BY <1>7, <1>t, Zenon DEF freeproc, RunnableAccounted
  <2>2. rq' = rq
    BY <2>1, Zenon DEF runq_remove
  <2>. QED
    BY <1>a, <2>1, <2>2, Zenon DEF Dyn, Unlocked
<1>8. ASSUME NEW c \in CPU, NEW p \in Proc, NEW v \in PRIO, setPriority(c, p, v)
      PROVE  FInv'
  <2>1. /\ priority' = [priority EXCEPT ![p] = v]
        /\ setp' = [setp EXCEPT ![c] = p] /\ setp[c] = NULL
        /\ UNCHANGED <<rq, wait_time, cpu_time, tick>>
    BY <1>8, Zenon DEF setPriority, Active
  <2>2. ~ Unlocked(p)'
    BY <1>t, <2>1, Zenon DEF TypeOK, Unlocked
  <2>3. \A x \in Proc : x # p => Dyn(x)' = Dyn(x)
    BY <1>t, <2>1, Zenon DEF TypeOK, Dyn
  <2>4. \A x \in Proc : Unlocked(x)' => Unlocked(x)
    BY <1>t, <1>n, <2>1, Zenon DEF TypeOK, Unlocked
  <2>. QED
    BY <1>a, <2>1, <2>2, <2>3, <2>4, Zenon
<1>9. ASSUME NEW c \in CPU, setPriority_requeue(c) PROVE FInv'
  <2>. DEFINE p == setp[c]
  <2>1. p \in Proc
    BY <1>9, <1>t, Zenon DEF setPriority_requeue, TypeOK, ProcOrNull
  <2>2. /\ RunqFree /\ RunqFree' /\ setp' = [setp EXCEPT ![c] = NULL]
        /\ UNCHANGED <<priority, wait_time, cpu_time, tick>>
    BY <1>9, Zenon DEF setPriority_requeue, RunqFree
  <2>3. /\ \A x \in Proc : Dyn(x)' = Dyn(x)
        /\ \A x \in Proc : x # p /\ Unlocked(x)' => Unlocked(x)
    BY <1>t, <2>2, Zenon DEF TypeOK, Dyn, Unlocked
  <2>4. CASE rq.on[p]
    <3>1. LET q == runq_remove(rq, p)
          IN  QueueOK(q) /\ q.on = [rq.on EXCEPT ![p] = FALSE]
      BY <1>q, <2>1, RemoveOK, Zenon
    <3>2. runq_remove(rq, p).dyn = rq.dyn /\ Ordered(runq_remove(rq, p), pos)
      BY <1>p, <1>q, <2>1, RemoveOrdered, Zenon
    <3>3. rq' = runq_enqueue(runq_remove(rq, p), p, Dyn(p))
      BY <1>9, <2>4, Zenon DEF setPriority_requeue
    <3>. QED
      BY <1>b, <1>d, <1>q, <2>1, <2>2, <2>3, <3>1, <3>2, <3>3
  <2>5. CASE ~ rq.on[p]
    <3>1. rq' = [rq EXCEPT !.dyn = [@ EXCEPT ![p] = Dyn(p)]]
      BY <1>9, <2>5, Zenon DEF setPriority_requeue
    <3>2. /\ rq'.head = rq.head /\ rq'.tail = rq.tail /\ rq'.next = rq.next
          /\ rq'.prev = rq.prev /\ rq'.on = rq.on
          /\ rq'.dyn = [rq.dyn EXCEPT ![p] = Dyn(p)]
      BY <1>q, <3>1, Zenon DEF QueueOK, RQType
    <3>3. Ordered(rq', pos)
      BY <1>p, <1>q, <2>5, <3>2 DEF Ordered
    <3>4. BucketFresh'
      BY <1>p, <1>q, <2>2, <2>3, <2>5, <3>2 DEF Fresh, BucketFresh
    <3>. QED
      BY <2>2, <3>3, <3>4, Zenon DEF FInv, Fresh
  <2>. QED
    BY <2>4, <2>5, Zenon
<1>10. ASSUME tick_age PROVE FInv'
  <2>1. /\ rq' = rq /\ ~ RunqFree'
        /\ tick' = [pc |-> "scan", i |-> 0, p |-> rq.head[0], nx |-> NULL]
    BY <1>10, Zenon DEF tick_age, RunqFree
  <2>2. 0 \in Level /\ \A i \in Level : i = 0 \/ 0 < i
    BY RunqConstants DEF Level
  <2>3. ScanOK(pos)'
    BY <1>p, <1>q, <2>1, <2>2 DEF ScanOK, Ordered, QueueOK, EndsOK
  <2>. QED
    BY <1>p, <2>1, <2>3, Zenon DEF FInv, Fresh
<1>11. ASSUME tick_scan PROVE FInv'
  <2>1. UNCHANGED <<rq, priority, wait_time, cpu_time, setp>> /\ tick.pc = "scan"
    BY <1>11, Zenon DEF tick_scan
  <2>2. ScanOK(pos) /\ tick \in TickType
    BY <1>p, <1>t, <2>1, Zenon DEF Fresh, RunqFree, TypeOK
  <2>3. \A x \in Proc : Dyn(x)' = Dyn(x) /\ Unlocked(x)' = Unlocked(x)
    BY <2>1, Zenon DEF Dyn, Unlocked
  <2>4. CASE tick.p # NULL /\ Dyn(tick.p) # tick.i
    <3>1. tick' = [tick EXCEPT !.pc = "move", !.nx = rq.next[tick.p]]
      BY <1>11, <2>4, Zenon DEF tick_scan
    <3>2. tick'.pc = "move" /\ tick'.p = tick.p /\ tick'.i = tick.i
          /\ tick'.nx = rq.next[tick.p]
      BY <2>2, <3>1, Zenon DEF TickType
    <3>3. ScanOK(pos)' /\ ~ RunqFree'
      BY <2>1, <2>2, <2>3, <2>4, <3>2, Zenon DEF ScanOK, RunqFree
    <3>. QED
      BY <1>p, <2>1, <3>3, Zenon DEF FInv, Fresh
  <2>5. CASE tick.p # NULL /\ Dyn(tick.p) = tick.i
    <3>1. tick' = [tick EXCEPT !.p = rq.next[tick.p]]
      BY <1>11, <2>5, Zenon DEF tick_scan
    <3>2. tick'.pc = "scan" /\ tick'.p = rq.next[tick.p] /\ tick'.i = tick.i
      BY <2>1, <2>2, <3>1, Zenon DEF TickType
    <3>3. tick.p \in Proc /\ rq.on[tick.p] /\ rq.dyn[tick.p] = tick.i
      BY <2>2, <2>5, Zenon DEF ScanOK, TickType, ProcOrNull
    <3>4. rq.next[tick.p] # NULL => rq.on[rq.next[tick.p]] /\ rq.dyn[rq.next[tick.p]] = tick.i
      BY <1>q, <3>3, Zenon DEF QueueOK, LinksOK
    <3>5. ASSUME NEW x \in Proc, rq.on[x], Unlocked(x), rq.dyn[x] # Dyn(x),
                 ~ (tick.i < rq.dyn[x])
          PROVE  rq.dyn[x] = tick.i /\ rq.next[tick.p] # NULL /\ pos[rq.next[tick.p]] <= pos[x]
      <4>1. rq.dyn[x] = tick.i /\ pos[tick.p] <= pos[x] /\ x # tick.p
        BY <2>2, <2>5, <3>3, <3>5, Zenon DEF ScanOK
      <4>2. pos[tick.p] < pos[x]
        BY <1>p, <3>3, <3>5, <4>1 DEF Ordered
      <4>. QED
        BY <1>p, <3>3, <3>5, <4>1, <4>2, Zenon DEF Ordered
    <3>6. ScanOK(pos)' /\ ~ RunqFree'
      BY <2>1, <2>3, <3>2, <3>4, <3>5, Zenon DEF ScanOK, RunqFree
    <3>. QED
      BY <1>p, <2>1, <3>6, Zenon DEF FInv, Fresh
  <2>6. CASE tick.p = NULL /\ tick.i < RUNQ_LEN - 1
    <3>1. tick' = [tick EXCEPT !.i = @ + 1, !.p = rq.head[tick.i + 1]]
      BY <1>11, <2>6, Zenon DEF tick_scan
    <3>2. tick'.pc = "scan" /\ tick'.p = rq.head[tick.i + 1] /\ tick'.i = tick.i + 1
      BY <2>1, <2>2, <3>1, Zenon DEF TickType
    <3>3. tick.i + 1 \in Level /\ tick.i \in Int /\ Level \subseteq Int
      BY <2>2, <2>6, RunqConstants DEF TickType, Level
    <3>4. rq.head[tick.i + 1] # NULL =>
            rq.on[rq.head[tick.i + 1]] /\ rq.dyn[rq.head[tick.i + 1]] = tick.i + 1
      BY <1>q, <3>3, Zenon DEF QueueOK, EndsOK
    <3>5. ASSUME NEW x \in Proc, rq.on[x], Unlocked(x), rq.dyn[x] # Dyn(x),
                 ~ (tick.i + 1 < rq.dyn[x])
          PROVE  /\ rq.dyn[x] = tick.i + 1 /\ rq.head[tick.i + 1] # NULL
                 /\ pos[rq.head[tick.i + 1]] <= pos[x]
      <4>1. tick.i < rq.dyn[x]
        BY <2>2, <2>6, <3>5, Zenon DEF ScanOK
      <4>2. rq.dyn[x] \in Int
        BY <1>q, <3>3, Zenon
      <4>3. rq.dyn[x] = tick.i + 1
        BY <3>3, <3>5, <4>1, <4>2
      <4>. QED
        BY <1>p, <3>5, <4>3, Zenon DEF Ordered
    <3>6. ScanOK(pos)' /\ ~ RunqFree'
      BY <2>1, <2>3, <3>2, <3>4, <3>5, Zenon DEF ScanOK, RunqFree
    <3>. QED
      BY <1>p, <2>1, <3>6, Zenon DEF FInv, Fresh
  <2>7. CASE tick.p = NULL /\ ~ (tick.i < RUNQ_LEN - 1)
    <3>1. tick' = [tick EXCEPT !.pc = "cpu", !.i = 0]
      BY <1>11, <2>7, Zenon DEF tick_scan
    <3>2. RunqFree'
      BY <2>2, <3>1, Zenon DEF TickType, RunqFree
    <3>3. \A x \in Proc : ~ (tick.i < rq.dyn[x])
      BY <1>q, <2>2, <2>7, RunqConstants DEF TickType, Level
    <3>4. BucketFresh'
      BY <2>1, <2>2, <2>3, <2>7, <3>3, Zenon DEF BucketFresh, ScanOK
    <3>. QED
      BY <1>p, <2>1, <3>2, <3>4, Zenon DEF FInv, Fresh
  <2>. QED
    BY <2>4, <2>5, <2>6, <2>7, Zenon
<1>12. ASSUME tick_move PROVE FInv'
  <2>. DEFINE p == tick.p
              q == runq_remove(rq, p)
  <2>1. ScanOK(pos) /\ tick \in TickType /\ tick.pc = "move"
    BY <1>12, <1>p, <1>t, Zenon DEF tick_move, Fresh, RunqFree, TypeOK
  <2>2. /\ p \in Proc /\ rq.on[p] /\ rq.dyn[p] = tick.i /\ tick.nx = rq.next[p]
    BY <2>1, Zenon DEF ScanOK, TickType, ProcOrNull
  <2>3. /\ rq' = runq_enqueue(q, p, Dyn(p))
        /\ tick' = [tick EXCEPT !.pc = "scan", !.p = tick.nx, !.nx = NULL]
        /\ UNCHANGED <<priority, wait_time, cpu_time, setp>>
    BY <1>12, Zenon DEF tick_move
  <2>4. tick'.pc = "scan" /\ tick'.p = rq.next[p] /\ tick'.i = tick.i
    BY <2>1, <2>2, <2>3, Zenon DEF TickType
  <2>5. QueueOK(q) /\ q.on = [rq.on EXCEPT ![p] = FALSE]
    BY <1>q, <2>2, RemoveOK, Zenon
  <2>6. q.dyn = rq.dyn /\ Ordered(q, pos)
    BY <1>p, <1>q, <2>2, RemoveOrdered, Zenon
  <2>. HIDE DEF q
  <2>7. ~ q.on[p] /\ Dyn(p) \in Level
    BY <1>d, <1>q, <2>2, <2>5, Zenon
  <2>8. rq'.on = [q.on EXCEPT ![p] = TRUE]
    BY <2>2, <2>3, <2>5, <2>7, EnqueueOK
  <2>9. rq'.dyn = [q.dyn EXCEPT ![p] = Dyn(p)]
    BY <2>2, <2>3, <2>5, <2>6, <2>7, EnqueueOrdered
  <2>10. PICK new \in [Proc -> Int] :
           Ordered(rq', new) /\ \A x \in Proc : x # p => new[x] = pos[x]
    <3>. DEFINE last == Last(q, pos, p, Dyn(p))
    <3>1. last \in [Proc -> Int] /\ Ordered(rq', last)
      BY <2>2, <2>3, <2>5, <2>6, <2>7, EnqueueOrdered, Zenon
    <3>2. \A x \in Proc : x # p => last[x] = pos[x]
      BY <2>2, Zenon DEF Last
    <3>. HIDE DEF last
    <3>. QED
      BY <3>1, <3>2, Zenon
  <2>11. \A x \in Proc : Dyn(x)' = Dyn(x) /\ Unlocked(x)' = Unlocked(x)
    BY <2>3, Zenon DEF Dyn, Unlocked
  <2>12. /\ rq'.dyn[p] = Dyn(p) /\ rq'.on[p]
         /\ \A x \in Proc : x # p => rq'.dyn[x] = rq.dyn[x] /\ rq'.on[x] = rq.on[x]
    BY <1>q, <2>2, <2>5, <2>6, <2>8, <2>9
  <2>13. rq.next[p] # NULL =>
           /\ rq.next[p] \in Proc /\ rq.next[p] # p /\ rq.on[rq.next[p]]
           /\ rq.dyn[rq.next[p]] = tick.i
    BY <1>p, <1>q, <2>2 DEF QueueOK, LinksOK, RQType, ProcOrNull, Ordered
  <2>14. ASSUME NEW x \in Proc, rq'.on[x], Unlocked(x)', rq'.dyn[x] # Dyn(x)',
                ~ (tick.i < rq'.dyn[x])
         PROVE  rq'.dyn[x] = tick.i /\ rq.next[p] # NULL /\ new[rq.next[p]] <= new[x]
    <3>1. x # p /\ rq.on[x] /\ Unlocked(x) /\ rq.dyn[x] # Dyn(x) /\ ~ (tick.i < rq.dyn[x])
          /\ rq'.dyn[x] = rq.dyn[x]
      BY <2>11, <2>12, <2>14, Zenon
    <3>2. rq.dyn[x] = tick.i /\ pos[p] <= pos[x]
      BY <2>1, <3>1, Zenon DEF ScanOK
    <3>3. pos[p] < pos[x]
      BY <1>p, <2>2, <3>1, <3>2 DEF Ordered
    <3>4. rq.next[p] # NULL /\ pos[rq.next[p]] <= pos[x]
      BY <1>p, <2>2, <3>1, <3>2, <3>3, Zenon DEF Ordered
    <3>. QED
      BY <2>10, <2>13, <3>1, <3>2, <3>4, Zenon
  <2>15. ScanOK(new)' /\ ~ RunqFree'
    BY <2>4, <2>12, <2>13, <2>14, Zenon DEF ScanOK, RunqFree
  <2>. QED
    BY <2>10, <2>15, Zenon DEF FInv, Fresh
<1>13. ASSUME tick_cpu PROVE FInv'
  <2>1. /\ UNCHANGED <<rq, priority, wait_time, setp>>
        /\ RunqFree /\ RunqFree'
    BY <1>13, <1>t, Zenon DEF tick_cpu, RunqFree, TypeOK, TickType
  <2>2. \A x \in Proc : rq.on[x] => cpu_time'[x] = cpu_time[x]
    <3>1. CASE cur[BOOTCPU] = NULL
      BY <1>13, <3>1, Zenon DEF tick_cpu
    <3>2. CASE cur[BOOTCPU] # NULL
      <4>1. cur[BOOTCPU] \in Proc /\ ~ rq.on[cur[BOOTCPU]]
        BY <1>n, <1>t, <3>2 DEF TypeOK, ProcOrNull, RunsOnOneHart, RunnableAccounted
      <4>2. cpu_time' = [cpu_time EXCEPT ![cur[BOOTCPU]] = Inc(@)]
        BY <1>13, <3>2, Zenon DEF tick_cpu
      <4>. QED
        BY <1>t, <4>1, <4>2, Zenon DEF TypeOK
    <3>. QED
      BY <3>1, <3>2, Zenon
  <2>. QED
    BY <1>a, <2>1, <2>2, Zenon DEF Dyn, Unlocked
<1>14. CASE UNCHANGED vars
  BY <1>14, <1>a, Zenon DEF vars, Dyn, Unlocked
<1>. QED
  BY <1>1, <1>2, <1>3, <1>4, <1>5, <1>6, <1>7, <1>8, <1>9, <1>10, <1>11, <1>12,
     <1>13, <1>14, Zenon DEF Next, sched_tick

\* Whenever runq_lock is free, every queued process that no setPriority() has locked is
\* filed under the level its priority, waiting time and CPU time call for: one walk of
\* sched_tick() along the lists it changes misses no node, and setPriority() refiles what
\* it changes behind the walk's back.
THEOREM BucketSafe == Spec => []BucketFresh
<1>1. IInv /\ FInv /\ [Next]_vars => (IInv /\ FInv)'
  BY NextIInv, NextFInv, Zenon
<1>2. FInv => BucketFresh
  BY Zenon DEF FInv, Fresh, BucketFresh
<1>. QED
  BY <1>1, <1>2, InitIInv, InitFInv, PTL DEF Spec
=============================================================================
