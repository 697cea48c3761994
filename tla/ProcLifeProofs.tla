--------------------------- MODULE ProcLifeProofs ---------------------------
(***************************************************************************)
(* Proofs about fork, exit, reparent, wait and kill (ProcLife.tla), for a  *)
(* process table of any size.                                              *)
(***************************************************************************)
EXTENDS ProcLife, TLAPS

ProcOrNull == Proc \cup {NULL}

\* The part of exit() after p->parent was copied; p is a ZOMBIE at "dead".
Exiting == {"exit_lock", "exit_self", "reparent", "exit_zombie", "dead"}

Label == Exiting \cup {"user", "exit_parent", "wait", "wait_end", "asleep"}

\* Every variable holds a value of its type.
TypeOK ==
  /\ state \in [Proc -> {"UNUSED", "SLEEPING", "RUNNABLE", "ZOMBIE"}]
  /\ parent \in [Proc -> ProcOrNull]
  /\ waits \in [Proc -> BOOLEAN]
  /\ killed \in [Proc -> BOOLEAN]
  /\ plock \in [Proc -> ProcOrNull]
  /\ pc \in [Proc -> Label]
  /\ orig \in [Proc -> ProcOrNull]
  /\ idx \in [Proc -> Proc]
  /\ havekids \in [Proc -> BOOLEAN]

\* Where a process is agrees with its state.
StateOK ==
  \A p \in Proc :
    /\ pc[p] = "user" => state[p] \in {"RUNNABLE", "UNUSED"}
    /\ pc[p] = "asleep" => state[p] \in {"RUNNABLE", "SLEEPING"}
    /\ pc[p] = "dead" => state[p] \in {"ZOMBIE", "UNUSED"}
    /\ pc[p] \notin {"user", "asleep", "dead"} => state[p] = "RUNNABLE"

\* init has no parent and never exits; the others have a parent, not themselves,
\* while they are in use.
TreeOK ==
  /\ state[initproc] # "UNUSED" /\ parent[initproc] = NULL
  /\ pc[initproc] \in {"user", "wait", "wait_end", "asleep"}
  /\ \A p \in Proc \ {initproc} :
       parent[p] # p /\ (parent[p] = NULL <=> state[p] = "UNUSED")

\* A process that has children can wait for them; in reparent(), those it still has
\* are in slots its loop will come to.
KidsOK ==
  \A p, x \in Proc :
    parent[x] = p => /\ state[p] \in {"RUNNABLE", "SLEEPING"}
                     /\ pc[p] # "exit_zombie"
                     /\ pc[p] = "reparent" => idx[p] <= x

\* original_parent is the parent, or the parent has become init.
OrigOK ==
  \A x \in Proc : pc[x] \in Exiting /\ state[x] # "UNUSED" =>
    orig[x] \in Proc \ {x} /\ parent[x] \in {orig[x], initproc}

\* The locks a process holds in wait() and exit().
LockOK ==
  \A p \in Proc :
    /\ pc[p] \in {"wait", "wait_end", "reparent", "exit_zombie"} => plock[p] = p
    /\ pc[p] \in {"exit_self", "reparent", "exit_zombie"} => plock[orig[p]] = p

\* A child that can be reaped and did not come to p by reparent().
Reapable(x, p) == state[x] = "ZOMBIE" /\ parent[x] = p /\ orig[x] = p

\* wait() has passed no such child.
ScanOK ==
  \A p, x \in Proc :
    /\ pc[p] = "wait" /\ x < idx[p] => ~ Reapable(x, p)
    /\ pc[p] = "wait_end" => ~ Reapable(x, p)

\* The inductive invariant.
IInv == /\ TypeOK /\ StateOK /\ TreeOK /\ KidsOK /\ OrigOK /\ LockOK /\ ScanOK
        /\ NoLostExit /\ FreedSlotIsQuiet

\* The process table with init alone in it satisfies the invariant.
LEMMA InitIInv == Init => IInv
<1>. SUFFICES ASSUME Init PROVE IInv
  BY Zenon
<1>. USE LifeConstants DEF Init, Proc, initproc
<1>1. TypeOK
  BY DEF TypeOK, ProcOrNull, Label
<1>2. StateOK
  BY Zenon DEF StateOK
<1>3. TreeOK
  BY DEF TreeOK
<1>4. KidsOK
  BY Zenon DEF KidsOK
<1>5. OrigOK
  BY Zenon DEF OrigOK, Exiting
<1>6. LockOK
  BY Zenon DEF LockOK
<1>7. ScanOK
  BY Zenon DEF ScanOK
<1>8. NoLostExit
  BY Zenon DEF NoLostExit
<1>9. FreedSlotIsQuiet
  BY Zenon DEF FreedSlotIsQuiet
<1>. QED
  BY <1>1, <1>2, <1>3, <1>4, <1>5, <1>6, <1>7, <1>8, <1>9, Zenon DEF IInv

\* Every step preserves the invariant; one step of the proof per action.
LEMMA NextIInv == IInv /\ [Next]_vars => IInv'
<1>. SUFFICES ASSUME IInv, [Next]_vars PROVE IInv'
  BY Zenon
<1>i. /\ TypeOK /\ StateOK /\ TreeOK /\ KidsOK /\ OrigOK /\ LockOK /\ ScanOK
      /\ NoLostExit /\ FreedSlotIsQuiet
  BY Zenon DEF IInv
<1>c. /\ NULL \notin Proc /\ initproc \in Proc /\ 1 \in Proc /\ NPROC \in Proc
      /\ \A x \in Proc : x \in Int /\ 1 <= x /\ x <= NPROC /\ (x # NPROC => x + 1 \in Proc)
  BY LifeConstants DEF Proc, initproc
<1>1. ASSUME NEW p \in Proc, exit_parent(p) PROVE IInv'
  <2>1. TypeOK'
    BY <1>i, <1>1, Zenon DEF exit_parent, Goto, TypeOK, Label, Exiting
  <2>2. StateOK'
    BY <1>i, <1>1 DEF exit_parent, At, Goto, StateOK
  <2>3. TreeOK'
    BY <1>i, <1>1 DEF exit_parent, At, Goto, TreeOK
  <2>4. KidsOK'
    BY <1>i, <1>1 DEF exit_parent, Goto, KidsOK
  <2>5. OrigOK'
    BY <1>i, <1>1 DEF exit_parent, At, Goto, TypeOK, TreeOK, OrigOK, ProcOrNull
  <2>6. LockOK'
    BY <1>i, <1>1, Zenon DEF exit_parent, Goto, TypeOK, LockOK
  <2>7. ScanOK'
    BY <1>i, <1>1 DEF exit_parent, At, Goto, ScanOK, Reapable
  <2>8. NoLostExit'
    BY <1>i, <1>1 DEF exit_parent, At, NoLostExit
  <2>9. FreedSlotIsQuiet'
    BY <1>i, <1>1, Zenon DEF exit_parent, FreedSlotIsQuiet
  <2>. QED
    BY <2>1, <2>2, <2>3, <2>4, <2>5, <2>6, <2>7, <2>8, <2>9, Zenon DEF IInv
<1>2. ASSUME NEW p \in Proc, exit_lock(p) PROVE IInv'
  <2>1. TypeOK'
    BY <1>i, <1>2, Zenon DEF exit_lock, At, Goto, TypeOK, OrigOK, ProcOrNull, Label, Exiting
  <2>2. StateOK'
    BY <1>i, <1>2 DEF exit_lock, At, Goto, StateOK
  <2>3. TreeOK'
    BY <1>i, <1>2 DEF exit_lock, At, Goto, TreeOK
  <2>4. KidsOK'
    BY <1>i, <1>2 DEF exit_lock, Goto, KidsOK
  <2>5. OrigOK'
    BY <1>i, <1>2 DEF exit_lock, At, Goto, OrigOK, Exiting
  <2>6. LockOK'
    BY <1>i, <1>c, <1>2 DEF exit_lock, At, Goto, Free, TypeOK, OrigOK, LockOK, Exiting
  <2>7. ScanOK'
    BY <1>i, <1>2 DEF exit_lock, Goto, ScanOK, Reapable
  <2>8. NoLostExit'
    BY <1>i, <1>2, Zenon DEF exit_lock, NoLostExit
  <2>9. FreedSlotIsQuiet'
    BY <1>i, <1>2 DEF exit_lock, At, FreedSlotIsQuiet
  <2>. QED
    BY <2>1, <2>2, <2>3, <2>4, <2>5, <2>6, <2>7, <2>8, <2>9, Zenon DEF IInv
<1>3. ASSUME NEW p \in Proc, exit_self(p) PROVE IInv'
  <2>1. TypeOK'
    BY <1>i, <1>c, <1>3, Zenon DEF exit_self, Goto, TypeOK, ProcOrNull, Label, Exiting
  <2>2. StateOK'
    BY <1>i, <1>3 DEF exit_self, At, Goto, StateOK
  <2>3. TreeOK'
    BY <1>i, <1>3 DEF exit_self, At, Goto, TreeOK
  <2>4. KidsOK'
    BY <1>i, <1>c, <1>3, Zenon DEF exit_self, Goto, TypeOK, KidsOK
  <2>5. OrigOK'
    BY <1>i, <1>3 DEF exit_self, At, Goto, OrigOK, Exiting
  <2>6. LockOK'
    BY <1>i, <1>c, <1>3 DEF exit_self, At, Goto, Free, TypeOK, LockOK
  <2>7. ScanOK'
    BY <1>i, <1>c, <1>3 DEF exit_self, Goto, ScanOK, FreedSlotIsQuiet, Reapable
  <2>8. NoLostExit'
    BY <1>i, <1>3, Zenon DEF exit_self, NoLostExit
  <2>9. FreedSlotIsQuiet'
    BY <1>i, <1>3 DEF exit_self, At, FreedSlotIsQuiet
  <2>. QED
    BY <2>1, <2>2, <2>3, <2>4, <2>5, <2>6, <2>7, <2>8, <2>9, Zenon DEF IInv
<1>4. ASSUME NEW p \in Proc, reparent(p) PROVE IInv'
  <2>1. TypeOK'
    BY <1>i, <1>c, <1>4, Zenon DEF reparent, Goto, TypeOK, ProcOrNull, Label, Exiting
  <2>2. StateOK'
    BY <1>i, <1>4 DEF reparent, At, Goto, StateOK
  <2>3. TreeOK'
    BY <1>i, <1>c, <1>4 DEF reparent, At, Goto, TreeOK
  <2>4. KidsOK'
    <3>1. state[initproc] \in {"RUNNABLE", "SLEEPING"} /\ p # initproc
      BY <1>i, <1>c, <1>4, Zenon DEF reparent, At, TreeOK, StateOK
    <3>2. /\ \A x \in Proc : parent'[x] = p => parent[x] = p /\ x # idx[p]
          /\ \A x \in Proc : parent'[x] # initproc => parent'[x] = parent[x]
      BY <1>i, <1>4, <3>1, Zenon DEF reparent, TypeOK
    <3>3. /\ idx'[p] = IF idx[p] = NPROC THEN 1 ELSE idx[p] + 1
          /\ pc'[p] = IF idx[p] = NPROC THEN "exit_zombie" ELSE "reparent"
          /\ \A y \in Proc : y # p => pc'[y] = pc[y] /\ idx'[y] = idx[y]
          /\ state' = state
      BY <1>i, <1>4, Zenon DEF reparent, Goto, TypeOK
    <3>4. ASSUME NEW x \in Proc, parent'[x] = p
          PROVE  idx[p] # NPROC /\ idx[p] + 1 <= x
      <4>1. idx[p] <= x /\ idx[p] # x /\ idx[p] \in Proc
        BY <1>i, <1>4, <3>2, <3>4, Zenon DEF reparent, At, KidsOK, TypeOK
      <4>. QED
        BY <1>c, <4>1
    <3>5. pc[initproc] \notin {"reparent", "exit_zombie"}
      BY <1>i, Zenon DEF TreeOK
    <3>. QED
      BY <1>i, <3>1, <3>2, <3>3, <3>4, <3>5 DEF KidsOK
  <2>5. OrigOK'
    BY <1>i, <1>4 DEF reparent, At, Goto, OrigOK, Exiting
  <2>6. LockOK'
    BY <1>i, <1>4 DEF reparent, At, Goto, LockOK
  <2>7. ScanOK'
    BY <1>i, <1>4
       DEF reparent, Goto, TypeOK, StateOK, KidsOK, OrigOK, ScanOK, Exiting, Reapable
  <2>8. NoLostExit'
    BY <1>i, <1>4 DEF reparent, StateOK, OrigOK, NoLostExit, Exiting
  <2>9. FreedSlotIsQuiet'
    BY <1>i, <1>4, Zenon DEF reparent, FreedSlotIsQuiet
  <2>. QED
    BY <2>1, <2>2, <2>3, <2>4, <2>5, <2>6, <2>7, <2>8, <2>9, Zenon DEF IInv
<1>5. ASSUME NEW p \in Proc, exit_zombie(p) PROVE IInv'
  <2>1. TypeOK'
    BY <1>i, <1>c, <1>5, Zenon
       DEF exit_zombie, At, Goto, Free, Wakeup1, TypeOK, StateOK, TreeOK, KidsOK,
           OrigOK, LockOK, ScanOK, NoLostExit, FreedSlotIsQuiet, ProcOrNull, Label,
           Exiting, Reapable
  <2>2. StateOK'
    BY <1>i, <1>5, Zenon DEF exit_zombie, Goto, Wakeup1, TypeOK, StateOK
  <2>3. TreeOK'
    BY <1>i, <1>c, <1>5, Zenon DEF exit_zombie, At, Goto, Wakeup1, TypeOK, TreeOK
  <2>4. KidsOK'
    BY <1>i, <1>5, Zenon DEF exit_zombie, At, Goto, Wakeup1, TypeOK, KidsOK, ProcOrNull
  <2>5. OrigOK'
    BY <1>i, <1>5, Zenon DEF exit_zombie, At, Goto, Wakeup1, TypeOK, OrigOK, Exiting
  <2>6. LockOK'
    BY <1>i, <1>5 DEF exit_zombie, At, Goto, TypeOK, LockOK
  <2>7. ScanOK'
    BY <1>i, <1>5 DEF exit_zombie, At, Goto, Wakeup1, TypeOK, LockOK, ScanOK, Reapable
  <2>8. NoLostExit'
    BY <1>i, <1>5
       DEF exit_zombie, At, Wakeup1, TypeOK, StateOK, OrigOK, NoLostExit, Exiting
  <2>9. FreedSlotIsQuiet'
    BY <1>i, <1>c, <1>5, Zenon DEF exit_zombie, Wakeup1, TypeOK, FreedSlotIsQuiet
  <2>. QED
    BY <2>1, <2>2, <2>3, <2>4, <2>5, <2>6, <2>7, <2>8, <2>9, Zenon DEF IInv
<1>6. ASSUME NEW p \in Proc, dead(p) PROVE IInv'
  <2>1. TypeOK'
    BY <1>i, <1>6, Zenon DEF dead, TypeOK, ProcOrNull
  <2>2. StateOK'
    BY <1>i, <1>6, Zenon DEF dead, StateOK
  <2>3. TreeOK'
    BY <1>i, <1>6, Zenon DEF dead, TreeOK
  <2>4. KidsOK'
    BY <1>i, <1>6, Zenon DEF dead, KidsOK
  <2>5. OrigOK'
    BY <1>i, <1>6, Zenon DEF dead, OrigOK
  <2>6. LockOK'
    BY <1>i, <1>6 DEF dead, LockOK
  <2>7. ScanOK'
    BY <1>i, <1>6, Zenon DEF dead, ScanOK, Reapable
  <2>8. NoLostExit'
    BY <1>i, <1>6, Zenon DEF dead, NoLostExit
  <2>9. FreedSlotIsQuiet'
    BY <1>i, <1>6 DEF dead, FreedSlotIsQuiet
  <2>. QED
    BY <2>1, <2>2, <2>3, <2>4, <2>5, <2>6, <2>7, <2>8, <2>9, Zenon DEF IInv
<1>7. ASSUME NEW p \in Proc, wait(p) PROVE IInv'
  <2>1. TypeOK'
    BY <1>i, <1>c, <1>7, Zenon DEF wait, Goto, TypeOK, ProcOrNull, Label
  <2>2. StateOK'
    BY <1>i, <1>7 DEF wait, At, Goto, StateOK
  <2>3. TreeOK'
    BY <1>i, <1>7 DEF wait, Goto, TreeOK
  <2>4. KidsOK'
    BY <1>i, <1>c, <1>7 DEF wait, Goto, KidsOK
  <2>5. OrigOK'
    BY <1>i, <1>7 DEF wait, Goto, OrigOK, Exiting
  <2>6. LockOK'
    BY <1>i, <1>c, <1>7 DEF wait, Goto, Free, TypeOK, LockOK
  <2>7. ScanOK'
    <3>1. \A x \in Proc : ~ (x < 1)
      BY <1>c
    <3>. QED
      BY <1>i, <1>7, <3>1, Zenon DEF wait, Goto, TypeOK, ScanOK, Reapable
  <2>8. NoLostExit'
    BY <1>i, <1>7 DEF wait, NoLostExit
  <2>9. FreedSlotIsQuiet'
    BY <1>i, <1>7 DEF wait, At, FreedSlotIsQuiet
  <2>. QED
    BY <2>1, <2>2, <2>3, <2>4, <2>5, <2>6, <2>7, <2>8, <2>9, Zenon DEF IInv
<1>8. ASSUME NEW p \in Proc, wait_scan(p) PROVE IInv'
  <2>. DEFINE q == idx[p]
  <2>a. /\ q \in Proc /\ state[p] = "RUNNABLE" /\ pc[p] = "wait"
        /\ parent[q] = p => plock[q] = NULL
    BY <1>i, <1>8, Zenon DEF wait_scan, At, Free, TypeOK
  <2>1. CASE parent[q] = p /\ state[q] = "ZOMBIE" /\ freeproc(p, q)
    <3>0. /\ \A y \in Proc : pc'[y] = IF y = p \/ y = q THEN "user" ELSE pc[y]
          /\ \A y \in Proc : idx'[y] = IF y = p THEN 1 ELSE idx[y]
      BY <1>i, <2>a, <2>1 DEF freeproc, TypeOK
    <3>1. TypeOK'
      BY <1>i, <1>c, <2>a, <2>1, Zenon DEF freeproc, TypeOK, ProcOrNull, Label
    <3>2. StateOK'
      BY <1>i, <2>a, <2>1, <3>0 DEF freeproc, TypeOK, StateOK
    <3>3. TreeOK'
      BY <1>i, <1>c, <2>1, <3>0 DEF freeproc, TypeOK, TreeOK
    <3>4. KidsOK'
      BY <1>i, <1>c, <2>1, <3>0 DEF freeproc, TypeOK, KidsOK
    <3>5. OrigOK'
      BY <1>i, <2>1, <3>0 DEF freeproc, TypeOK, OrigOK, Exiting
    <3>6. LockOK'
      BY <1>i, <2>a, <2>1, <3>0 DEF freeproc, TypeOK, StateOK, KidsOK, LockOK
    <3>7. ScanOK'
      BY <1>i, <1>c, <2>a, <2>1, <3>0 DEF freeproc, TypeOK, ScanOK, Reapable
    <3>8. NoLostExit'
      BY <1>i, <2>1 DEF freeproc, TypeOK, NoLostExit
    <3>9. FreedSlotIsQuiet'
      BY <1>i, <1>c, <2>a, <2>1 DEF freeproc, FreedSlotIsQuiet
    <3>. QED
      BY <3>1, <3>2, <3>3, <3>4, <3>5, <3>6, <3>7, <3>8, <3>9, Zenon DEF IInv
  <2>2. CASE /\ plock' = [plock EXCEPT ![p] = NULL]
             /\ Goto(p, "user")
             /\ idx' = [idx EXCEPT ![p] = 1]
             /\ havekids' = [havekids EXCEPT ![p] = FALSE]
             /\ UNCHANGED <<state, parent, waits, killed, orig>>
    <3>1. TypeOK'
      BY <1>i, <1>c, <2>2, Zenon DEF Goto, TypeOK, ProcOrNull, Label
    <3>2. StateOK'
      BY <1>i, <2>a, <2>2 DEF Goto, StateOK
    <3>3. TreeOK'
      BY <1>i, <2>2 DEF Goto, TreeOK
    <3>4. KidsOK'
      BY <1>i, <2>a, <2>2 DEF Goto, TypeOK, KidsOK
    <3>5. OrigOK'
      BY <1>i, <2>2 DEF Goto, OrigOK, Exiting
    <3>6. LockOK'
      BY <1>i, <2>a, <2>2 DEF Goto, TypeOK, LockOK
    <3>7. ScanOK'
      BY <1>i, <2>a, <2>2 DEF Goto, TypeOK, ScanOK, Reapable
    <3>8. NoLostExit'
      BY <1>i, <2>2, Zenon DEF NoLostExit
    <3>9. FreedSlotIsQuiet'
      BY <1>i, <2>a, <2>2 DEF FreedSlotIsQuiet
    <3>. QED
      BY <3>1, <3>2, <3>3, <3>4, <3>5, <3>6, <3>7, <3>8, <3>9, Zenon DEF IInv
  <2>3. CASE /\ ~ (parent[q] = p /\ state[q] = "ZOMBIE")
             /\ havekids' = [havekids EXCEPT ![p] = @ \/ parent[q] = p]
             /\ idx' = [idx EXCEPT ![p] = IF @ = NPROC THEN 1 ELSE @ + 1]
             /\ Goto(p, IF q = NPROC THEN "wait_end" ELSE "wait")
             /\ UNCHANGED <<state, parent, waits, killed, plock, orig>>
    <3>1. TypeOK'
      BY <1>i, <1>c, <2>3, Zenon DEF Goto, TypeOK, Label
    <3>2. StateOK'
      BY <1>i, <2>a, <2>3 DEF Goto, StateOK
    <3>3. TreeOK'
      BY <1>i, <2>3 DEF Goto, TreeOK
    <3>4. KidsOK'
      BY <1>i, <2>a, <2>3 DEF Goto, KidsOK
    <3>5. OrigOK'
      BY <1>i, <2>3 DEF Goto, OrigOK, Exiting
    <3>6. LockOK'
      BY <1>i, <2>a, <2>3 DEF Goto, LockOK
    <3>7. ScanOK'
      <4>1. /\ idx'[p] = IF q = NPROC THEN 1 ELSE q + 1
            /\ pc'[p] = IF q = NPROC THEN "wait_end" ELSE "wait"
            /\ \A y \in Proc : y # p => pc'[y] = pc[y] /\ idx'[y] = idx[y]
            /\ \A x, y \in Proc : Reapable(x, y)' <=> Reapable(x, y)
        BY <1>i, <2>3, Zenon DEF Goto, TypeOK, Reapable
      <4>2. \A x \in Proc : x < q + 1 => ~ Reapable(x, p)
        <5>1. \A x \in Proc : x < q + 1 => x < q \/ x = q
          <6>1. q \in Int /\ \A x \in Proc : x \in Int
            BY <1>c, <2>a, Zenon
          <6>. QED
            BY <6>1
        <5>. QED
          BY <1>i, <2>a, <2>3, <5>1, Zenon DEF ScanOK, Reapable
      <4>. QED
        BY <1>i, <1>c, <4>1, <4>2 DEF ScanOK
    <3>8. NoLostExit'
      BY <1>i, <2>3, Zenon DEF NoLostExit
    <3>9. FreedSlotIsQuiet'
      BY <1>i, <2>3, Zenon DEF FreedSlotIsQuiet
    <3>. QED
      BY <3>1, <3>2, <3>3, <3>4, <3>5, <3>6, <3>7, <3>8, <3>9, Zenon DEF IInv
  <2>. QED
    BY <1>8, <2>1, <2>2, <2>3, Zenon DEF wait_scan
<1>9. ASSUME NEW p \in Proc, wait_end(p) PROVE IInv'
  <2>1. TypeOK'
    BY <1>i, <1>c, <1>9, Zenon DEF wait_end, Goto, TypeOK, ProcOrNull, Label, Exiting
  <2>2. StateOK'
    BY <1>i, <1>9 DEF wait_end, At, Goto, TypeOK, StateOK, OrigOK
  <2>3. TreeOK'
    BY <1>i, <1>c, <1>9 DEF wait_end, At, Goto, TypeOK, TreeOK
  <2>4. KidsOK'
    BY <1>i, <1>9 DEF wait_end, Goto, TypeOK, KidsOK
  <2>5. OrigOK'
    BY <1>i, <1>9 DEF wait_end, Goto, TypeOK, OrigOK, Exiting
  <2>6. LockOK'
    BY <1>i, <1>9 DEF wait_end, At, Goto, TypeOK, LockOK
  <2>7. ScanOK'
    BY <1>i, <1>9 DEF wait_end, Goto, TypeOK, ScanOK, Reapable
  <2>8. NoLostExit'
    BY <1>i, <1>9
       DEF wait_end, At, TypeOK, StateOK, TreeOK, LockOK, ScanOK, NoLostExit,
           FreedSlotIsQuiet, ProcOrNull, Label, Exiting, Reapable
  <2>9. FreedSlotIsQuiet'
    BY <1>i, <1>c, <1>9, Zenon DEF wait_end, TypeOK, FreedSlotIsQuiet
  <2>. QED
    BY <2>1, <2>2, <2>3, <2>4, <2>5, <2>6, <2>7, <2>8, <2>9, Zenon DEF IInv
<1>10. ASSUME NEW p \in Proc, exit(p) PROVE IInv'
  <2>1. TypeOK'
    BY <1>i, <1>c, <1>10, Zenon DEF exit, Goto, Wakeup1, TypeOK, Label
  <2>2. StateOK'
    BY <1>i, <1>10 DEF exit, At, Goto, Wakeup1, StateOK
  <2>3. TreeOK'
    BY <1>i, <1>10 DEF exit, Goto, Wakeup1, TreeOK
  <2>4. KidsOK'
    BY <1>i, <1>10 DEF exit, Goto, Wakeup1, KidsOK
  <2>5. OrigOK'
    BY <1>i, <1>10 DEF exit, Goto, Wakeup1, OrigOK, Exiting
  <2>6. LockOK'
    BY <1>i, <1>10 DEF exit, Goto, LockOK
  <2>7. ScanOK'
    BY <1>i, <1>10 DEF exit, Goto, Wakeup1, ScanOK, Reapable
  <2>8. NoLostExit'
    BY <1>i, <1>10 DEF exit, Wakeup1, NoLostExit
  <2>9. FreedSlotIsQuiet'
    BY <1>i, <1>10 DEF exit, Wakeup1, FreedSlotIsQuiet
  <2>. QED
    BY <2>1, <2>2, <2>3, <2>4, <2>5, <2>6, <2>7, <2>8, <2>9, Zenon DEF IInv
<1>11. ASSUME NEW p \in Proc, NEW q \in Proc, fork(p, q) PROVE IInv'
  <2>1. TypeOK'
    BY <1>i, <1>11, Zenon DEF fork, TypeOK, ProcOrNull, Label
  <2>2. StateOK'
    BY <1>i, <1>11, Zenon DEF fork, TypeOK, StateOK
  <2>3. TreeOK'
    BY <1>i, <1>c, <1>11, Zenon DEF fork, At, TypeOK, TreeOK
  <2>4. KidsOK'
    BY <1>i, <1>11 DEF fork, At, KidsOK
  <2>5. OrigOK'
    BY <1>i, <1>11, Zenon DEF fork, TypeOK, OrigOK, Exiting
  <2>6. LockOK'
    BY <1>i, <1>11 DEF fork, LockOK
  <2>7. ScanOK'
    BY <1>i, <1>11 DEF fork, ScanOK, Reapable
  <2>8. NoLostExit'
    BY <1>i, <1>11 DEF fork, NoLostExit
  <2>9. FreedSlotIsQuiet'
    BY <1>i, <1>11 DEF fork, FreedSlotIsQuiet
  <2>. QED
    BY <2>1, <2>2, <2>3, <2>4, <2>5, <2>6, <2>7, <2>8, <2>9, Zenon DEF IInv
<1>12. ASSUME NEW p \in Proc, NEW q \in Proc, kill(p, q) PROVE IInv'
  <2>1. TypeOK'
    BY <1>i, <1>12, Zenon DEF kill, TypeOK
  <2>2. StateOK'
    BY <1>i, <1>12 DEF kill, StateOK
  <2>3. TreeOK'
    BY <1>i, <1>12 DEF kill, TreeOK
  <2>4. KidsOK'
    BY <1>i, <1>12 DEF kill, KidsOK
  <2>5. OrigOK'
    BY <1>i, <1>12 DEF kill, OrigOK
  <2>6. LockOK'
    BY <1>i, <1>12, Zenon DEF kill, LockOK
  <2>7. ScanOK'
    BY <1>i, <1>12 DEF kill, ScanOK, Reapable
  <2>8. NoLostExit'
    BY <1>i, <1>12 DEF kill, NoLostExit
  <2>9. FreedSlotIsQuiet'
    BY <1>i, <1>12 DEF kill, FreedSlotIsQuiet
  <2>. QED
    BY <2>1, <2>2, <2>3, <2>4, <2>5, <2>6, <2>7, <2>8, <2>9, Zenon DEF IInv
<1>13. CASE UNCHANGED vars
  BY <1>13
     DEF IInv, vars, TypeOK, StateOK, TreeOK, KidsOK, OrigOK, LockOK, ScanOK,
         NoLostExit, FreedSlotIsQuiet, Reapable
<1>. QED
  BY <1>1, <1>2, <1>3, <1>4, <1>5, <1>6, <1>7, <1>8, <1>9, <1>10, <1>11, <1>12, <1>13, Zenon
     DEF Next, Exit, Wait

\* The invariant holds in every reachable state.
LEMMA Invariance == Spec => []IInv
<1>. QED
  BY InitIInv, NextIInv, PTL DEF Spec

\* While processes fork, exit, are killed and are reaped in any order, a process always
\* has a parent that has not exited: what exit() leaves, reparent() gives to init before
\* the process becomes a ZOMBIE.
THEOREM ParentSafe == Spec => []ParentAlive
<1>1. IInv => ParentAlive
  <2>. SUFFICES ASSUME IInv, NEW p \in Proc \ {initproc}, state[p] # "UNUSED"
                PROVE  parent[p] # NULL /\ state[parent[p]] \in {"RUNNABLE", "SLEEPING"}
    BY Zenon DEF ParentAlive
  <2>1. parent[p] # NULL /\ parent[p] \in Proc
    BY Zenon DEF IInv, TreeOK, TypeOK, ProcOrNull
  <2>. QED
    BY <2>1, Zenon DEF IInv, KidsOK
<1>. QED
  BY <1>1, Invariance, PTL

\* exit()'s wakeup of the parent is not lost: wait() has no ZOMBIE of its own to reap when
\* it goes to sleep, and none appears between its scan of the table and SLEEPING.
THEOREM ExitSafe == Spec => []NoLostExit
<1>1. IInv => NoLostExit
  BY Zenon DEF IInv
<1>. QED
  BY <1>1, Invariance, PTL

\* wait() frees a slot, and fork() takes it, only once the process that died in it has
\* left its kernel stack.
THEOREM FreedSafe == Spec => []FreedSlotIsQuiet
<1>1. IInv => FreedSlotIsQuiet
  BY Zenon DEF IInv
<1>. QED
  BY <1>1, Invariance, PTL
=============================================================================
