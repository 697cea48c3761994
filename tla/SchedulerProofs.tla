--------------------------- MODULE SchedulerProofs --------------------------
(***************************************************************************)
(* Proofs about Scheduler.tla for any number of processes and harts.       *)
(***************************************************************************)
EXTENDS Scheduler, TLAPS

\* Thread code that holds lk->lk, that holds cons.lock, and that holds p->lock.
InLk == {"check", "sleep", "asleep", "wakeup"}
InCons == {"write", "full", "txasleep", "panic"}
InPlock == {"forkret", "asleep", "woken", "yield", "yresume", "txasleep", "panic"}

\* Where harts and threads can be: a hart on its way in or out has a process,
\* no two harts have the same one, and a thread that no hart executes is at a
\* point where its context is saved.
CtlOK ==
  /\ \A c \in CPU : /\ spc[c] = "pick" <=> cur[c] = NULL
                    /\ spc[c] = "in" => pc[cur[c]] # "dead"
                    /\ spc[c] = "back" => pc[cur[c]] \in {"woken", "yresume", "dead"}
  /\ \A c, d \in CPU : /\ c # d
                       /\ spc[c] \in {"in", "back"} /\ spc[d] \in {"in", "back"}
                       => cur[c] # cur[d]
  /\ \A p \in Proc : \/ pc[p] \in ResumePoint \cup {"dead"}
                     \/ \E c \in CPU : spc[c] = "in" /\ cur[c] = p

\* Who holds the spinlocks.
LockOK ==
  /\ \A c \in CPU : lk = c <=> spc[c] = "in" /\ pc[cur[c]] \in InLk
  /\ \A c \in CPU : cons = c <=> spc[c] = "in" /\ pc[cur[c]] \in InCons
  /\ \A c \in CPU, p \in Proc :
       plock[p] = c <=> /\ cur[c] = p
                        /\ spc[c] = "back" \/ (spc[c] = "in" /\ pc[p] \in InPlock)

\* What p->state says about where the thread is.
StateOK ==
  /\ RunnableAccounted
  /\ \A p \in Proc :
       /\ state[p] = "RUNNING"
            <=> \E c \in CPU : spc[c] = "in" /\ cur[c] = p /\ pc[p] \notin {"yield", "panic"}
       /\ state[p] = "SLEEPING" => pc[p] = "panic" \/ (chan[p] /\ pc[p] = "woken")
       /\ pc[p] = "panic" => state[p] = "SLEEPING"
       /\ chan[p] => pc[p] = "woken"
       /\ state[p] = "ZOMBIE" <=> pc[p] = "dead"
       /\ state[p] = "RUNNABLE" => pc[p] \in ResumePoint \cup {"yield"}

\* The sleep lock; a thread decided to sleep only because the lock was taken.
SleepOK ==
  /\ SleepLockMutex /\ NoLostWakeup
  /\ \A p \in Proc : pc[p] \in {"sleep", "asleep"} => locked

IInv == TypeOK /\ CtlOK /\ LockOK /\ StateOK /\ SleepOK

-----------------------------------------------------------------------------
\* A step that neither takes nor frees the sleep lock, nor moves a wakeup() on.
LEMMA SameSleep ==
  ASSUME SleepOK, locked' = locked,
         \A q \in Proc : Holds(q)' <=> Holds(q),
         \A q \in Proc : state'[q] = "SLEEPING" /\ chan'[q]
                           => locked \/ (state[q] = "SLEEPING" /\ chan[q]),
         \A q \in Proc : pc[q] = "wakeup" => pc'[q] = "wakeup" /\ wake'[q] = wake[q],
         \A q \in Proc : pc'[q] \in {"sleep", "asleep"} => locked
  PROVE  SleepOK'
<1>1. SleepLockMutex'
  BY Zenon DEF SleepOK, SleepLockMutex
<1>2. NoLostWakeup'
  BY Zenon DEF SleepOK, NoLostWakeup
<1>. QED
  BY <1>1, <1>2, Zenon DEF SleepOK

\* The invariant holds at boot.
LEMMA InitIInv == Init => IInv
<1> SUFFICES ASSUME Init PROVE IInv
  BY Zenon
<1> USE SchedConstants DEF Init
<1>1. 1 \in 1 .. NPROC + 1
  OBVIOUS
<1>1a. TypeOK
  BY <1>1, Zenon DEF TypeOK, Interruptible
<1>2. CtlOK
  BY Zenon DEF CtlOK, ResumePoint
<1>3. LockOK
  BY Zenon DEF LockOK, InLk, InCons, InPlock
<1>4. StateOK
  BY Zenon DEF StateOK, RunnableAccounted, ResumePoint
<1>5. SleepOK
  BY Zenon DEF SleepOK, SleepLockMutex, NoLostWakeup, Holds
<1>. QED
  BY <1>1a, <1>2, <1>3, <1>4, <1>5, Zenon DEF IInv

\* A picked process leaves the queue and is nobody else's.
LEMMA pick_IInv ==
  ASSUME NEW c \in CPU, IInv, pick(c)
  PROVE  IInv'
<1> USE SchedConstants DEF IInv, pick
<1>1. TypeOK'
  BY Zenon DEF TypeOK
<1>2. CtlOK'
  BY
     DEF TypeOK, CtlOK, LockOK, StateOK, RunnableAccounted, ResumePoint, InLk, InCons, InPlock,
         Interruptible
<1>3. LockOK'
  BY
     DEF TypeOK, CtlOK, LockOK, StateOK, RunnableAccounted, ResumePoint, InLk, InCons, InPlock,
         Interruptible
<1>4. StateOK'
  BY
     DEF TypeOK, CtlOK, LockOK, StateOK, RunnableAccounted, ResumePoint, InLk, InCons, InPlock,
         Interruptible
<1>5. SleepOK'
  BY
     DEF TypeOK, CtlOK, LockOK, StateOK, SleepOK, SleepLockMutex, NoLostWakeup, Holds, InLk,
         InCons, Interruptible, Proc
<1>. QED
  BY <1>1, <1>2, <1>3, <1>4, <1>5, Zenon

\* A free p->lock means the picked thread's context is saved.
LEMMA dispatch_IInv ==
  ASSUME NEW c \in CPU, IInv, dispatch(c)
  PROVE  IInv'
<1> USE SchedConstants DEF IInv, dispatch
<1>1. TypeOK'
  BY DEF TypeOK, CtlOK
<1>2. CtlOK'
  BY
     DEF TypeOK, CtlOK, LockOK, StateOK, RunnableAccounted, ResumePoint, InLk, InCons, InPlock,
         Interruptible
<1>3. LockOK'
  BY
     DEF TypeOK, CtlOK, LockOK, StateOK, RunnableAccounted, ResumePoint, InLk, InCons, InPlock,
         Interruptible
<1>4. StateOK'
  BY
     DEF TypeOK, CtlOK, LockOK, StateOK, RunnableAccounted, ResumePoint, InLk, InCons, InPlock,
         Interruptible
<1>5. SleepOK'
  <2>1. \A q \in Proc : Holds(q)' <=> Holds(q)
    BY Zenon DEF TypeOK, Holds
  <2>2. \A q \in Proc : state'[q] = "SLEEPING" /\ chan'[q]
                          => locked \/ (state[q] = "SLEEPING" /\ chan[q])
    BY DEF TypeOK, SleepOK
  <2>3. \A q \in Proc : pc[q] = "wakeup" => pc'[q] = "wakeup" /\ wake'[q] = wake[q]
    BY Zenon DEF TypeOK
  <2>4. \A q \in Proc : pc'[q] \in {"sleep", "asleep"} => locked
    BY Zenon DEF TypeOK, SleepOK
  <2>. QED
    BY <2>1, <2>2, <2>3, <2>4, SameSleep, Zenon
<1>. QED
  BY <1>1, <1>2, <1>3, <1>4, <1>5, Zenon

\* scheduler() releases the lock the thread took before swtch.
LEMMA back_IInv ==
  ASSUME NEW c \in CPU, IInv, back(c)
  PROVE  IInv'
<1> USE SchedConstants DEF IInv, back
<1>1. TypeOK'
  BY Zenon DEF TypeOK
<1>2. CtlOK'
  BY
     DEF TypeOK, CtlOK, LockOK, StateOK, RunnableAccounted, ResumePoint, InLk, InCons, InPlock,
         Interruptible
<1>3. LockOK'
  BY
     DEF TypeOK, CtlOK, LockOK, StateOK, RunnableAccounted, ResumePoint, InLk, InCons, InPlock,
         Interruptible
<1>4. StateOK'
  BY
     DEF TypeOK, CtlOK, LockOK, StateOK, RunnableAccounted, ResumePoint, InLk, InCons, InPlock,
         Interruptible
<1>5. SleepOK'
  BY
     DEF TypeOK, CtlOK, LockOK, StateOK, SleepOK, SleepLockMutex, NoLostWakeup, Holds, InLk,
         InCons, Interruptible, Proc
<1>. QED
  BY <1>1, <1>2, <1>3, <1>4, <1>5, Zenon

\* forkret() releases the lock the scheduler took.
LEMMA forkret_IInv ==
  ASSUME NEW c \in CPU, NEW p \in Proc, IInv, forkret(c, p)
  PROVE  IInv'
<1> USE SchedConstants DEF IInv, forkret, At, Goto
<1>1. TypeOK'
  BY Zenon DEF TypeOK
<1>2. CtlOK'
  BY
     DEF TypeOK, CtlOK, LockOK, StateOK, RunnableAccounted, ResumePoint, InLk, InCons, InPlock,
         Interruptible
<1>3. LockOK'
  BY
     DEF TypeOK, CtlOK, LockOK, StateOK, RunnableAccounted, ResumePoint, InLk, InCons, InPlock,
         Interruptible
<1>4. StateOK'
  BY
     DEF TypeOK, CtlOK, LockOK, StateOK, RunnableAccounted, ResumePoint, InLk, InCons, InPlock,
         Interruptible
<1>5. SleepOK'
  BY
     DEF TypeOK, CtlOK, LockOK, StateOK, SleepOK, SleepLockMutex, NoLostWakeup, Holds, InLk,
         InCons, Interruptible, Proc
<1>. QED
  BY <1>1, <1>2, <1>3, <1>4, <1>5, Zenon

\* The spinlock of the sleep lock is free before it is taken.
LEMMA acquiresleep_IInv ==
  ASSUME NEW c \in CPU, NEW p \in Proc, IInv, acquiresleep(c, p)
  PROVE  IInv'
<1> USE SchedConstants DEF IInv, acquiresleep, At, Goto
<1>1. TypeOK'
  BY Zenon DEF TypeOK
<1>2. CtlOK'
  BY
     DEF TypeOK, CtlOK, LockOK, StateOK, RunnableAccounted, ResumePoint, InLk, InCons, InPlock,
         Interruptible
<1>3. LockOK'
  BY
     DEF TypeOK, CtlOK, LockOK, StateOK, RunnableAccounted, ResumePoint, InLk, InCons, InPlock,
         Interruptible
<1>4. StateOK'
  BY
     DEF TypeOK, CtlOK, LockOK, StateOK, RunnableAccounted, ResumePoint, InLk, InCons, InPlock,
         Interruptible
<1>5. SleepOK'
  BY
     DEF TypeOK, CtlOK, LockOK, StateOK, SleepOK, SleepLockMutex, NoLostWakeup, Holds, InLk,
         InCons, Interruptible, Proc
<1>. QED
  BY <1>1, <1>2, <1>3, <1>4, <1>5, Zenon

\* A taken lock leads to sleep, a free one is taken.
LEMMA acquiresleep_check_IInv ==
  ASSUME NEW c \in CPU, NEW p \in Proc, IInv, acquiresleep_check(c, p)
  PROVE  IInv'
<1> USE SchedConstants DEF IInv, acquiresleep_check, At, Goto
<1>1. TypeOK'
  BY ZenonT(40) DEF TypeOK
<1>2. CtlOK'
  BY
     DEF TypeOK, CtlOK, LockOK, StateOK, RunnableAccounted, ResumePoint, InLk, InCons, InPlock,
         Interruptible
<1>3. LockOK'
  BY
     DEF TypeOK, CtlOK, LockOK, StateOK, RunnableAccounted, ResumePoint, InLk, InCons, InPlock,
         Interruptible
<1>4. StateOK'
  BY
     DEF TypeOK, CtlOK, LockOK, StateOK, RunnableAccounted, ResumePoint, InLk, InCons, InPlock,
         Interruptible
<1>5. SleepOK'
  <2>1. CASE locked
    BY <2>1 DEF TypeOK, SleepOK, SleepLockMutex, NoLostWakeup, Holds
  <2>2. CASE ~ locked
    <3>1. /\ locked' /\ state' = state /\ ret' = ret
          /\ pc' = [pc EXCEPT ![p] = "crit"]
      BY <2>2, Zenon
    <3>2. \A q \in Proc : ~ Holds(q)
      BY <2>2, Zenon DEF SleepOK, SleepLockMutex
    <3>3. Holds(p)' /\ \A q \in Proc : q # p => ~ Holds(q)'
      BY <3>1, <3>2, Zenon DEF TypeOK, Holds
    <3>. QED
      BY <3>1, <3>3, Zenon DEF SleepOK, SleepLockMutex, NoLostWakeup
  <2>. QED
    BY <2>1, <2>2, Zenon DEF TypeOK
<1>. QED
  BY <1>1, <1>2, <1>3, <1>4, <1>5, Zenon

\* sleep() holds both locks until it releases lk->lk.
LEMMA sleep_IInv ==
  ASSUME NEW c \in CPU, NEW p \in Proc, IInv, sleep(c, p)
  PROVE  IInv'
<1> USE SchedConstants DEF IInv, sleep, At, Goto
<1>1. TypeOK'
  BY Zenon DEF TypeOK
<1>2. CtlOK'
  BY
     DEF TypeOK, CtlOK, LockOK, StateOK, RunnableAccounted, ResumePoint, InLk, InCons, InPlock,
         Interruptible
<1>3. LockOK'
  BY
     DEF TypeOK, CtlOK, LockOK, StateOK, RunnableAccounted, ResumePoint, InLk, InCons, InPlock,
         Interruptible
<1>4. StateOK'
  BY
     DEF TypeOK, CtlOK, LockOK, StateOK, RunnableAccounted, ResumePoint, InLk, InCons, InPlock,
         Interruptible
<1>5. SleepOK'
  <2>1. \A q \in Proc : Holds(q)' <=> Holds(q)
    BY ZenonT(40) DEF TypeOK, Holds
  <2>2. \A q \in Proc : state'[q] = "SLEEPING" /\ chan'[q]
                          => locked \/ (state[q] = "SLEEPING" /\ chan[q])
    BY DEF TypeOK, SleepOK
  <2>3. \A q \in Proc : pc[q] = "wakeup" => pc'[q] = "wakeup" /\ wake'[q] = wake[q]
    BY Zenon DEF TypeOK
  <2>4. \A q \in Proc : pc'[q] \in {"sleep", "asleep"} => locked
    BY Zenon DEF TypeOK, SleepOK
  <2>. QED
    BY <2>1, <2>2, <2>3, <2>4, SameSleep, Zenon
<1>. QED
  BY <1>1, <1>2, <1>3, <1>4, <1>5, Zenon

\* A process goes to sleep under p->lock while the lock is taken.
LEMMA sleep_sched_IInv ==
  ASSUME NEW c \in CPU, NEW p \in Proc, IInv, sleep_sched(c, p)
  PROVE  IInv'
<1> USE SchedConstants DEF IInv, sleep_sched, sched, At, Goto
<1>1. TypeOK'
  BY Zenon DEF TypeOK
<1>2. CtlOK'
  BY
     DEF TypeOK, CtlOK, LockOK, StateOK, RunnableAccounted, ResumePoint, InLk, InCons, InPlock,
         Interruptible
<1>3. LockOK'
  <2>1. CASE pc[p] = "asleep"
    <3>1. {q \in Proc : plock'[q] = c} = {p} /\ lk' # c /\ cons' # c
      BY <2>1 DEF TypeOK, LockOK, InLk, InCons, InPlock
    <3>2. spc' = [spc EXCEPT ![c] = "back"] /\ pc' = [pc EXCEPT ![p] = "woken"]
      BY <3>1 DEF TypeOK
    <3>. QED
      BY <2>1, <3>1, <3>2 DEF TypeOK, CtlOK, LockOK, InLk, InCons, InPlock
  <2>2. CASE pc[p] = "txasleep"
    <3>1. cons' = c /\ spc' = spc /\ pc' = [pc EXCEPT ![p] = "panic"] /\ lk' = lk
      BY <2>2 DEF LockOK, InCons
    <3>. QED
      BY <2>2, <3>1 DEF TypeOK, CtlOK, LockOK, InLk, InCons, InPlock
  <2>. QED
    BY <2>1, <2>2, Zenon
<1>4. StateOK'
  BY
     DEF TypeOK, CtlOK, LockOK, StateOK, RunnableAccounted, ResumePoint, InLk, InCons, InPlock,
         Interruptible
<1>5. SleepOK'
  <2>1. \A q \in Proc : Holds(q)' <=> Holds(q)
    BY ZenonT(40) DEF TypeOK, Holds
  <2>2. \A q \in Proc : state'[q] = "SLEEPING" /\ chan'[q]
                          => locked \/ (state[q] = "SLEEPING" /\ chan[q])
    BY DEF TypeOK, SleepOK, StateOK
  <2>3. \A q \in Proc : pc[q] = "wakeup" => pc'[q] = "wakeup" /\ wake'[q] = wake[q]
    BY Zenon DEF TypeOK
  <2>4. \A q \in Proc : pc'[q] \in {"sleep", "asleep"} => locked
    BY Zenon DEF TypeOK, SleepOK
  <2>. QED
    BY <2>1, <2>2, <2>3, <2>4, SameSleep, Zenon
<1>. QED
  BY <1>1, <1>2, <1>3, <1>4, <1>5, Zenon

\* A woken thread lets go of p->lock.
LEMMA sleep_return_IInv ==
  ASSUME NEW c \in CPU, NEW p \in Proc, IInv, sleep_return(c, p)
  PROVE  IInv'
<1> USE SchedConstants DEF IInv, sleep_return, At, Goto
<1>1. TypeOK'
  BY Zenon DEF TypeOK
<1>2. CtlOK'
  BY
     DEF TypeOK, CtlOK, LockOK, StateOK, RunnableAccounted, ResumePoint, InLk, InCons, InPlock,
         Interruptible
<1>3. LockOK'
  BY
     DEF TypeOK, CtlOK, LockOK, StateOK, RunnableAccounted, ResumePoint, InLk, InCons, InPlock,
         Interruptible
<1>4. StateOK'
  BY
     DEF TypeOK, CtlOK, LockOK, StateOK, RunnableAccounted, ResumePoint, InLk, InCons, InPlock,
         Interruptible
<1>5. SleepOK'
  BY
     DEF TypeOK, CtlOK, LockOK, StateOK, SleepOK, SleepLockMutex, NoLostWakeup, Holds, InLk,
         InCons, Interruptible, Proc
<1>. QED
  BY <1>1, <1>2, <1>3, <1>4, <1>5, Zenon

\* Nobody is between the check and SLEEPING when the lock is cleared.
LEMMA releasesleep_IInv ==
  ASSUME NEW c \in CPU, NEW p \in Proc, IInv, releasesleep(c, p)
  PROVE  IInv'
<1> USE SchedConstants DEF IInv, releasesleep, At, Goto
<1>1. TypeOK'
  <2>1. 1 \in 1 .. NPROC + 1
    OBVIOUS
  <2>. QED
    BY <2>1, Zenon DEF TypeOK
<1>2. CtlOK'
  BY
     DEF TypeOK, CtlOK, LockOK, StateOK, RunnableAccounted, ResumePoint, InLk, InCons, InPlock,
         Interruptible
<1>3. LockOK'
  BY
     DEF TypeOK, CtlOK, LockOK, StateOK, RunnableAccounted, ResumePoint, InLk, InCons, InPlock,
         Interruptible
<1>4. StateOK'
  BY
     DEF TypeOK, CtlOK, LockOK, StateOK, RunnableAccounted, ResumePoint, InLk, InCons, InPlock,
         Interruptible
<1>5. SleepOK'
  <2>1. Holds(p)
    BY Zenon DEF Holds
  <2>2. \A q \in Proc : ~ Holds(q)'
    BY <2>1, Zenon DEF TypeOK, SleepOK, SleepLockMutex, Holds
  <2>3. \A q \in Proc : pc'[q] \notin {"sleep", "asleep"}
    BY DEF TypeOK, CtlOK, LockOK, InLk, ResumePoint
  <2>4. pc'[p] = "wakeup" /\ wake'[p] = 1 /\ \A q \in Proc : 1 <= q
    BY DEF TypeOK, Proc
  <2>. QED
    BY <2>2, <2>3, <2>4, Zenon DEF SleepOK, SleepLockMutex, NoLostWakeup
<1>. QED
  BY <1>1, <1>2, <1>3, <1>4, <1>5, Zenon

\* The slot wakeup() leaves behind is not asleep on the lock.
LEMMA wakeup_IInv ==
  ASSUME NEW c \in CPU, NEW p \in Proc, IInv, wakeup(c, p)
  PROVE  IInv'
<1> USE SchedConstants DEF IInv, wakeup, At, Goto, MakeRunnable
<1>1. TypeOK'
  <2>1. wake[p] \in Proc /\ wake[p] + 1 \in 1 .. NPROC + 1
    BY DEF TypeOK, Proc
  <2>2. wake' \in [Proc -> 1 .. NPROC + 1]
    BY <2>1, Zenon DEF TypeOK
  <2>. QED
    BY <2>1, <2>2 DEF TypeOK
<1>2. CtlOK'
  BY
     DEF TypeOK, CtlOK, LockOK, StateOK, RunnableAccounted, ResumePoint, InLk, InCons, InPlock,
         Interruptible
<1>3. LockOK'
  BY
     DEF TypeOK, CtlOK, LockOK, StateOK, RunnableAccounted, ResumePoint, InLk, InCons, InPlock,
         Interruptible
<1>4. StateOK'
  BY
     DEF TypeOK, CtlOK, LockOK, StateOK, RunnableAccounted, ResumePoint, InLk, InCons, InPlock,
         Interruptible
<1>5. SleepOK'
  <2> DEFINE w == wake[p]
  <2>1. w \in Proc /\ w \in Int
    BY DEF TypeOK, Proc
  <2>1a. ~ (state'[w] = "SLEEPING" /\ chan[w])
    BY <2>1 DEF TypeOK
  <2>2. pc' = pc /\ ret' = ret /\ locked' = locked /\ pc[p] = "wakeup"
    BY Zenon
  <2>3. NoLostWakeup'
    <3> SUFFICES ASSUME NEW q \in Proc, state'[q] = "SLEEPING", chan[q], ~ locked
                 PROVE  \E r \in Proc : pc[r] = "wakeup" /\ wake'[r] <= q
      BY <2>2 DEF NoLostWakeup
    <3>1. state[q] = "SLEEPING" /\ q # w
      BY <2>1, <2>1a DEF TypeOK
    <3>2. PICK r \in Proc : pc[r] = "wakeup" /\ wake[r] <= q
      BY <3>1, Zenon DEF SleepOK, NoLostWakeup
    <3>3. CASE r = p
      <4>1. w + 1 <= q
        BY <3>1, <3>2, <3>3, <2>1 DEF Proc
      <4>. QED
        BY <4>1, <2>2, Zenon DEF TypeOK
    <3>4. CASE r # p
      BY <3>2, <3>4, Zenon DEF TypeOK
    <3>. QED
      BY <3>3, <3>4, Zenon
  <2>4. SleepLockMutex'
    BY <2>2 DEF SleepOK, SleepLockMutex, Holds
  <2>. QED
    BY <2>2, <2>3, <2>4 DEF SleepOK
<1>. QED
  BY <1>1, <1>2, <1>3, <1>4, <1>5, Zenon

\* After the last slot nobody sleeps on a free lock unseen.
LEMMA releasesleep_end_IInv ==
  ASSUME NEW c \in CPU, NEW p \in Proc, IInv, releasesleep_end(c, p)
  PROVE  IInv'
<1> USE SchedConstants DEF IInv, releasesleep_end, At, Goto
<1>1. TypeOK'
  <2>1. 1 \in 1 .. NPROC + 1
    OBVIOUS
  <2>. QED
    BY <2>1, Zenon DEF TypeOK
<1>2. CtlOK'
  BY
     DEF TypeOK, CtlOK, LockOK, StateOK, RunnableAccounted, ResumePoint, InLk, InCons, InPlock,
         Interruptible
<1>3. LockOK'
  BY
     DEF TypeOK, CtlOK, LockOK, StateOK, RunnableAccounted, ResumePoint, InLk, InCons, InPlock,
         Interruptible
<1>4. StateOK'
  BY
     DEF TypeOK, CtlOK, LockOK, StateOK, RunnableAccounted, ResumePoint, InLk, InCons, InPlock,
         Interruptible
<1>5. SleepOK'
  BY
     DEF TypeOK, CtlOK, LockOK, StateOK, SleepOK, SleepLockMutex, NoLostWakeup, Holds, InLk,
         InCons, Interruptible, Proc
<1>. QED
  BY <1>1, <1>2, <1>3, <1>4, <1>5, Zenon

\* yield() queues the thread under p->lock.
LEMMA yield_IInv ==
  ASSUME NEW c \in CPU, NEW p \in Proc, IInv, yield(c, p)
  PROVE  IInv'
<1> USE SchedConstants DEF IInv, yield, At, Goto, MakeRunnable
<1>1. TypeOK'
  BY Zenon DEF TypeOK, Interruptible
<1>2. CtlOK'
  BY
     DEF TypeOK, CtlOK, LockOK, StateOK, RunnableAccounted, ResumePoint, InLk, InCons, InPlock,
         Interruptible
<1>3. LockOK'
  BY
     DEF TypeOK, CtlOK, LockOK, StateOK, RunnableAccounted, ResumePoint, InLk, InCons, InPlock,
         Interruptible
<1>4. StateOK'
  BY
     DEF TypeOK, CtlOK, LockOK, StateOK, RunnableAccounted, ResumePoint, InLk, InCons, InPlock,
         Interruptible
<1>5. SleepOK'
  <2>1. \A q \in Proc : Holds(q)' <=> Holds(q)
    BY DEF TypeOK, Holds, Interruptible
  <2>2. \A q \in Proc : state'[q] = "SLEEPING" /\ chan'[q]
                          => locked \/ (state[q] = "SLEEPING" /\ chan[q])
    BY DEF TypeOK, SleepOK
  <2>3. \A q \in Proc : pc[q] = "wakeup" => pc'[q] = "wakeup" /\ wake'[q] = wake[q]
    BY DEF TypeOK, Interruptible
  <2>4. \A q \in Proc : pc'[q] \in {"sleep", "asleep"} => locked
    BY Zenon DEF TypeOK, SleepOK
  <2>. QED
    BY <2>1, <2>2, <2>3, <2>4, SameSleep, Zenon
<1>. QED
  BY <1>1, <1>2, <1>3, <1>4, <1>5, Zenon

\* The context is saved before the lock is released.
LEMMA yield_sched_IInv ==
  ASSUME NEW c \in CPU, NEW p \in Proc, IInv, yield_sched(c, p)
  PROVE  IInv'
<1> USE SchedConstants DEF IInv, yield_sched, sched, At, Goto
<1>1. TypeOK'
  BY ZenonT(40) DEF TypeOK
<1>2. CtlOK'
  BY
     DEF TypeOK, CtlOK, LockOK, StateOK, RunnableAccounted, ResumePoint, InLk, InCons, InPlock,
         Interruptible
<1>3. LockOK'
  BY SMTT(30)
     DEF TypeOK, CtlOK, LockOK, StateOK, RunnableAccounted, ResumePoint, InLk, InCons, InPlock,
         Interruptible
<1>4. StateOK'
  BY
     DEF TypeOK, CtlOK, LockOK, StateOK, RunnableAccounted, ResumePoint, InLk, InCons, InPlock,
         Interruptible
<1>5. SleepOK'
  <2>0. {q \in Proc : plock'[q] = c} = {p} /\ lk' # c /\ cons' # c /\ state'[p] # "RUNNING"
    BY DEF TypeOK, LockOK, StateOK, InLk, InCons, InPlock
  <2>0a. pc' = [pc EXCEPT ![p] = "yresume"] /\ pc[p] = "yield" /\ ret' = ret
    BY <2>0, Zenon
  <2>1. \A q \in Proc : Holds(q)' <=> Holds(q)
    BY <2>0a, Zenon DEF TypeOK, Holds
  <2>2. \A q \in Proc : state'[q] = "SLEEPING" /\ chan'[q]
                          => locked \/ (state[q] = "SLEEPING" /\ chan[q])
    BY DEF TypeOK, SleepOK
  <2>3. \A q \in Proc : pc[q] = "wakeup" => pc'[q] = "wakeup" /\ wake'[q] = wake[q]
    BY Zenon DEF TypeOK
  <2>4. \A q \in Proc : pc'[q] \in {"sleep", "asleep"} => locked
    BY ZenonT(40) DEF TypeOK, SleepOK
  <2>. QED
    BY <2>1, <2>2, <2>3, <2>4, SameSleep, Zenon
<1>. QED
  BY <1>1, <1>2, <1>3, <1>4, <1>5, Zenon

\* The thread resumes where it was interrupted.
LEMMA yield_return_IInv ==
  ASSUME NEW c \in CPU, NEW p \in Proc, IInv, yield_return(c, p)
  PROVE  IInv'
<1> USE SchedConstants DEF IInv, yield_return, At, Goto
<1>1. TypeOK'
  BY Zenon DEF TypeOK, Interruptible
<1>2. CtlOK'
  BY
     DEF TypeOK, CtlOK, LockOK, StateOK, RunnableAccounted, ResumePoint, InLk, InCons, InPlock,
         Interruptible
<1>3. LockOK'
  BY
     DEF TypeOK, CtlOK, LockOK, StateOK, RunnableAccounted, ResumePoint, InLk, InCons, InPlock,
         Interruptible
<1>4. StateOK'
  BY
     DEF TypeOK, CtlOK, LockOK, StateOK, RunnableAccounted, ResumePoint, InLk, InCons, InPlock,
         Interruptible
<1>5. SleepOK'
  <2>1. ret[p] \in {"user", "crit", "reacq"}
    BY Zenon DEF TypeOK, Interruptible
  <2>2. \A q \in Proc : Holds(q)' <=> Holds(q)
    BY <2>1, Zenon DEF TypeOK, Holds
  <2>3. \A q \in Proc :     pc'[q] \in {"sleep", "asleep", "wakeup"}
                        <=> pc[q] \in {"sleep", "asleep", "wakeup"}
    BY <2>1, Zenon DEF TypeOK
  <2>4. \A q \in Proc : pc[q] = "wakeup" => pc'[q] = "wakeup"
    BY Zenon DEF TypeOK
  <2>5. \A q \in Proc : pc'[q] \in {"sleep", "asleep"} => locked
    BY <2>1, Zenon DEF TypeOK, SleepOK
  <2>6. NoLostWakeup'
    BY <2>4, Zenon DEF SleepOK, NoLostWakeup
  <2>. QED
    BY <2>2, <2>5, <2>6, Zenon DEF SleepOK, SleepLockMutex
<1>. QED
  BY <1>1, <1>2, <1>3, <1>4, <1>5, Zenon

\* cons.lock is free before it is taken.
LEMMA consolewrite_IInv ==
  ASSUME NEW c \in CPU, NEW p \in Proc, IInv, consolewrite(c, p)
  PROVE  IInv'
<1> USE SchedConstants DEF IInv, consolewrite, At, Goto
<1>1. TypeOK'
  BY Zenon DEF TypeOK
<1>2. CtlOK'
  BY
     DEF TypeOK, CtlOK, LockOK, StateOK, RunnableAccounted, ResumePoint, InLk, InCons, InPlock,
         Interruptible
<1>3. LockOK'
  BY
     DEF TypeOK, CtlOK, LockOK, StateOK, RunnableAccounted, ResumePoint, InLk, InCons, InPlock,
         Interruptible
<1>4. StateOK'
  BY
     DEF TypeOK, CtlOK, LockOK, StateOK, RunnableAccounted, ResumePoint, InLk, InCons, InPlock,
         Interruptible
<1>5. SleepOK'
  <2>1. \A q \in Proc : Holds(q)' <=> Holds(q)
    BY Zenon DEF TypeOK, Holds
  <2>2. \A q \in Proc : state'[q] = "SLEEPING" /\ chan'[q]
                          => locked \/ (state[q] = "SLEEPING" /\ chan[q])
    BY DEF TypeOK, SleepOK
  <2>3. \A q \in Proc : pc[q] = "wakeup" => pc'[q] = "wakeup" /\ wake'[q] = wake[q]
    BY Zenon DEF TypeOK
  <2>4. \A q \in Proc : pc'[q] \in {"sleep", "asleep"} => locked
    BY Zenon DEF TypeOK, SleepOK
  <2>. QED
    BY <2>1, <2>2, <2>3, <2>4, SameSleep, Zenon
<1>. QED
  BY <1>1, <1>2, <1>3, <1>4, <1>5, Zenon

\* uartputc() keeps cons.lock unless consolewrite() returns.
LEMMA uartputc_IInv ==
  ASSUME NEW c \in CPU, NEW p \in Proc, IInv, uartputc(c, p)
  PROVE  IInv'
<1> USE SchedConstants DEF IInv, uartputc, At, Goto
<1>1. TypeOK'
  BY Zenon DEF TypeOK
<1>2. CtlOK'
  BY
     DEF TypeOK, CtlOK, LockOK, StateOK, RunnableAccounted, ResumePoint, InLk, InCons, InPlock,
         Interruptible
<1>3. LockOK'
  BY
     DEF TypeOK, CtlOK, LockOK, StateOK, RunnableAccounted, ResumePoint, InLk, InCons, InPlock,
         Interruptible
<1>4. StateOK'
  BY
     DEF TypeOK, CtlOK, LockOK, StateOK, RunnableAccounted, ResumePoint, InLk, InCons, InPlock,
         Interruptible
<1>5. SleepOK'
  <2>1. \A q \in Proc : Holds(q)' <=> Holds(q)
    BY ZenonT(40) DEF TypeOK, Holds
  <2>2. \A q \in Proc : state'[q] = "SLEEPING" /\ chan'[q]
                          => locked \/ (state[q] = "SLEEPING" /\ chan[q])
    BY DEF TypeOK, SleepOK
  <2>3. \A q \in Proc : pc[q] = "wakeup" => pc'[q] = "wakeup" /\ wake'[q] = wake[q]
    BY Zenon DEF TypeOK
  <2>4. \A q \in Proc : pc'[q] \in {"sleep", "asleep"} => locked
    BY Zenon DEF TypeOK, SleepOK
  <2>. QED
    BY <2>1, <2>2, <2>3, <2>4, SameSleep, Zenon
<1>. QED
  BY <1>1, <1>2, <1>3, <1>4, <1>5, Zenon

\* A zombie never runs again.
LEMMA exit_IInv ==
  ASSUME NEW c \in CPU, NEW p \in Proc, IInv, exit(c, p)
  PROVE  IInv'
<1> USE SchedConstants DEF IInv, exit, sched, At, Goto
<1>1. TypeOK'
  BY ZenonT(40) DEF TypeOK
<1>a. /\ spc' = [spc EXCEPT ![c] = "back"] /\ pc' = [pc EXCEPT ![p] = "dead"]
      /\ spc[c] = "in" /\ cur[c] = p /\ pc[p] = "user"
      /\ plock[p] = NULL /\ plock' = [plock EXCEPT ![p] = c]
      /\ UNCHANGED <<cur, lk, cons>>
  <2>1. {q \in Proc : plock'[q] = c} = {p} /\ lk' # c /\ cons' # c /\ state'[p] # "RUNNING"
    BY DEF TypeOK, LockOK, InLk, InCons, InPlock
  <2>. QED
    BY <2>1, Zenon
<1>2. CtlOK'
  BY SMTT(30)
     DEF TypeOK, CtlOK, LockOK, StateOK, RunnableAccounted, ResumePoint, InLk, InCons, InPlock,
         Interruptible
<1>3. LockOK'
  <2> HIDE DEF IInv, exit, sched
  <2>0. TypeOK /\ CtlOK /\ LockOK
    BY DEF IInv
  <2>1. \A d \in CPU : lk' = d <=> spc'[d] = "in" /\ pc'[cur'[d]] \in InLk
    BY <1>a, <2>0 DEF TypeOK, CtlOK, LockOK, InLk
  <2>2. \A d \in CPU : cons' = d <=> spc'[d] = "in" /\ pc'[cur'[d]] \in InCons
    BY <1>a, <2>0 DEF TypeOK, CtlOK, LockOK, InCons
  <2>3. \A d \in CPU, q \in Proc :
          plock'[q] = d <=> /\ cur'[d] = q
                            /\ spc'[d] = "back" \/ (spc'[d] = "in" /\ pc'[q] \in InPlock)
    BY <1>a, <2>0 DEF TypeOK, CtlOK, LockOK, InPlock
  <2>. QED
    BY <2>1, <2>2, <2>3, Zenon DEF LockOK
<1>4. StateOK'
  BY
     DEF TypeOK, CtlOK, LockOK, StateOK, RunnableAccounted, ResumePoint, InLk, InCons, InPlock,
         Interruptible
<1>5. SleepOK'
  <2>1. \A q \in Proc : Holds(q)' <=> Holds(q)
    BY DEF TypeOK, Holds
  <2>2. \A q \in Proc : state'[q] = "SLEEPING" /\ chan'[q]
                          => locked \/ (state[q] = "SLEEPING" /\ chan[q])
    BY DEF TypeOK, SleepOK
  <2>3. \A q \in Proc : pc[q] = "wakeup" => pc'[q] = "wakeup" /\ wake'[q] = wake[q]
    BY ZenonT(40) DEF TypeOK
  <2>4. \A q \in Proc : pc'[q] \in {"sleep", "asleep"} => locked
    BY DEF TypeOK, SleepOK
  <2>5. locked' = locked /\ SleepOK
    OBVIOUS
  <2>. QED
    BY <2>5, <2>1, <2>2, <2>3, <2>4, SameSleep, Zenon
<1>. QED
  BY <1>1, <1>2, <1>3, <1>4, <1>5, Zenon

\* kill() makes only a SLEEPING process RUNNABLE.
LEMMA kill_IInv ==
  ASSUME NEW c \in CPU, NEW p \in Proc, NEW q \in Proc, IInv, kill(c, p, q)
  PROVE  IInv'
<1> USE SchedConstants DEF IInv, kill, At, Goto, MakeRunnable
<1>1. TypeOK'
  BY DEF TypeOK
<1>2. CtlOK'
  BY
     DEF TypeOK, CtlOK, LockOK, StateOK, RunnableAccounted, ResumePoint, InLk, InCons, InPlock,
         Interruptible
<1>3. LockOK'
  BY
     DEF TypeOK, CtlOK, LockOK, StateOK, RunnableAccounted, ResumePoint, InLk, InCons, InPlock,
         Interruptible
<1>4. StateOK'
  BY SMTT(30)
     DEF TypeOK, CtlOK, LockOK, StateOK, RunnableAccounted, ResumePoint, InLk, InCons, InPlock,
         Interruptible
<1>5. SleepOK'
  BY
     DEF TypeOK, CtlOK, LockOK, StateOK, SleepOK, SleepLockMutex, NoLostWakeup, Holds, InLk,
         InCons, Interruptible, Proc
<1>. QED
  BY <1>1, <1>2, <1>3, <1>4, <1>5, Zenon

\* Every step keeps the invariant.
LEMMA NextIInv == IInv /\ [Next]_vars => IInv'
<1> SUFFICES ASSUME IInv, [Next]_vars PROVE IInv'
  BY Zenon
<1>1. CASE UNCHANGED vars
  <2> USE <1>1 DEF vars
  <2>1. TypeOK' /\ CtlOK' /\ LockOK'
    BY DEF IInv, TypeOK, CtlOK, LockOK
  <2>2. StateOK'
    BY DEF IInv, StateOK, RunnableAccounted
  <2>3. SleepOK'
    BY DEF IInv, SleepOK, SleepLockMutex, NoLostWakeup, Holds
  <2>. QED
    BY <2>1, <2>2, <2>3, Zenon DEF IInv
<1>2. CASE Next
  <2>1. PICK c \in CPU : \/ pick(c) \/ dispatch(c) \/ back(c)
                         \/ \E p \in Proc : Thread(c, p)
    BY <1>2, Zenon DEF Next
  <2>2. CASE pick(c) \/ dispatch(c) \/ back(c)
    BY <2>2, pick_IInv, dispatch_IInv, back_IInv, Zenon
  <2>3. CASE \E p \in Proc : Thread(c, p)
    <3>1. PICK p \in Proc : Thread(c, p)
      BY <2>3, Zenon
    <3>2. CASE \E q \in Proc : kill(c, p, q)
      BY <3>2, kill_IInv, Zenon
    <3>. QED
      BY <3>1, <3>2, forkret_IInv, acquiresleep_IInv, acquiresleep_check_IInv, sleep_IInv,
         sleep_sched_IInv, sleep_return_IInv,
         releasesleep_IInv, wakeup_IInv, releasesleep_end_IInv, yield_IInv, yield_sched_IInv,
         yield_return_IInv, exit_IInv, consolewrite_IInv, uartputc_IInv, Zenon DEF Thread
  <2>. QED
    BY <2>1, <2>2, <2>3, Zenon
<1>. QED
  BY <1>1, <1>2, Zenon

\* The switch protocol itself: what the spinlock ownership says of sched().
LEMMA SchedOK == IInv => StackExclusive /\ SchedHoldsOneLock
<1> SUFFICES ASSUME IInv PROVE StackExclusive /\ SchedHoldsOneLock
  BY Zenon
<1> USE SchedConstants DEF IInv
<1>1. StackExclusive
  BY DEF StackExclusive, TypeOK, CtlOK, LockOK, StateOK, RunnableAccounted, ResumePoint, InPlock
<1>2. ASSUME NEW c \in CPU, NEW p \in Proc
      PROVE  /\ spc[c] = "back" /\ cur[c] = p => /\ {q \in Proc : plock[q] = c} = {p}
                                                 /\ lk # c /\ cons # c /\ state[p] # "RUNNING"
             /\ spc[c] \in {"pick", "lock"} => lk # c /\ cons # c /\ plock[p] # c
  <2>1. spc[c] = "back" /\ cur[c] = p => {q \in Proc : plock[q] = c} = {p}
    <3>1. \A q \in Proc : plock[q] = c => cur[c] = q
      BY Zenon DEF LockOK
    <3>2. spc[c] = "back" /\ cur[c] = p => plock[p] = c
      BY Zenon DEF LockOK
    <3>. QED
      BY <3>1, <3>2, Zenon
  <2>2. spc[c] = "back" /\ cur[c] = p => state[p] # "RUNNING"
    <3>1. state[p] = "RUNNING" => \E d \in CPU : spc[d] = "in" /\ cur[d] = p
      <4>1. state[p] = "RUNNING" => \E d \in CPU : /\ spc[d] = "in" /\ cur[d] = p
                                                  /\ pc[p] \notin {"yield", "panic"}
        BY ZenonT(40) DEF StateOK
      <4>. QED
        BY <4>1, ZenonT(40)
    <3>2. \A d \in CPU : spc[c] = "back" /\ spc[d] = "in" => c # d /\ cur[c] # cur[d]
      <4>1. \A d \in CPU : c # d /\ spc[c] \in {"in", "back"} /\ spc[d] \in {"in", "back"}
                           => cur[c] # cur[d]
        BY ZenonT(40) DEF CtlOK
      <4>. QED
        BY <4>1, SMTT(30)
    <3>. QED
      BY <3>1, <3>2, Zenon
  <2>3. spc[c] # "in" => lk # c /\ cons # c
    BY Zenon DEF LockOK
  <2>4. spc[c] \in {"pick", "lock"} => plock[p] # c
    BY Zenon DEF LockOK
  <2>. QED
    BY <2>1, <2>2, <2>3, <2>4, Zenon
<1>2a. ASSUME NEW p \in Proc
       PROVE  /\ pc[p] = "panic" => ~ chan[p] /\ \E c \in CPU : At(c, p, "panic") /\ cons = c
              /\ state[p] = "SLEEPING" => chan[p] \/ pc[p] = "panic"
  <2>1. pc[p] = "panic" => ~ chan[p]
    BY Zenon DEF StateOK
  <2>2. pc[p] = "panic" => \E c \in CPU : At(c, p, "panic") /\ cons = c
    BY SMTT(30) DEF CtlOK, LockOK, InCons, ResumePoint, At
  <2>. QED
    BY <2>1, <2>2, Zenon DEF StateOK
<1>3. SchedHoldsOneLock
  BY <1>2, <1>2a, Zenon DEF SchedHoldsOneLock
<1>. QED
  BY <1>1, <1>3, Zenon

-----------------------------------------------------------------------------
\* For every number of processes and harts: no two harts share a kernel stack,
\* a switch hands over p->lock and nothing else, RUNNABLE means queued or picked
\* once, the sleep lock excludes, and no wakeup on it is lost.
THEOREM SchedulerSafe ==
  Spec => []( /\ TypeOK /\ StackExclusive /\ SchedHoldsOneLock
              /\ RunnableAccounted /\ SleepLockMutex /\ NoLostWakeup)
<1>1. IInv => /\ TypeOK /\ StackExclusive /\ SchedHoldsOneLock
              /\ RunnableAccounted /\ SleepLockMutex /\ NoLostWakeup
  BY SchedOK, Zenon DEF IInv, StateOK, SleepOK
<1>. QED
  BY InitIInv, NextIInv, <1>1, PTL DEF Spec

\* A thread that scheduler(), sched() and swtch() hand over is on one kernel stack alone.
THEOREM StackSafe == Spec => []StackExclusive
<1>. QED
  BY SchedulerSafe, PTL

\* Whichever processes and harts there are, sched() hands p->lock and no other lock to
\* scheduler(); its check "sched locks" fails for uartputc() under cons.lock with a full
\* ring, every time, and for no other caller.
THEOREM SwitchSafe == Spec => []SchedHoldsOneLock
<1>. QED
  BY SchedulerSafe, PTL

\* acquiresleep() and releasesleep() keep all but one process out, across sleep() and kill().
THEOREM SleepLockSafe == Spec => []SleepLockMutex
<1>. QED
  BY SchedulerSafe, PTL
=============================================================================
