----------------------------- MODULE Scheduler ------------------------------
(***************************************************************************)
(* Context switching, sleep and wakeup at the level of spinlocks:          *)
(* scheduler, sched, yield, sleep, wakeup, kill (kernel/proc/proc.c) and,  *)
(* as the kernel code that uses them, acquiresleep and releasesleep        *)
(* (kernel/lock/sleeplock.c) on one sleep lock, and consolewrite with      *)
(* uartputc (kernel/driver), whose ring is full at any time.               *)
(*                                                                         *)
(* A hart runs either its scheduler loop or the kernel thread of a         *)
(* process.  p->lock is taken by one of the two and released by the other  *)
(* across swtch, which is what keeps a second hart off the thread's stack. *)
(* The run queue is the set of queued processes; its order is the business *)
(* of RunQueue.tla, and a section of runq_lock is part of the step of its  *)
(* caller, who holds p->lock in every case but scheduler's pick.           *)
(* uart_tx_lock is only taken under cons.lock and given up by sleep(), so  *)
(* cons.lock stands for both.  A panic stops one hart, the others go on.   *)
(***************************************************************************)
EXTENDS Integers

CONSTANTS
  NPROC,     \* slots of the process table
  CPU,       \* harts
  INITPROC,  \* nobody kills init
  NULL       \* no process, no hart

Proc == 1 .. NPROC

ASSUME SchedConstants ==
  /\ NPROC \in Nat \ {0}
  /\ INITPROC \in Proc
  /\ NULL \notin Proc /\ NULL \notin CPU

VARIABLES
  state,    \* p->state
  chan,     \* p->chan is the sleep lock
  killed,   \* p->killed
  plock,    \* hart holding p->lock
  onq,      \* processes on the run queue
  spc,      \* where each hart's scheduler loop is; "in": the process runs
  cur,      \* the process scheduler() has picked or is running (its local p)
  pc,       \* where each process's kernel thread is
  ret,      \* where the thread goes on after yield(), else "user"
  wake,     \* next slot a wakeup() by this thread looks at, else 1
  lk,       \* hart holding the spinlock inside the sleep lock
  locked,   \* the sleep lock itself
  cons      \* hart holding cons.lock

vars == <<state, chan, killed, plock, onq, spc, cur, pc, ret, wake, lk, locked, cons>>

\* Threads switched out, or about to run for the first time, continue here.
ResumePoint == {"forkret", "woken", "yresume"}

\* Thread code that runs without spinlocks, so with interrupts on.
Interruptible == {"user", "crit", "reacq"}

\* Hart c executes process p at program point l.
At(c, p, l) == spc[c] = "in" /\ cur[c] = p /\ pc[p] = l

Goto(p, l) == pc' = [pc EXCEPT ![p] = l]

\* sched() on hart c: panic unless p->lock is held and no other lock (noff = 1), and
\* the process is not RUNNING any more; save the context and switch to scheduler().
sched(c, p, l) ==
  IF {q \in Proc : plock'[q] = c} = {p} /\ lk' # c /\ cons' # c /\ state'[p] # "RUNNING"
  THEN spc' = [spc EXCEPT ![c] = "back"] /\ Goto(p, l)
  ELSE UNCHANGED spc /\ Goto(p, "panic")

-----------------------------------------------------------------------------
Init ==
  /\ state = [p \in Proc |-> "RUNNABLE"]
  /\ chan = [p \in Proc |-> FALSE]
  /\ killed = [p \in Proc |-> FALSE]
  /\ plock = [p \in Proc |-> NULL]
  /\ onq = Proc
  /\ spc = [c \in CPU |-> "pick"]
  /\ cur = [c \in CPU |-> NULL]
  /\ pc = [p \in Proc |-> "forkret"]
  /\ ret = [p \in Proc |-> "user"]
  /\ wake = [p \in Proc |-> 1]
  /\ lk = NULL
  /\ locked = FALSE
  /\ cons = NULL

(* The scheduler loop of hart c.                                           *)

pick(c) ==
  /\ spc[c] = "pick"
  /\ \E p \in onq : onq' = onq \ {p} /\ cur' = [cur EXCEPT ![c] = p]
  /\ spc' = [spc EXCEPT ![c] = "lock"]
  /\ UNCHANGED <<state, chan, killed, plock, pc, ret, wake, lk, locked, cons>>

\* Mutant: the scheduler does not wait for p->lock.
BugDispatch(c) ==
  /\ spc[c] = "lock"
  /\ plock' = [plock EXCEPT ![cur[c]] = c]
  /\ state' = [state EXCEPT ![cur[c]] = "RUNNING"]
  /\ spc' = [spc EXCEPT ![c] = "in"]
  /\ UNCHANGED <<chan, killed, onq, cur, pc, ret, wake, lk, locked, cons>>

\* Lock the process and switch to it; if it is not RUNNABLE put it back.
dispatch(c) ==
  /\ spc[c] = "lock"
  /\ plock[cur[c]] = NULL
  /\ IF state[cur[c]] = "RUNNABLE"
     THEN /\ plock' = [plock EXCEPT ![cur[c]] = c]
          /\ state' = [state EXCEPT ![cur[c]] = "RUNNING"]
          /\ spc' = [spc EXCEPT ![c] = "in"]
          /\ UNCHANGED <<onq, cur>>
     ELSE /\ onq' = onq \cup {cur[c]}
          /\ cur' = [cur EXCEPT ![c] = NULL]
          /\ spc' = [spc EXCEPT ![c] = "pick"]
          /\ UNCHANGED <<plock, state>>
  /\ UNCHANGED <<chan, killed, pc, ret, wake, lk, locked, cons>>

\* After swtch back: forget the process and release the lock it took.
back(c) ==
  /\ spc[c] = "back"
  /\ plock' = [plock EXCEPT ![cur[c]] = NULL]
  /\ cur' = [cur EXCEPT ![c] = NULL]
  /\ spc' = [spc EXCEPT ![c] = "pick"]
  /\ UNCHANGED <<state, chan, killed, onq, pc, ret, wake, lk, locked, cons>>

-----------------------------------------------------------------------------
(* The thread of process p on hart c.                                      *)

\* First run of a process: forkret() releases the lock scheduler() took.
forkret(c, p) ==
  /\ At(c, p, "forkret")
  /\ plock' = [plock EXCEPT ![p] = NULL]
  /\ Goto(p, "user")
  /\ UNCHANGED <<state, chan, killed, onq, spc, cur, ret, wake, lk, locked, cons>>

\* Mutant: the lock is taken after sleep() without looking at it again.
BugAcquiresleep(c, p) ==
  /\ lk = NULL
  /\ \/ At(c, p, "user") /\ lk' = c /\ Goto(p, "check") /\ UNCHANGED locked
     \/ At(c, p, "reacq") /\ locked' = TRUE /\ Goto(p, "crit") /\ UNCHANGED lk
  /\ UNCHANGED <<state, chan, killed, plock, onq, spc, cur, ret, wake, cons>>

\* acquiresleep(): acquire(&lk->lk), also when sleep() returns.
acquiresleep(c, p) ==
  /\ At(c, p, "user") \/ At(c, p, "reacq")
  /\ lk = NULL
  /\ lk' = c
  /\ Goto(p, "check")
  /\ UNCHANGED <<state, chan, killed, plock, onq, spc, cur, ret, wake, locked, cons>>

\* acquiresleep(): sleep while the lock is taken, else take it.
acquiresleep_check(c, p) ==
  /\ At(c, p, "check")
  /\ IF locked
     THEN Goto(p, "sleep") /\ UNCHANGED <<locked, lk>>
     ELSE Goto(p, "crit") /\ locked' = TRUE /\ lk' = NULL
  /\ UNCHANGED <<state, chan, killed, plock, onq, spc, cur, ret, wake, cons>>

\* sleep(): take p->lock before giving up the lock of the caller, lk->lk or uart_tx_lock.
sleep(c, p) ==
  /\ plock[p] = NULL
  /\ \/ At(c, p, "sleep") /\ Goto(p, "asleep")
     \/ At(c, p, "full") /\ Goto(p, "txasleep")
  /\ plock' = [plock EXCEPT ![p] = c]
  /\ UNCHANGED <<state, chan, killed, onq, spc, cur, ret, wake, lk, locked, cons>>

\* Mutant: sleep() switches away with lk->lk still held.
BugSleepSched(c, p) ==
  /\ At(c, p, "asleep") \/ At(c, p, "txasleep")
  /\ chan' = [chan EXCEPT ![p] = pc[p] = "asleep"]
  /\ state' = [state EXCEPT ![p] = "SLEEPING"]
  /\ UNCHANGED <<killed, plock, onq, cur, ret, wake, lk, locked, cons>>
  /\ sched(c, p, "woken")

\* sleep(): release(lk), mark the process SLEEPING and sched().
sleep_sched(c, p) ==
  /\ \/ At(c, p, "asleep") /\ lk' = NULL /\ chan' = [chan EXCEPT ![p] = TRUE]
     \/ At(c, p, "txasleep") /\ UNCHANGED <<lk, chan>>
  /\ state' = [state EXCEPT ![p] = "SLEEPING"]
  /\ UNCHANGED <<killed, plock, onq, cur, ret, wake, locked, cons>>
  /\ sched(c, p, "woken")

\* sleep(): running again, on whichever hart dispatched it.
sleep_return(c, p) ==
  /\ At(c, p, "woken")
  /\ chan' = [chan EXCEPT ![p] = FALSE]
  /\ plock' = [plock EXCEPT ![p] = NULL]
  /\ Goto(p, "reacq")
  /\ UNCHANGED <<state, killed, onq, spc, cur, ret, wake, lk, locked, cons>>

\* releasesleep(): acquire(&lk->lk), clear the lock, start wakeup().
releasesleep(c, p) ==
  /\ At(c, p, "crit")
  /\ lk = NULL
  /\ lk' = c
  /\ locked' = FALSE
  /\ wake' = [wake EXCEPT ![p] = 1]
  /\ Goto(p, "wakeup")
  /\ UNCHANGED <<state, chan, killed, plock, onq, spc, cur, ret, cons>>

\* A SLEEPING process becomes RUNNABLE and is queued (under its p->lock).
MakeRunnable(q) ==
  /\ state' = [state EXCEPT ![q] = "RUNNABLE"]
  /\ onq' = onq \cup {q}

\* wakeup(): one slot of the process table.
wakeup(c, p) ==
  /\ At(c, p, "wakeup")
  /\ wake[p] <= NPROC
  /\ plock[wake[p]] = NULL
  /\ IF state[wake[p]] = "SLEEPING" /\ chan[wake[p]]
     THEN MakeRunnable(wake[p])
     ELSE UNCHANGED <<state, onq>>
  /\ wake' = [wake EXCEPT ![p] = @ + 1]
  /\ UNCHANGED <<chan, killed, plock, spc, cur, pc, ret, lk, locked, cons>>

\* Mutant: the loop of wakeup() ends before the last slot.
BugEnd(c, p) ==
  /\ At(c, p, "wakeup")
  /\ wake[p] >= NPROC
  /\ lk' = NULL
  /\ wake' = [wake EXCEPT ![p] = 1]
  /\ Goto(p, "user")
  /\ UNCHANGED <<state, chan, killed, plock, onq, spc, cur, ret, locked, cons>>

\* releasesleep(): the table is done; release(&lk->lk).
releasesleep_end(c, p) ==
  /\ At(c, p, "wakeup")
  /\ wake[p] > NPROC
  /\ lk' = NULL
  /\ wake' = [wake EXCEPT ![p] = 1]
  /\ Goto(p, "user")
  /\ UNCHANGED <<state, chan, killed, plock, onq, spc, cur, ret, locked, cons>>

\* yield(), from a timer interrupt wherever interrupts are on.
yield(c, p) ==
  /\ spc[c] = "in" /\ cur[c] = p /\ pc[p] \in Interruptible
  /\ plock[p] = NULL
  /\ plock' = [plock EXCEPT ![p] = c]
  /\ MakeRunnable(p)
  /\ ret' = [ret EXCEPT ![p] = pc[p]]
  /\ Goto(p, "yield")
  /\ UNCHANGED <<chan, killed, spc, cur, wake, lk, locked, cons>>

\* yield(): sched() saves the context and switches to the scheduler.
yield_sched(c, p) ==
  /\ At(c, p, "yield")
  /\ UNCHANGED <<state, chan, killed, plock, onq, cur, ret, wake, lk, locked, cons>>
  /\ sched(c, p, "yresume")

\* yield(): running again.
yield_return(c, p) ==
  /\ At(c, p, "yresume")
  /\ plock' = [plock EXCEPT ![p] = NULL]
  /\ Goto(p, ret[p])
  /\ ret' = [ret EXCEPT ![p] = "user"]
  /\ UNCHANGED <<state, chan, killed, onq, spc, cur, wake, lk, locked, cons>>

\* kill(q) by process p: mark the victim and end its sleep.
kill(c, p, q) ==
  /\ At(c, p, "user")
  /\ q # INITPROC
  /\ plock[q] = NULL
  /\ killed' = [killed EXCEPT ![q] = TRUE]
  /\ IF state[q] = "SLEEPING" THEN MakeRunnable(q) ELSE UNCHANGED <<state, onq>>
  /\ UNCHANGED <<chan, plock, spc, cur, pc, ret, wake, lk, locked, cons>>

\* exit() of a killed process on its way back to user space.
exit(c, p) ==
  /\ At(c, p, "user")
  /\ killed[p]
  /\ plock[p] = NULL
  /\ plock' = [plock EXCEPT ![p] = c]
  /\ state' = [state EXCEPT ![p] = "ZOMBIE"]
  /\ UNCHANGED <<chan, killed, onq, cur, ret, wake, lk, locked, cons>>
  /\ sched(c, p, "dead")

\* write() to the console: consolewrite() holds cons.lock while uartputc() runs.
consolewrite(c, p) ==
  /\ At(c, p, "user")
  /\ cons = NULL
  /\ cons' = c
  /\ Goto(p, "write")
  /\ UNCHANGED <<state, chan, killed, plock, onq, spc, cur, ret, wake, lk, locked>>

\* uartputc() has room for the characters and consolewrite() returns, or the ring is
\* full and uartputc() calls sleep().
uartputc(c, p) ==
  /\ At(c, p, "write")
  /\ \/ cons' = NULL /\ Goto(p, "user")
     \/ UNCHANGED cons /\ Goto(p, "full")
  /\ UNCHANGED <<state, chan, killed, plock, onq, spc, cur, ret, wake, lk, locked>>

Thread(c, p) ==
  \/ forkret(c, p)
  \/ acquiresleep(c, p) \/ acquiresleep_check(c, p)
  \/ sleep(c, p) \/ sleep_sched(c, p) \/ sleep_return(c, p)
  \/ releasesleep(c, p) \/ wakeup(c, p) \/ releasesleep_end(c, p)
  \/ yield(c, p) \/ yield_sched(c, p) \/ yield_return(c, p)
  \/ consolewrite(c, p) \/ uartputc(c, p)
  \/ exit(c, p) \/ \E q \in Proc : kill(c, p, q)

Next == \E c \in CPU : \/ pick(c) \/ dispatch(c) \/ back(c)
                       \/ \E p \in Proc : Thread(c, p)

Spec == Init /\ [][Next]_vars

-----------------------------------------------------------------------------
(* Properties.                                                             *)

\* Every variable has a value of its type; in particular a thread is preempted
\* only where it holds no spinlock.
TypeOK ==
  /\ state \in [Proc -> {"RUNNABLE", "RUNNING", "SLEEPING", "ZOMBIE"}]
  /\ chan \in [Proc -> BOOLEAN]
  /\ killed \in [Proc -> BOOLEAN]
  /\ plock \in [Proc -> CPU \cup {NULL}]
  /\ onq \subseteq Proc
  /\ spc \in [CPU -> {"pick", "lock", "in", "back"}]
  /\ cur \in [CPU -> Proc \cup {NULL}]
  /\ pc \in [Proc -> {"forkret", "user", "check", "sleep", "asleep", "woken",
                      "reacq", "crit", "wakeup", "yield", "yresume", "dead",
                      "write", "full", "txasleep", "panic"}]
  /\ ret \in [Proc -> Interruptible]
  /\ wake \in [Proc -> 1 .. NPROC + 1]
  /\ lk \in CPU \cup {NULL}
  /\ locked \in BOOLEAN
  /\ cons \in CPU \cup {NULL}

\* Two harts never execute on one kernel stack, and a hart switches only to a
\* thread whose context has been saved: p->lock is held from the moment a thread
\* queues itself or sleeps until the scheduler it switched to has let go of it.
StackExclusive ==
  /\ \A c, d \in CPU : spc[c] = "in" /\ spc[d] = "in" /\ c # d => cur[c] # cur[d]
  /\ \A c \in CPU : spc[c] = "lock" /\ plock[cur[c]] = NULL
                      => pc[cur[c]] \in ResumePoint

\* A process is RUNNABLE exactly when it is queued or picked by one scheduler,
\* so scheduler()'s branch that puts a picked process back is never taken.
RunnableAccounted ==
  \A p \in Proc :
    /\ state[p] = "RUNNABLE" <=> (p \in onq \/ \E c \in CPU : spc[c] = "lock" /\ cur[c] = p)
    /\ p \in onq => ~ \E c \in CPU : spc[c] = "lock" /\ cur[c] = p
    /\ \A c, d \in CPU : (/\ spc[c] = "lock" /\ cur[c] = p
                          /\ spc[d] = "lock" /\ cur[d] = p) => c = d

\* The thread of p is inside the critical section of the sleep lock.
Holds(p) == pc[p] = "crit" \/ (pc[p] \in {"yield", "yresume"} /\ ret[p] = "crit")

\* At most one thread is between acquiresleep() and releasesleep(), although
\* it may be switched out and moved to another hart while it is there.
SleepLockMutex ==
  /\ \A p, q \in Proc : Holds(p) /\ Holds(q) => p = q
  /\ locked <=> \E p \in Proc : Holds(p)

\* No wakeup is lost: a process sleeps on the lock only while somebody holds it
\* or a releasesleep() has still to reach that process in the table.
NoLostWakeup ==
  \A q \in Proc :
    state[q] = "SLEEPING" /\ chan[q]
      => locked \/ \E p \in Proc : pc[p] = "wakeup" /\ wake[p] <= q

\* A switch hands over p->lock and no other lock, and scheduler() holds no lock between
\* two processes.  sched() panics for one caller alone, uartputc() with a full ring under
\* cons.lock, and always does for that one: no process ever sleeps for room in the ring.
SchedHoldsOneLock ==
  /\ \A c \in CPU, p \in Proc :
       /\ spc[c] = "back" /\ cur[c] = p => /\ {q \in Proc : plock[q] = c} = {p}
                                           /\ lk # c /\ cons # c /\ state[p] # "RUNNING"
       /\ spc[c] \in {"pick", "lock"} => lk # c /\ cons # c /\ plock[p] # c
  /\ \A p \in Proc :
       /\ pc[p] = "panic" => ~ chan[p] /\ \E c \in CPU : At(c, p, "panic") /\ cons = c
       /\ state[p] = "SLEEPING" => chan[p] \/ pc[p] = "panic"
=============================================================================
