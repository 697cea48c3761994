------------------------------ MODULE RunQueue ------------------------------
(***************************************************************************)
(* The O(1) multi-level run queue: kernel/proc/sched_o1.c, setPriority and *)
(* the callers that put processes on the queue and take them off           *)
(* (kernel/proc/proc.c).  The queue is modelled link by link: a doubly     *)
(* linked list per level, a bitmap of the non-empty levels, and in every   *)
(* process the level it was filed under.                                   *)
(*                                                                         *)
(* Grain of atomicity.  Everything the code does inside one section of     *)
(* runq_lock is one step, except the rebucketing loop of sched_tick, which *)
(* is one step per list node: setPriority stores p->priority under p->lock *)
(* alone, so the loop may read two different values of it.  The lock-level *)
(* interleavings of scheduler, sleep and wakeup are in Scheduler.tla.      *)
(***************************************************************************)
EXTENDS Integers, FiniteSets, Sequences

CONSTANTS
  Proc,        \* slots of the process table (NPROC = 64 in the code)
  CPU,         \* harts (NCPU)
  BOOTCPU,     \* the hart with cpuid 0, the only one that runs clockintr
  INITPROC,    \* the slot userinit fills; init never exits
  NULL,        \* the null pointer
  RUNQ_LEN,    \* number of levels (21 in the code)
  AGE,         \* ticks per step of dynamic priority (5 in the code)
  DEFPRIO,     \* priority given by allocproc (10 in the code)
  PRIO,        \* priorities user programs pass to setPriority: any int
  MAXTIME      \* bound: wait_time and cpu_time saturate here

Level == 0 .. RUNQ_LEN - 1

ASSUME RunqConstants ==
  /\ BOOTCPU \in CPU
  /\ INITPROC \in Proc
  /\ NULL \notin Proc
  /\ RUNQ_LEN \in 1 .. 64        \* runq_bitmap is a uint64
  /\ AGE \in Nat \ {0}
  /\ DEFPRIO \in Level
  /\ PRIO \subseteq Int
  /\ MAXTIME \in Nat

ProcOrNull == Proc \cup {NULL}

State == {"UNUSED", "SLEEPING", "RUNNABLE", "RUNNING", "ZOMBIE"}

VARIABLES
  rq,         \* the queue: record of head, tail, bitmap, next, prev, on, dyn
  state,      \* p->state
  priority,   \* p->priority
  wait_time,  \* p->wait_time
  cpu_time,   \* p->cpu_time
  cur,        \* c->proc: the process running on each hart
  claim,      \* the process scheduler() has picked but not yet locked
  setp,       \* the process whose p->lock a setPriority on this hart holds
  tick        \* progress of sched_tick on BOOTCPU: pc, level i, node p, saved nx

vars == <<rq, state, priority, wait_time, cpu_time, cur, claim, setp, tick>>

-----------------------------------------------------------------------------
(* The data structure.                                                     *)

\* C's integer division truncates; wait_time and cpu_time are never negative.
runq_dyn(prio, wait, cpu) ==
  LET d == prio + (wait \div AGE) - (cpu \div AGE)
  IN  IF d < 0 THEN 0 ELSE IF d > RUNQ_LEN - 1 THEN RUNQ_LEN - 1 ELSE d

Dyn(p) == runq_dyn(priority[p], wait_time[p], cpu_time[p])

runq_init ==
  [head |-> [i \in Level |-> NULL], tail |-> [i \in Level |-> NULL],
   bitmap |-> {},
   next |-> [p \in Proc |-> NULL], prev |-> [p \in Proc |-> NULL],
   on |-> [p \in Proc |-> FALSE], dyn |-> [p \in Proc |-> 0]]

\* Tail insertion of p at level i = runq_dyn(p).
runq_enqueue(q, p, i) ==
  IF q.on[p] THEN q
  ELSE [head |-> IF q.tail[i] = NULL THEN [q.head EXCEPT ![i] = p] ELSE q.head,
        tail |-> [q.tail EXCEPT ![i] = p],
        bitmap |-> q.bitmap \cup {i},
        next |-> [x \in Proc |-> IF x = q.tail[i] THEN p
                                 ELSE IF x = p THEN NULL ELSE q.next[x]],
        prev |-> [q.prev EXCEPT ![p] = q.tail[i]],
        on |-> [q.on EXCEPT ![p] = TRUE],
        dyn |-> [q.dyn EXCEPT ![p] = i]]

\* Mutant: the successor keeps its stale predecessor link.
BugRemove(q, p) ==
  IF ~ q.on[p] THEN q
  ELSE LET i  == q.dyn[p]
           hd == IF q.prev[p] = NULL THEN [q.head EXCEPT ![i] = q.next[p]] ELSE q.head
       IN  [q EXCEPT !.head = hd,
                     !.tail = IF q.next[p] = NULL THEN [@ EXCEPT ![i] = q.prev[p]] ELSE @,
                     !.bitmap = IF hd[i] = NULL THEN @ \ {i} ELSE @,
                     !.next = [x \in Proc |-> IF x = p THEN NULL
                                  ELSE IF x = q.prev[p] THEN q.next[p] ELSE q.next[x]],
                     !.prev = [@ EXCEPT ![p] = NULL],
                     !.on = [@ EXCEPT ![p] = FALSE]]

\* Unlink p from the level it was filed under.
runq_remove(q, p) ==
  IF ~ q.on[p] THEN q
  ELSE LET i  == q.dyn[p]
           nx == q.next[p]
           pr == q.prev[p]
           hd == IF pr = NULL THEN [q.head EXCEPT ![i] = nx] ELSE q.head
       IN  [head |-> hd,
            tail |-> IF nx = NULL THEN [q.tail EXCEPT ![i] = pr] ELSE q.tail,
            bitmap |-> IF hd[i] = NULL THEN q.bitmap \ {i} ELSE q.bitmap,
            next |-> [x \in Proc |-> IF x = p THEN NULL
                                     ELSE IF x = pr THEN nx ELSE q.next[x]],
            prev |-> [x \in Proc |-> IF x = p THEN NULL
                                     ELSE IF x = nx THEN pr ELSE q.prev[x]],
            on |-> [q.on EXCEPT ![p] = FALSE],
            dyn |-> q.dyn]

\* Mutant: the highest bit is taken.
BugCtz(bits) == CHOOSE i \in bits : \A j \in bits : j <= i

\* Position of the lowest 1 bit of a non-zero bitmap (see Ctz.tla).
ctz64(bits) == CHOOSE i \in bits : \A j \in bits : i <= j

\* Node number n (from 0) of the list at level i, NULL past its end.
Node(q, i) ==
  LET node[n \in 0 .. Cardinality(Proc)] ==
        IF n = 0 THEN q.head[i]
        ELSE IF node[n - 1] = NULL THEN NULL ELSE q.next[node[n - 1]]
  IN  node

\* The processes a walk along run_next from every head meets.
Linked(q) ==
  UNION {LET node == Node(q, i) IN {node[n] : n \in DOMAIN node} : i \in Level}
    \ {NULL}

-----------------------------------------------------------------------------
\* runq_lock is held across sched_tick's loops; every other holder is one step.
RunqFree == tick.pc \notin {"scan", "move"}

\* Nobody is inside a setPriority that holds p->lock.
Unlocked(p) == \A c \in CPU : setp[c] # p

\* Hart c executes its own code: no tick is being served on it, no call pends.
Active(c) == setp[c] = NULL /\ (c = BOOTCPU => tick.pc = "idle")

\* The counters are C ints; they saturate instead of growing without bound.
Inc(n) == IF n < MAXTIME THEN n + 1 ELSE n

Init ==
  /\ rq = runq_enqueue(runq_init, INITPROC, DEFPRIO)
  /\ state = [p \in Proc |-> IF p = INITPROC THEN "RUNNABLE" ELSE "UNUSED"]
  /\ priority = [p \in Proc |-> DEFPRIO]
  /\ wait_time = [p \in Proc |-> 0]
  /\ cpu_time = [p \in Proc |-> 0]
  /\ cur = [c \in CPU |-> NULL]
  /\ claim = [c \in CPU |-> NULL]
  /\ setp = [c \in CPU |-> NULL]
  /\ tick = [pc |-> "idle", i |-> 0, p |-> NULL, nx |-> NULL]

\* Mutant: the picked process stays on the queue.
BugPick(c) ==
  /\ Active(c) /\ cur[c] = NULL /\ claim[c] = NULL
  /\ RunqFree /\ rq.bitmap # {}
  /\ claim' = [claim EXCEPT ![c] = rq.head[ctz64(rq.bitmap)]]
  /\ UNCHANGED <<rq, state, priority, wait_time, cpu_time, cur, setp, tick>>

\* Mutant: the head is taken without runq_lock.
BugPickUnlocked(c) ==
  /\ Active(c) /\ cur[c] = NULL /\ claim[c] = NULL
  /\ rq.bitmap # {}
  /\ LET p == rq.head[ctz64(rq.bitmap)]
     IN  /\ rq' = runq_remove(rq, p)
         /\ claim' = [claim EXCEPT ![c] = p]
  /\ UNCHANGED <<state, priority, wait_time, cpu_time, cur, setp, tick>>

\* scheduler(): take the head of the lowest non-empty level off the queue.
\* With an empty bitmap the hart executes wfi and nothing changes.
runq_pick(c) ==
  /\ Active(c) /\ cur[c] = NULL /\ claim[c] = NULL
  /\ RunqFree
  /\ rq.bitmap # {}
  /\ LET p == rq.head[ctz64(rq.bitmap)]
     IN  /\ rq' = runq_remove(rq, p)
         /\ claim' = [claim EXCEPT ![c] = p]
  /\ UNCHANGED <<state, priority, wait_time, cpu_time, cur, setp, tick>>

\* scheduler(): lock the picked process and switch to it; a process that is no
\* longer RUNNABLE is put back on the queue.
scheduler(c) ==
  /\ Active(c)
  /\ claim[c] # NULL
  /\ LET p == claim[c]
     IN  /\ Unlocked(p)
         /\ claim' = [claim EXCEPT ![c] = NULL]
         /\ IF state[p] # "RUNNABLE"
            THEN /\ RunqFree
                 /\ rq' = runq_enqueue(rq, p, Dyn(p))
                 /\ UNCHANGED <<state, wait_time, cur>>
            ELSE /\ state' = [state EXCEPT ![p] = "RUNNING"]
                 /\ wait_time' = [wait_time EXCEPT ![p] = 0]
                 /\ cur' = [cur EXCEPT ![c] = p]
                 /\ UNCHANGED rq
  /\ UNCHANGED <<priority, cpu_time, setp, tick>>

\* yield(), at the end of every timer interrupt or called by the kernel.
yield(c) ==
  /\ cur[c] # NULL /\ setp[c] = NULL
  /\ c = BOOTCPU => tick.pc \in {"idle", "yield"}
  /\ RunqFree
  /\ LET p == cur[c]
     IN  /\ Unlocked(p)
         /\ state' = [state EXCEPT ![p] = "RUNNABLE"]
         /\ rq' = runq_enqueue(rq, p, Dyn(p))
  /\ cur' = [cur EXCEPT ![c] = NULL]
  /\ tick' = IF c = BOOTCPU THEN [tick EXCEPT !.pc = "idle"] ELSE tick
  /\ UNCHANGED <<priority, wait_time, cpu_time, claim, setp>>

\* Mutant: c->proc is left set when the process sleeps.
BugSleep(c) ==
  /\ Active(c) /\ cur[c] # NULL
  /\ Unlocked(cur[c])
  /\ state' = [state EXCEPT ![cur[c]] = "SLEEPING"]
  /\ UNCHANGED <<rq, priority, wait_time, cpu_time, cur, claim, setp, tick>>

\* sleep(): the running process blocks and leaves the hart.
sleep(c) ==
  /\ Active(c) /\ cur[c] # NULL
  /\ Unlocked(cur[c])
  /\ state' = [state EXCEPT ![cur[c]] = "SLEEPING"]
  /\ cur' = [cur EXCEPT ![c] = NULL]
  /\ UNCHANGED <<rq, priority, wait_time, cpu_time, claim, setp, tick>>

\* exit(): every process but init may end; its slot waits for the parent.
\* usertrap() makes a killed process exit instead of yield.
exit(c) ==
  /\ cur[c] # NULL /\ setp[c] = NULL
  /\ c = BOOTCPU => tick.pc \in {"idle", "yield"}
  /\ cur[c] # INITPROC
  /\ Unlocked(cur[c])
  /\ state' = [state EXCEPT ![cur[c]] = "ZOMBIE"]
  /\ cur' = [cur EXCEPT ![c] = NULL]
  /\ tick' = IF c = BOOTCPU THEN [tick EXCEPT !.pc = "idle"] ELSE tick
  /\ UNCHANGED <<rq, priority, wait_time, cpu_time, claim, setp>>

\* wakeup(), wakeup1() or kill() find p asleep.
wakeup(p) ==
  /\ state[p] = "SLEEPING" /\ Unlocked(p) /\ RunqFree
  /\ state' = [state EXCEPT ![p] = "RUNNABLE"]
  /\ rq' = runq_enqueue(rq, p, Dyn(p))
  /\ UNCHANGED <<priority, wait_time, cpu_time, cur, claim, setp, tick>>

\* fork() by the process on hart c: allocproc() resets the slot's scheduling
\* fields, then the child becomes RUNNABLE at the default priority.
fork(c, p) ==
  /\ Active(c) /\ cur[c] # NULL
  /\ state[p] = "UNUSED" /\ Unlocked(p) /\ RunqFree
  /\ state' = [state EXCEPT ![p] = "RUNNABLE"]
  /\ priority' = [priority EXCEPT ![p] = DEFPRIO]
  /\ wait_time' = [wait_time EXCEPT ![p] = 0]
  /\ cpu_time' = [cpu_time EXCEPT ![p] = 0]
  /\ rq' = runq_enqueue([rq EXCEPT !.dyn = [@ EXCEPT ![p] = DEFPRIO]], p,
                        runq_dyn(DEFPRIO, 0, 0))
  /\ UNCHANGED <<cur, claim, setp, tick>>

\* freeproc(), called by wait() on hart c for a zombie child.
freeproc(c, p) ==
  /\ Active(c) /\ cur[c] # NULL
  /\ state[p] = "ZOMBIE" /\ Unlocked(p) /\ RunqFree
  /\ state' = [state EXCEPT ![p] = "UNUSED"]
  /\ rq' = runq_remove(rq, p)
  /\ UNCHANGED <<priority, wait_time, cpu_time, cur, claim, setp, tick>>

\* setPriority(), first half: lock whatever slot had the pid and store the new
\* priority.  The slot is found without a lock, so any slot can be hit.
setPriority(c, p, v) ==
  /\ Active(c) /\ cur[c] # NULL
  /\ Unlocked(p)
  /\ priority' = [priority EXCEPT ![p] = v]
  /\ setp' = [setp EXCEPT ![c] = p]
  /\ UNCHANGED <<rq, state, wait_time, cpu_time, cur, claim, tick>>

\* Mutant: a queued process is not refiled.
BugRequeue(c) ==
  /\ setp[c] # NULL /\ RunqFree
  /\ setp' = [setp EXCEPT ![c] = NULL]
  /\ UNCHANGED <<rq, state, priority, wait_time, cpu_time, cur, claim, tick>>

\* setPriority(), second half, under runq_lock too: refile the process.
setPriority_requeue(c) ==
  /\ setp[c] # NULL /\ RunqFree
  /\ LET p == setp[c]
     IN  rq' = IF rq.on[p] THEN runq_enqueue(runq_remove(rq, p), p, Dyn(p))
               ELSE [rq EXCEPT !.dyn = [@ EXCEPT ![p] = Dyn(p)]]
  /\ setp' = [setp EXCEPT ![c] = NULL]
  /\ UNCHANGED <<state, priority, wait_time, cpu_time, cur, claim, tick>>

-----------------------------------------------------------------------------
(* sched_tick(), run by the timer interrupt of BOOTCPU.                    *)

\* Loop 1: everything on the queue ages by one tick.
tick_age ==
  /\ tick.pc = "idle" /\ setp[BOOTCPU] = NULL
  /\ wait_time' = [p \in Proc |-> IF p \in Linked(rq) THEN Inc(wait_time[p])
                                  ELSE wait_time[p]]
  /\ tick' = [pc |-> "scan", i |-> 0, p |-> rq.head[0], nx |-> NULL]
  /\ UNCHANGED <<rq, state, priority, cpu_time, cur, claim, setp>>

\* Loop 2, one iteration: save the successor and compare the level; at the end
\* of a list go on with the next one, at the end of all release runq_lock.
tick_scan ==
  /\ tick.pc = "scan"
  /\ tick' = IF tick.p # NULL
             THEN IF Dyn(tick.p) # tick.i
                  THEN [tick EXCEPT !.pc = "move", !.nx = rq.next[tick.p]]
                  ELSE [tick EXCEPT !.p = rq.next[tick.p]]
             ELSE IF tick.i < RUNQ_LEN - 1
                  THEN [tick EXCEPT !.i = @ + 1, !.p = rq.head[tick.i + 1]]
                  ELSE [tick EXCEPT !.pc = "cpu", !.i = 0]
  /\ UNCHANGED <<rq, state, priority, wait_time, cpu_time, cur, claim, setp>>

\* Loop 2, the node's level changed: unlink it and file it again.
tick_move ==
  /\ tick.pc = "move"
  /\ rq' = runq_enqueue(runq_remove(rq, tick.p), tick.p, Dyn(tick.p))
  /\ tick' = [tick EXCEPT !.pc = "scan", !.p = tick.nx, !.nx = NULL]
  /\ UNCHANGED <<state, priority, wait_time, cpu_time, cur, claim, setp>>

\* Part 3: charge the process the interrupt came from, if any; the trap handler
\* then makes that process yield.
tick_cpu ==
  /\ tick.pc = "cpu"
  /\ LET r == cur[BOOTCPU]
     IN  IF r = NULL
         THEN tick' = [tick EXCEPT !.pc = "idle"] /\ UNCHANGED cpu_time
         ELSE /\ Unlocked(r)
              /\ cpu_time' = [cpu_time EXCEPT ![r] = Inc(@)]
              /\ tick' = [tick EXCEPT !.pc = "yield"]
  /\ UNCHANGED <<rq, state, priority, wait_time, cur, claim, setp>>

sched_tick == tick_age \/ tick_scan \/ tick_move \/ tick_cpu

Next ==
  \/ sched_tick
  \/ \E c \in CPU : \/ runq_pick(c) \/ scheduler(c) \/ yield(c) \/ sleep(c)
                    \/ exit(c) \/ setPriority_requeue(c)
                    \/ \E p \in Proc : \/ fork(c, p) \/ freeproc(c, p)
                                       \/ \E v \in PRIO : setPriority(c, p, v)
  \/ \E p \in Proc : wakeup(p)

Spec == Init /\ [][Next]_vars

\* Fairness.  A timer interrupt reaches every hart again and again, so ticks
\* keep coming and a running process is made to yield.  Serving a tick takes
\* less than the time between two, so the interrupted code of the hart gets on
\* (strong fairness: each tick disables it for a while).  Nothing forces a
\* process to sleep, exit, fork or call setPriority, nor a sleeping one to be
\* woken.
Fairness ==
  /\ WF_vars(sched_tick)
  /\ \A c \in CPU : /\ SF_vars(runq_pick(c)) /\ SF_vars(scheduler(c))
                    /\ SF_vars(yield(c)) /\ SF_vars(setPriority_requeue(c))

FairSpec == Spec /\ Fairness

-----------------------------------------------------------------------------
(* Properties.                                                             *)

RQType == [head : [Level -> ProcOrNull], tail : [Level -> ProcOrNull],
           bitmap : SUBSET Level,
           next : [Proc -> ProcOrNull], prev : [Proc -> ProcOrNull],
           on : [Proc -> BOOLEAN], dyn : [Proc -> Level]]

TickType == [pc : {"idle", "scan", "move", "cpu", "yield"}, i : Level,
             p : ProcOrNull, nx : ProcOrNull]

\* Every field holds a value of its C type; dyn_priority is a legal index of
\* runq_head and runq_tail whatever int setPriority was given.
TypeOK ==
  /\ rq \in RQType
  /\ state \in [Proc -> State]
  /\ priority \in [Proc -> Int]
  /\ wait_time \in [Proc -> 0 .. MAXTIME]
  /\ cpu_time \in [Proc -> 0 .. MAXTIME]
  /\ cur \in [CPU -> ProcOrNull]
  /\ claim \in [CPU -> ProcOrNull]
  /\ setp \in [CPU -> ProcOrNull]
  /\ tick \in TickType

\* The ends of each list: head and tail are both null or both set, the head has
\* no predecessor, the tail no successor, and both are filed under that level.
EndsOK(q) ==
  \A i \in Level :
    /\ q.head[i] = NULL <=> q.tail[i] = NULL
    /\ q.head[i] # NULL => /\ q.on[q.head[i]] /\ q.dyn[q.head[i]] = i
                           /\ q.prev[q.head[i]] = NULL
    /\ q.tail[i] # NULL => /\ q.on[q.tail[i]] /\ q.dyn[q.tail[i]] = i
                           /\ q.next[q.tail[i]] = NULL

\* The links: next and prev are inverse and stay within one level; a queued
\* process without predecessor (successor) is the head (tail) of its level; a
\* process off the queue has no links.
LinksOK(q) ==
  \A p \in Proc :
    IF q.on[p]
    THEN /\ IF q.next[p] = NULL THEN q.tail[q.dyn[p]] = p
            ELSE /\ q.on[q.next[p]] /\ q.dyn[q.next[p]] = q.dyn[p]
                 /\ q.prev[q.next[p]] = p
         /\ IF q.prev[p] = NULL THEN q.head[q.dyn[p]] = p
            ELSE /\ q.on[q.prev[p]] /\ q.dyn[q.prev[p]] = q.dyn[p]
                 /\ q.next[q.prev[p]] = p
    ELSE q.next[p] = NULL /\ q.prev[p] = NULL

\* Bit i of runq_bitmap is set exactly when level i is non-empty.
BitmapOK(q) == \A i \in Level : i \in q.bitmap <=> q.head[i] # NULL

\* The doubly linked lists and the bitmap are consistent with each other and
\* with the on_runq and dyn_priority fields after every section of runq_lock and
\* after every iteration of the tick's loop.
ListOK == EndsOK(rq) /\ LinksOK(rq) /\ BitmapOK(rq)

\* A queued process is filed under its current dynamic priority, except while
\* a tick is rebucketing or a setPriority on it waits for runq_lock.
BucketFresh ==
  RunqFree => \A p \in Proc : rq.on[p] /\ Unlocked(p) => rq.dyn[p] = Dyn(p)

\* A process is RUNNABLE exactly when it is queued or picked, never both, and
\* picked by one scheduler() only: none is forgotten, none can be run twice, and
\* scheduler()'s branch for a picked process that is not RUNNABLE is dead code.
RunnableAccounted ==
  \A p \in Proc :
    /\ state[p] = "RUNNABLE" <=> (rq.on[p] \/ \E c \in CPU : claim[c] = p)
    /\ rq.on[p] => \A c \in CPU : claim[c] # p
    /\ \A c, d \in CPU : claim[c] = p /\ claim[d] = p => c = d

\* A process is RUNNING exactly when it is the current process of one hart.
RunsOnOneHart ==
  \A p \in Proc :
    /\ state[p] = "RUNNING" <=> \E c \in CPU : cur[c] = p
    /\ \A c, d \in CPU : cur[c] = p /\ cur[d] = p => c = d

\* The states of processes agree with the queue and with the harts.
StatesAgree == RunnableAccounted /\ RunsOnOneHart

\* The node sched_tick looks at, and the successor it saved before moving that
\* node to another list, are on the queue when it gets to them.
TickHasNode ==
  /\ ~ RunqFree /\ tick.p # NULL => rq.on[tick.p]
  /\ tick.pc = "move" => /\ tick.p # NULL
                         /\ tick.nx # NULL => rq.on[tick.nx]

\* "Aging prevents the starvation of low-priority processes" (sched_o1.c:113):
\* a queued process is eventually picked and run.
NoStarvation == \A p \in Proc : rq.on[p] ~> state[p] = "RUNNING"
=============================================================================
