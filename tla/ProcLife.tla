------------------------------ MODULE ProcLife ------------------------------
(***************************************************************************)
(* The life of a process: fork, exit, reparent, wait and kill              *)
(* (kernel/proc/proc.c) over the process table, at the level of p->lock.   *)
(*                                                                         *)
(* The rules that make this hard are in the comments of the code: a parent *)
(* is locked before its child, p->parent is read without p->lock, and a    *)
(* parent may exit and give its children to init at any moment.  Being     *)
(* scheduled is not modelled: a process whose state is RUNNABLE runs.      *)
(***************************************************************************)
EXTENDS Integers, FiniteSets

CONSTANTS
  NPROC,   \* slots of the process table; slot 1 is init
  Victims, \* processes kill() is aimed at
  NULL

Proc == 1 .. NPROC
initproc == 1

ASSUME LifeConstants ==
  NPROC \in Nat \ {0} /\ NULL \notin Proc /\ Victims \subseteq Proc \ {initproc}

VARIABLES
  state,   \* p->state; RUNNABLE stands for RUNNING too
  parent,  \* p->parent
  waits,   \* p->chan is p: the process sleeps in wait()
  killed,  \* p->killed
  plock,   \* process whose code holds p->lock
  pc,      \* where each process is
  orig,    \* original_parent, local to exit()
  idx,     \* loop variable of wait() and reparent()
  havekids \* local to wait()

vars == <<state, parent, waits, killed, plock, pc, orig, idx, havekids>>

At(p, l) == state[p] = "RUNNABLE" /\ pc[p] = l
Goto(p, l) == pc' = [pc EXCEPT ![p] = l]
Free(q) == plock[q] = NULL

\* wakeup1(q): end q's sleep in wait(), if that is what it sleeps in.
Wakeup1(q, s) == IF waits[q] /\ s[q] = "SLEEPING" THEN [s EXCEPT ![q] = "RUNNABLE"] ELSE s

-----------------------------------------------------------------------------
\* userinit(): init is the only process.
Init ==
  /\ state = [p \in Proc |-> IF p = initproc THEN "RUNNABLE" ELSE "UNUSED"]
  /\ parent = [p \in Proc |-> NULL]
  /\ waits = [p \in Proc |-> FALSE]
  /\ killed = [p \in Proc |-> FALSE]
  /\ plock = [p \in Proc |-> NULL]
  /\ pc = [p \in Proc |-> "user"]
  /\ orig = [p \in Proc |-> NULL]
  /\ idx = [p \in Proc |-> 1]
  /\ havekids = [p \in Proc |-> FALSE]

\* fork(): allocproc() takes a free slot, whose lock is held until the child is
\* RUNNABLE.  (If memory runs out the slot is freed again: nothing changes.)
fork(p, np) ==
  /\ At(p, "user")
  /\ state[np] = "UNUSED"
  /\ Free(np)
  /\ state' = [state EXCEPT ![np] = "RUNNABLE"]
  /\ parent' = [parent EXCEPT ![np] = p]
  /\ pc' = [pc EXCEPT ![np] = "user"]
  /\ UNCHANGED <<waits, killed, plock, orig, idx, havekids>>

\* kill(q), by any process.
kill(p, q) ==
  /\ At(p, "user")
  /\ q \in Victims
  /\ state[q] # "UNUSED"
  /\ Free(q)
  /\ killed' = [killed EXCEPT ![q] = TRUE]
  /\ state' = IF state[q] = "SLEEPING" THEN [state EXCEPT ![q] = "RUNNABLE"] ELSE state
  /\ UNCHANGED <<parent, waits, plock, pc, orig, idx, havekids>>

-----------------------------------------------------------------------------
(* exit().                                                                 *)

\* Files are closed and the address space given up; then init is woken in case
\* it is about to inherit children.  init itself must not exit.
exit(p) ==
  /\ At(p, "user")
  /\ p # initproc
  /\ Free(initproc)
  /\ state' = Wakeup1(initproc, state)
  /\ Goto(p, "exit_parent")
  /\ UNCHANGED <<parent, waits, killed, plock, orig, idx, havekids>>

\* Copy p->parent under p->lock.
exit_parent(p) ==
  /\ At(p, "exit_parent")
  /\ Free(p)
  /\ orig' = [orig EXCEPT ![p] = parent[p]]
  /\ Goto(p, "exit_lock")
  /\ UNCHANGED <<state, parent, waits, killed, plock, idx, havekids>>

\* Mutant: the child first, then the parent.
BugLock(p) ==
  /\ At(p, "exit_lock")
  /\ LET q == IF plock[p] = p THEN orig[p] ELSE p IN
     /\ Free(q)
     /\ plock' = [plock EXCEPT ![q] = p]
     /\ Goto(p, IF q = p THEN "exit_lock" ELSE "reparent")
  /\ UNCHANGED <<state, parent, waits, killed, orig, idx, havekids>>

\* acquire(&original_parent->lock): the parent first ...
exit_lock(p) ==
  /\ At(p, "exit_lock")
  /\ Free(orig[p])
  /\ plock' = [plock EXCEPT ![orig[p]] = p]
  /\ Goto(p, "exit_self")
  /\ UNCHANGED <<state, parent, waits, killed, orig, idx, havekids>>

\* ... then the child.
exit_self(p) ==
  /\ At(p, "exit_self")
  /\ Free(p)
  /\ plock' = [plock EXCEPT ![p] = p]
  /\ idx' = [idx EXCEPT ![p] = 1]
  /\ Goto(p, "reparent")
  /\ UNCHANGED <<state, parent, waits, killed, orig, havekids>>

\* Mutant: the last slot of the table is not looked at.
BugReparent(p) ==
  /\ At(p, "reparent")
  /\ idx[p] < NPROC
  /\ parent[idx[p]] = p => Free(idx[p])
  /\ parent' = IF parent[idx[p]] = p THEN [parent EXCEPT ![idx[p]] = initproc] ELSE parent
  /\ idx' = [idx EXCEPT ![p] = @ + 1]
  /\ Goto(p, IF idx[p] = NPROC - 1 THEN "exit_zombie" ELSE "reparent")
  /\ UNCHANGED <<state, waits, killed, plock, orig, havekids>>

\* reparent(): one slot; its parent is read without its lock.
reparent(p) ==
  /\ At(p, "reparent")
  /\ parent[idx[p]] = p => Free(idx[p])
  /\ parent' = IF parent[idx[p]] = p THEN [parent EXCEPT ![idx[p]] = initproc] ELSE parent
  /\ idx' = [idx EXCEPT ![p] = IF @ = NPROC THEN 1 ELSE @ + 1]
  /\ Goto(p, IF idx[p] = NPROC THEN "exit_zombie" ELSE "reparent")
  /\ UNCHANGED <<state, waits, killed, plock, orig, havekids>>

\* Mutant: the parent is not woken.
BugZombie(p) ==
  /\ At(p, "exit_zombie")
  /\ state' = [state EXCEPT ![p] = "ZOMBIE"]
  /\ plock' = [plock EXCEPT ![orig[p]] = NULL]
  /\ Goto(p, "dead")
  /\ UNCHANGED <<parent, waits, killed, orig, idx, havekids>>

\* Wake the parent, become a ZOMBIE, release the parent's lock; sched().
exit_zombie(p) ==
  /\ At(p, "exit_zombie")
  /\ state' = [Wakeup1(orig[p], state) EXCEPT ![p] = "ZOMBIE"]
  /\ plock' = [plock EXCEPT ![orig[p]] = NULL]
  /\ Goto(p, "dead")
  /\ UNCHANGED <<parent, waits, killed, orig, idx, havekids>>

\* scheduler() has left the dead process's stack and releases its lock.
dead(p) ==
  /\ state[p] = "ZOMBIE" /\ pc[p] = "dead" /\ plock[p] = p
  /\ plock' = [plock EXCEPT ![p] = NULL]
  /\ UNCHANGED <<state, parent, waits, killed, pc, orig, idx, havekids>>

-----------------------------------------------------------------------------
(* wait().                                                                 *)

\* acquire(&p->lock): on entry, and when sleep() returns.
wait(p) ==
  /\ At(p, "user") \/ At(p, "asleep")
  /\ Free(p)
  /\ plock' = [plock EXCEPT ![p] = p]
  /\ waits' = [waits EXCEPT ![p] = FALSE]
  /\ idx' = [idx EXCEPT ![p] = 1]
  /\ havekids' = [havekids EXCEPT ![p] = FALSE]
  /\ Goto(p, "wait")
  /\ UNCHANGED <<state, parent, killed, orig>>

\* freeproc() of slot q, and wait() returns with both locks released.
freeproc(p, q) ==
  /\ state' = [state EXCEPT ![q] = "UNUSED"]
  /\ parent' = [parent EXCEPT ![q] = NULL]
  /\ killed' = [killed EXCEPT ![q] = FALSE]
  /\ waits' = [waits EXCEPT ![q] = FALSE]
  /\ orig' = [orig EXCEPT ![q] = NULL]
  /\ plock' = [plock EXCEPT ![p] = NULL]
  /\ idx' = [idx EXCEPT ![p] = 1]
  /\ havekids' = [havekids EXCEPT ![p] = FALSE]
  /\ pc' = [pc EXCEPT ![p] = "user", ![q] = "user"]

\* Mutant: the child's lock is not taken before its state is looked at.
BugWaitScan(p) ==
  LET q == idx[p]
  IN  /\ At(p, "wait")
      /\ IF parent[q] = p /\ state[q] = "ZOMBIE"
         THEN freeproc(p, q)
         ELSE /\ havekids' = [havekids EXCEPT ![p] = @ \/ parent[q] = p]
              /\ idx' = [idx EXCEPT ![p] = IF @ = NPROC THEN 1 ELSE @ + 1]
              /\ Goto(p, IF q = NPROC THEN "wait_end" ELSE "wait")
              /\ UNCHANGED <<state, parent, waits, killed, plock, orig>>

\* One slot of the table: reap it if it is a ZOMBIE child of p.  If the exit
\* status cannot be copied out, wait() fails and the child stays (init asks for no
\* status).
wait_scan(p) ==
  LET q == idx[p]
  IN  /\ At(p, "wait")
      /\ parent[q] = p => Free(q)
      /\ IF parent[q] = p /\ state[q] = "ZOMBIE"
         THEN \/ freeproc(p, q)
              \/ /\ p # initproc
                 /\ plock' = [plock EXCEPT ![p] = NULL]
                 /\ idx' = [idx EXCEPT ![p] = 1]
                 /\ havekids' = [havekids EXCEPT ![p] = FALSE]
                 /\ Goto(p, "user")
                 /\ UNCHANGED <<state, parent, waits, killed, orig>>
         ELSE /\ havekids' = [havekids EXCEPT ![p] = @ \/ parent[q] = p]
              /\ idx' = [idx EXCEPT ![p] = IF @ = NPROC THEN 1 ELSE @ + 1]
              /\ Goto(p, IF q = NPROC THEN "wait_end" ELSE "wait")
              /\ UNCHANGED <<state, parent, waits, killed, plock, orig>>

\* The end of the table: give up, or sleep with p->lock held until the
\* scheduler has it.
wait_end(p) ==
  /\ At(p, "wait_end")
  /\ plock' = [plock EXCEPT ![p] = NULL]
  /\ IF ~ havekids[p] \/ killed[p]
     THEN Goto(p, "user") /\ UNCHANGED <<state, waits>>
     ELSE /\ state' = [state EXCEPT ![p] = "SLEEPING"]
          /\ waits' = [waits EXCEPT ![p] = TRUE]
          /\ Goto(p, "asleep")
  /\ havekids' = [havekids EXCEPT ![p] = FALSE]
  /\ UNCHANGED <<parent, killed, orig, idx>>

Exit(p) == \/ exit_parent(p) \/ exit_lock(p) \/ exit_self(p)
           \/ reparent(p) \/ exit_zombie(p) \/ dead(p)
Wait(p) == wait(p) \/ wait_scan(p) \/ wait_end(p)

Next ==
  \E p \in Proc :
    \/ Exit(p) \/ Wait(p) \/ exit(p)
    \/ \E q \in Proc : fork(p, q) \/ kill(p, q)

Spec == Init /\ [][Next]_vars

-----------------------------------------------------------------------------
(* Properties.                                                             *)

\* Every process but init has a parent that can still call wait() for it:
\* reparent() leaves nobody behind, whatever exits at the same time.
ParentAlive ==
  \A p \in Proc \ {initproc} :
    state[p] # "UNUSED" => /\ parent[p] # NULL
                           /\ state[parent[p]] \in {"RUNNABLE", "SLEEPING"}

\* A parent does not sleep in wait() with a child to reap, unless the child came
\* to it by reparent(): between the scan of the table and SLEEPING the parent
\* holds the lock its child needs to become a ZOMBIE.
NoLostExit ==
  \A p \in Proc : state[p] = "ZOMBIE" /\ orig[p] = parent[p]
                    => ~ (state[parent[p]] = "SLEEPING" /\ waits[parent[p]])

\* A slot is freed, and can be forked into, only after the scheduler has left
\* the stack of the process that died in it.
FreedSlotIsQuiet ==
  \A p \in Proc : state[p] = "UNUSED" => plock[p] # p

\* The lock that the code of p spins for, or may find held in its next step.
Spins(p) ==
  CASE At(p, "exit_parent") \/ At(p, "exit_self") \/ At(p, "asleep") -> p
    [] At(p, "exit_lock") -> orig[p]
    [] (At(p, "reparent") \/ At(p, "wait")) /\ parent[idx[p]] = p -> idx[p]
    [] OTHER -> NULL

\* Each process of S spins for a lock that one of S holds: none of them ever goes on.
Stuck(S) == \A p \in S : Spins(p) # NULL /\ plock[Spins(p)] \in S

\* p holds the lock of what was its parent, and is so no longer.
StaleParent(p) == pc[p] \in {"exit_self", "reparent"} /\ orig[p] # parent[p]

\* exit() and wait() take the parent's lock before the child's, so that processes that
\* exit and wait at the same time do not wait for each other for ever.  There is one way
\* they do: exit() has copied p->parent and lets go of p->lock, the parent exits and is
\* reaped, its slot is given to a new process, and exit() locks that one as if it stood
\* above p.
OnlyStaleParentBlocks ==
  \A S \in SUBSET Proc : S # {} /\ Stuck(S) => \E p \in S : StaleParent(p)

=============================================================================
