----------------------------- MODULE Semaphore -----------------------------
(***************************************************************************)
(* Counting semaphores, sys_sem_create(), sys_sem_free(), sys_sem_p() and  *)
(* sys_sem_v() of kernel/sysproc.c, with the sleep() and wakeup() they     *)
(* call.  One semaphore; processes bracket their work with P and V, create *)
(* and free it whenever they like, and are killed anywhere.                *)
(*                                                                         *)
(* A step is the code from one acquire() to the next.  sleep() gives up    *)
(* p->lock when the process is off its stack, and the scheduler takes it   *)
(* again before the process goes on.  A killed process exits when a call   *)
(* returns; "dead" is one that exits after P, "gone" one that exits else.  *)
(***************************************************************************)
EXTENDS Integers, FiniteSets

CONSTANTS
  NPROC,    \* processes
  N,        \* resources the semaphore is created with
  Victims,  \* processes that may be killed
  NULL

Proc == 1 .. NPROC

VARIABLES
  allocated, resource_count,
  semlock,   \* process that holds sems[id].lock
  plock,     \* process that holds proc[p].lock
  pc, idx,   \* where a process is, and the loop variable of wakeup()
  killed,
  stale,     \* processes past their P when the count was last set
  extra      \* how many of them have called V since

vars == <<allocated, resource_count, semlock, plock, pc, idx, killed, stale, extra>>

At(l) == {p \in Proc : pc[p] \in l}

\* Processes that have counted down and not up; the dead never will.
Users == At({"p_sleep", "asleep", "woken", "in", "dead"})

-----------------------------------------------------------------------------
Init ==
  /\ allocated = FALSE
  /\ resource_count = 0
  /\ semlock = NULL
  /\ plock = [p \in Proc |-> NULL]
  /\ pc = [p \in Proc |-> "out"]
  /\ idx = [p \in Proc |-> 1]
  /\ killed = {}
  /\ stale = {} /\ extra = 0

goto(p, l) == pc' = [pc EXCEPT ![p] = l]

\* A call returns: the process goes on at l, or exits if it has been killed.
return(p, l) ==
  goto(p, IF p \notin killed THEN l ELSE IF l = "in" THEN "dead" ELSE "gone")

\* The count is set anew, whoever is past P.
restart == stale' = Users /\ extra' = 0

\* sys_sem_create(): the first semaphore that is not allocated.
sem_create(p) ==
  /\ pc[p] = "out" /\ semlock = NULL
  /\ ~ allocated
  /\ allocated' = TRUE
  /\ resource_count' = N
  /\ restart
  /\ return(p, "out")
  /\ UNCHANGED <<semlock, plock, idx, killed>>

\* sys_sem_free(), also while processes hold the resource or wait for it.
sem_free(p) ==
  /\ pc[p] = "out" /\ semlock = NULL
  /\ allocated
  /\ allocated' = FALSE
  /\ resource_count' = 0
  /\ restart
  /\ return(p, "out")
  /\ UNCHANGED <<semlock, plock, idx, killed>>

\* sys_sem_p(): acquire(&p->lock).  Nobody asks whether the semaphore is allocated.
sem_p(p) ==
  /\ pc[p] = "out"
  /\ plock[p] = NULL
  /\ plock' = [plock EXCEPT ![p] = p]
  /\ goto(p, "p_sem")
  /\ UNCHANGED <<allocated, resource_count, semlock, idx, killed, stale, extra>>

\* Mutant: p->lock is taken by sleep(), after the decision to sleep.
BugTake(p) ==
  /\ pc[p] = "p_sem"
  /\ semlock = NULL
  /\ resource_count' = resource_count - 1
  /\ plock' = [plock EXCEPT ![p] = NULL]
  /\ IF resource_count > 0 THEN return(p, "in") ELSE goto(p, "p_sleep")
  /\ UNCHANGED <<allocated, semlock, idx, killed, stale, extra>>

\* Mutant: the process sleeps without having taken a resource.
BugCount(p) ==
  /\ pc[p] = "p_sem"
  /\ semlock = NULL
  /\ IF resource_count > 0
     THEN /\ resource_count' = resource_count - 1
          /\ plock' = [plock EXCEPT ![p] = NULL]
          /\ return(p, "in")
     ELSE goto(p, "p_sleep") /\ UNCHANGED <<resource_count, plock>>
  /\ UNCHANGED <<allocated, semlock, idx, killed, stale, extra>>

\* sys_sem_p(): count down under the semaphore's lock, and go on or sleep.
sem_p_take(p) ==
  /\ pc[p] = "p_sem"
  /\ semlock = NULL
  /\ resource_count' = resource_count - 1
  /\ IF resource_count' < 0
     THEN goto(p, "p_sleep") /\ UNCHANGED plock
     ELSE return(p, "in") /\ plock' = [plock EXCEPT ![p] = NULL]
  /\ UNCHANGED <<allocated, semlock, idx, killed, stale, extra>>

\* sleep(&sems[id], &p->lock) until the process is off its stack.
sleep(p) ==
  /\ pc[p] = "p_sleep"
  /\ goto(p, "asleep")
  /\ plock' = [plock EXCEPT ![p] = NULL]
  /\ UNCHANGED <<allocated, resource_count, semlock, idx, killed, stale, extra>>

\* The scheduler resumes the process: sys_sem_p() returns without another look
\* at the count.
sem_p_return(p) ==
  /\ pc[p] = "woken"
  /\ plock[p] = NULL
  /\ return(p, "in")
  /\ UNCHANGED <<allocated, resource_count, semlock, plock, idx, killed, stale, extra>>

\* sys_sem_v(): count up; wake the waiting processes if there are any.
sem_v(p) ==
  /\ pc[p] = "in"
  /\ semlock = NULL
  /\ resource_count' = resource_count + 1
  /\ IF resource_count' <= 0
     THEN semlock' = p /\ goto(p, "v_wake")
     ELSE return(p, "out") /\ UNCHANGED semlock
  /\ stale' = stale \ {p}
  /\ extra' = IF p \in stale THEN extra + 1 ELSE extra
  /\ UNCHANGED <<allocated, plock, idx, killed>>

\* wakeup(&sems[id]), called with the semaphore's lock held.
wakeup(p) ==
  /\ pc[p] = "v_wake"
  /\ IF idx[p] > NPROC
     THEN /\ semlock' = NULL
          /\ return(p, "out")
          /\ idx' = [idx EXCEPT ![p] = 1]
     ELSE /\ plock[idx[p]] = NULL
          /\ pc' = [pc EXCEPT ![idx[p]] = IF @ = "asleep" THEN "woken" ELSE @]
          /\ idx' = [idx EXCEPT ![p] = @ + 1]
          /\ UNCHANGED semlock
  /\ UNCHANGED <<allocated, resource_count, plock, killed, stale, extra>>

\* kill(): wherever the victim is; if it sleeps, it goes on.
kill(q) ==
  /\ q \in Victims \ killed
  /\ pc[q] \notin {"dead", "gone"} /\ plock[q] = NULL
  /\ pc' = [pc EXCEPT ![q] = IF @ = "asleep" THEN "woken" ELSE @]
  /\ killed' = killed \cup {q}
  /\ UNCHANGED <<allocated, resource_count, semlock, plock, idx, stale, extra>>

\* usertrap(): a process that was killed in user space exits.
exit(p) ==
  /\ p \in killed /\ pc[p] \in {"out", "in"}
  /\ return(p, pc[p])
  /\ UNCHANGED <<allocated, resource_count, semlock, plock, idx, killed, stale, extra>>

Next ==
  \E p \in Proc :
    \/ sem_create(p) \/ sem_free(p)
    \/ sem_p(p) \/ sem_p_take(p) \/ sleep(p) \/ sem_p_return(p)
    \/ sem_v(p) \/ wakeup(p)
    \/ kill(p) \/ exit(p)

Spec == Init /\ [][Next]_vars

-----------------------------------------------------------------------------
(* Properties.                                                             *)

\* The count is what sem_create() or sem_free() set, minus everybody who has counted
\* down since and not yet up, plus one for every V whose P was before.  So each process
\* that is killed in P, or between P and V, takes a resource with it, and a semaphore
\* freed in use and created again has one too many for each of its old users.
CountExact ==
  resource_count = (IF allocated THEN N ELSE 0) - Cardinality(Users \ stale) + extra

\* V, in wakeup() with the semaphore's lock, waits for p->lock of a process in P that
\* waits for the semaphore's lock.
Deadlock == \E v \in At({"v_wake"}) : idx[v] <= NPROC /\ pc[idx[v]] = "p_sem"

\* As long as killed processes have left a resource, whoever sleeps in P since the
\* semaphore was created will be woken: somebody holds a resource of it or is on the way
\* to one, or walks the process table in V and has still to come to the sleeper.  The
\* deadlock of P and V, which stops everybody at the semaphore, is the only exception.
SleeperHasWaker ==
  allocated /\ Cardinality(At({"dead"}) \ stale) < N /\ ~ Deadlock =>
    \A p \in At({"p_sleep", "asleep"}) \ stale :
      \/ At({"in", "woken"}) \ stale # {}
      \/ \E v \in At({"v_wake"}) : idx[v] <= p
=============================================================================
