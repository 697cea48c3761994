------------------------------ MODULE RunqSpec ------------------------------
(***************************************************************************)
(* What the O(1) run queue promises its callers, without its links and     *)
(* bitmap: RUNQ_LEN first-in first-out queues of processes, a process in   *)
(* at most one of them, and a pick that serves the head of the lowest      *)
(* numbered non-empty one.  RunQueue.tla implements it.                    *)
(***************************************************************************)
EXTENDS Integers, Sequences, SequencesExt

CONSTANTS
  Proc,       \* the slots of the process table
  RUNQ_LEN    \* number of priority levels

VARIABLE queue    \* queue[i]: the processes waiting at level i, oldest first

Level == 0 .. RUNQ_LEN - 1

\* The processes waiting at some level.
Waiting == UNION {Range(queue[i]) : i \in Level}

Init == queue \in [Level -> {<< >>} \cup {<<p>> : p \in Proc}]
        /\ \A i, j \in Level : i # j => queue[i] = << >> \/ queue[i] # queue[j]

\* A process that waits nowhere joins the end of one level.
Enqueue(p, i) ==
  /\ p \notin Waiting
  /\ queue' = [queue EXCEPT ![i] = Append(@, p)]

\* The head of the lowest non-empty level leaves.
Pick ==
  \E i \in Level :
    /\ queue[i] # << >>
    /\ \A j \in 0 .. i - 1 : queue[j] = << >>
    /\ queue' = [queue EXCEPT ![i] = Tail(@)]

\* A waiting process goes to the end of a level, possibly its own.
Move(p, i) ==
  /\ p \in Waiting
  /\ queue' = LET out == [j \in Level |-> SelectSeq(queue[j], LAMBDA x : x # p)]
              IN  [out EXCEPT ![i] = Append(@, p)]

Next == \/ Pick
        \/ \E p \in Proc, i \in Level : Enqueue(p, i) \/ Move(p, i)

Spec == Init /\ [][Next]_queue
=============================================================================
