---------------------------- MODULE PrivateMemory ----------------------------
(***************************************************************************)
(* What the virtual memory system promises: every process has memory of    *)
(* its own.  It changes by the process's own stores, a child starts with a *)
(* copy of its parent's, and a page given back or never used reads as 0.   *)
(***************************************************************************)
CONSTANTS Proc, Va, Val, NULL

VARIABLE space  \* the memory of every process, NULL when there is none

Init == \E p \in Proc : space = [q \in Proc |-> IF q = p THEN [a \in Va |-> 0] ELSE NULL]

Store(p, a, v) == space[p] # NULL /\ space' = [space EXCEPT ![p][a] = v]
Discard(p, a) == Store(p, a, 0)
Fork(p, q) == space[p] # NULL /\ space[q] = NULL /\ space' = [space EXCEPT ![q] = space[p]]
Exit(p) == space[p] # NULL /\ space' = [space EXCEPT ![p] = NULL]

Next ==
  \E p \in Proc :
    \/ \E a \in Va, v \in Val : Store(p, a, v)
    \/ \E a \in Va : Discard(p, a)
    \/ \E q \in Proc : Fork(p, q)
    \/ Exit(p)

Spec == Init /\ [][Next]_space
=============================================================================
