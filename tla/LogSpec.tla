------------------------------ MODULE LogSpec -------------------------------
(***************************************************************************)
(* What the log promises to file system calls: the blocks written between  *)
(* begin_op and end_op reach the disk all together or not at all, and only *)
(* at a moment when no call is in progress.                                *)
(***************************************************************************)
EXTENDS Naturals

CONSTANTS Proc, Block, Val

VARIABLES
  stable,   \* what a crash leaves
  volatile, \* what file system calls read and write
  active,   \* processes inside a file system call
  crashes   \* how often power was lost

vars == <<stable, volatile, active, crashes>>

Init ==
  /\ stable \in [Block -> Val]
  /\ volatile = stable
  /\ active = {}
  /\ crashes = 0

Begin(p) ==
  /\ p \notin active
  /\ active' = active \cup {p}
  /\ UNCHANGED <<stable, volatile, crashes>>

Write(p, b, v) ==
  /\ p \in active
  /\ volatile' = [volatile EXCEPT ![b] = v]
  /\ UNCHANGED <<stable, active, crashes>>

End(p) ==
  /\ p \in active
  /\ active' = active \ {p}
  /\ UNCHANGED <<stable, volatile, crashes>>

Commit ==
  /\ active = {}
  /\ stable' = volatile
  /\ UNCHANGED <<volatile, active, crashes>>

Crash ==
  /\ volatile' = stable
  /\ active' = {}
  /\ crashes' = crashes + 1
  /\ UNCHANGED stable

Next ==
  \/ \E p \in Proc : \/ Begin(p) \/ End(p)
                     \/ \E b \in Block, v \in Val : Write(p, b, v)
  \/ Commit
  \/ Crash

Spec == Init /\ [][Next]_vars
=============================================================================
