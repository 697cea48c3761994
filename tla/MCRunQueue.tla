----------------------------- MODULE MCRunQueue -----------------------------
(* Instances of RunQueue for TLC. *)
EXTENDS RunQueueRefinement, Ctz, TLC

\* Slots are interchangeable except the one init occupies.
ProcSymmetry == Permutations(Proc \ {INITPROC})
=============================================================================
