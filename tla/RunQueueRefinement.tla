------------------------- MODULE RunQueueRefinement -------------------------
(* The linked lists of RunQueue implement the FIFO levels of RunqSpec.      *)
EXTENDS RunQueue

\* The processes linked at level i, first to last.
Chain(q, i) ==
  LET node == Node(q, i)
  IN  SelectSeq([n \in 1 .. Cardinality(Proc) |-> node[n - 1]], LAMBDA x : x # NULL)

Abstract == INSTANCE RunqSpec WITH queue <- [i \in Level |-> Chain(rq, i)]

\* The links and the bitmap implement FIFO levels served lowest first.
ImplementsRunqSpec == Abstract!Spec
=============================================================================
