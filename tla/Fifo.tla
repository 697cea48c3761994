-------------------------------- MODULE Fifo --------------------------------
(***************************************************************************)
(* What a pipe promises: a bounded queue of bytes.  Writers append the     *)
(* bytes of their buffers from the front, readers take bytes from the head *)
(* of the queue, and nothing else happens to the queue.                    *)
(***************************************************************************)
EXTENDS Integers, Sequences

CONSTANTS Proc, Buffer, SIZE
VARIABLES
  queue,
  ubuf,  \* what each writer has still to write
  got    \* what the last reader got

Call(p) == /\ \E s \in Buffer : ubuf' = [ubuf EXCEPT ![p] = s]
           /\ UNCHANGED <<queue, got>>

\* The writer appends its first k bytes, and goes on or gives up.
Write(p, k) ==
  /\ Len(queue) + k <= SIZE
  /\ queue' = queue \o SubSeq(ubuf[p], 1, k)
  /\ ubuf' \in {[ubuf EXCEPT ![p] = SubSeq(@, k + 1, Len(@))], [ubuf EXCEPT ![p] = <<>>]}
  /\ UNCHANGED got

\* A reader takes the first k bytes; its buffer may fault at the last of them.
Read(k) ==
  /\ queue' = SubSeq(queue, k + 1, Len(queue))
  /\ got' \in {SubSeq(queue, 1, k), SubSeq(queue, 1, k - 1)}
  /\ UNCHANGED ubuf

Init == queue = <<>> /\ ubuf = [p \in Proc |-> <<>>] /\ got = <<>>
Next ==
  \/ \E p \in Proc : Call(p) \/ \E k \in 0 .. Len(ubuf[p]) : Write(p, k)
  \/ \E k \in 0 .. Len(queue) : Read(k)
vars == <<queue, ubuf, got>>
Spec == Init /\ [][Next]_vars
=============================================================================
