-------------------------------- MODULE Tty --------------------------------
(***************************************************************************)
(* What the console promises to its readers: a line that can be edited     *)
(* until it is complete, and a queue of complete lines that only readers   *)
(* take from.                                                              *)
(***************************************************************************)
EXTENDS Integers, Sequences

CONSTANTS SIZE
VARIABLES line, ready

Type(c) ==
  /\ c \notin {"\n", "^D"} /\ Len(ready) + Len(line) < SIZE - 1
  /\ line' = Append(line, c) /\ UNCHANGED ready
Erase == \E k \in 0 .. Len(line) : line' = SubSeq(line, 1, k) /\ UNCHANGED ready

\* The line with its last character, a newline, an end of file, or whatever fills
\* the buffer, becomes ready.
Enter(c) ==
  /\ c \in {"\n", "^D"} \/ Len(ready) + Len(line) = SIZE - 1
  /\ Len(ready) + Len(line) < SIZE
  /\ ready' = ready \o Append(line, c)
  /\ line' = <<>>

Take == ready # <<>> /\ ready' = Tail(ready) /\ UNCHANGED line

Init == line = <<>> /\ ready = <<>>
Next == Erase \/ Take \/ \E c \in {"x", "\n", "^D"} : Type(c) \/ Enter(c)
vars == <<line, ready>>
Spec == Init /\ [][Next]_vars
=============================================================================
