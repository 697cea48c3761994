------------------------------- MODULE Console -------------------------------
(***************************************************************************)
(* Console input, kernel/driver/console.c: the interrupt handler edits a   *)
(* line in a ring, readers take complete lines.  consoleintr() is one step *)
(* under cons.lock; consoleread() keeps the lock from character to         *)
(* character, until it sleeps or returns.                                  *)
(***************************************************************************)
EXTENDS Integers, Sequences, FiniteSets

CONSTANTS
  Proc,
  INPUT_BUF,
  UINT,     \* r, w and e wrap around here; a multiple of INPUT_BUF
  MAXN,     \* bound: characters a reader asks for
  Victims,  \* readers that may be killed
  NULL

Key == {"x", "\r", "\n", "^D", "^U", "^H", "^P"}

VARIABLES
  buf, r, w, e,
  lock,       \* reader that holds cons.lock
  pc, n, tgt, \* where a reader is, n and target
  killed

vars == <<buf, r, w, e, lock, pc, n, tgt, killed>>

-----------------------------------------------------------------------------
Init ==
  /\ buf = [i \in 0 .. INPUT_BUF - 1 |-> NULL]
  /\ r = 0 /\ w = 0 /\ e = 0
  /\ lock = NULL
  /\ pc = [p \in Proc |-> "user"]
  /\ n = [p \in Proc |-> 0] /\ tgt = [p \in Proc |-> 0]
  /\ killed = {}

inc(i) == (i + 1) % UINT
dec(i) == (i - 1) % UINT

\* wakeup(&cons.r)
woken == [p \in Proc |-> IF pc[p] = "asleep" THEN "wait" ELSE pc[p]]

\* Where the edit index ends up after ^U: at w, or after the last newline.
RECURSIVE eraseline(_)
eraseline(i) == IF i # w /\ buf[dec(i) % INPUT_BUF] # "\n" THEN eraseline(dec(i)) ELSE i

\* Mutant: backspace goes back beyond what has become ready.
BugErase(k) ==
  /\ lock = NULL
  /\ \/ /\ k = "^H" /\ e # r
        /\ e' = dec(e) /\ w' = (IF e = w THEN dec(e) ELSE w)
        /\ UNCHANGED <<buf, pc>>
     \/ /\ k \in {"x", "\n"} /\ (e - r) % UINT < INPUT_BUF
        /\ buf' = [buf EXCEPT ![e % INPUT_BUF] = k]
        /\ e' = inc(e) /\ w' = (IF k = "\n" THEN e' ELSE w) /\ pc' = woken
  /\ UNCHANGED <<r, lock, n, tgt, killed>>

\* Mutant: an end of file becomes ready without a wakeup.
BugWake(k) ==
  /\ lock = NULL
  /\ k = "^D" /\ (e - r) % UINT < INPUT_BUF
  /\ buf' = [buf EXCEPT ![e % INPUT_BUF] = k]
  /\ e' = inc(e) /\ w' = e'
  /\ UNCHANGED <<r, lock, pc, n, tgt, killed>>

\* consoleintr(k): ^P prints the process list; ^U and backspace erase; any other
\* character is stored if there is room, and may complete the line.
consoleintr(k) ==
  /\ lock = NULL
  /\ \/ k = "^P" /\ UNCHANGED <<buf, w, e, pc>>
     \/ k = "^U" /\ e' = eraseline(e) /\ UNCHANGED <<buf, w, pc>>
     \/ k = "^H" /\ e' = (IF e # w THEN dec(e) ELSE e) /\ UNCHANGED <<buf, w, pc>>
     \/ /\ k \notin {"^P", "^U", "^H"}
        /\ IF (e - r) % UINT < INPUT_BUF
           THEN LET c == IF k = "\r" THEN "\n" ELSE k IN
                /\ buf' = [buf EXCEPT ![e % INPUT_BUF] = c]
                /\ e' = inc(e)
                /\ IF c \in {"\n", "^D"} \/ e' = (r + INPUT_BUF) % UINT
                   THEN w' = e' /\ pc' = woken
                   ELSE UNCHANGED <<w, pc>>
           ELSE UNCHANGED <<buf, w, e, pc>>
  /\ UNCHANGED <<r, lock, n, tgt, killed>>

\* read() on the console.
call(p) ==
  /\ pc[p] = "user" /\ p \notin killed
  /\ pc' = [pc EXCEPT ![p] = "wait"]
  /\ \E k \in 1 .. MAXN : n' = [n EXCEPT ![p] = k] /\ tgt' = [tgt EXCEPT ![p] = k]
  /\ UNCHANGED <<buf, r, w, e, lock, killed>>

return(p) ==
  /\ pc' = [pc EXCEPT ![p] = "user"]
  /\ lock' = NULL
  /\ n' = [n EXCEPT ![p] = 0] /\ tgt' = [tgt EXCEPT ![p] = 0]

\* consoleread(): one turn of the loop, with cons.lock held.  While nothing is
\* ready, sleep, or return -1 if the process was killed.  ^D ends the call and is
\* kept for the next one unless it comes first; a newline ends it as well, and so
\* does a fault of the reader's buffer.
consoleread(p) ==
  /\ pc[p] \in {"wait", "loop"}
  /\ lock = (IF pc[p] = "loop" THEN p ELSE NULL)
  /\ \/ /\ n[p] = 0
        /\ return(p) /\ UNCHANGED r
     \/ /\ n[p] > 0 /\ r = w
        /\ IF p \in killed THEN return(p)
           ELSE pc' = [pc EXCEPT ![p] = "asleep"] /\ lock' = NULL /\ UNCHANGED <<n, tgt>>
        /\ UNCHANGED r
     \/ /\ n[p] > 0 /\ r # w /\ buf[r % INPUT_BUF] = "^D"
        /\ r' = IF n[p] < tgt[p] THEN r ELSE inc(r)
        /\ return(p)
     \/ /\ n[p] > 0 /\ r # w /\ buf[r % INPUT_BUF] # "^D"
        /\ r' = inc(r)
        /\ \/ return(p)
           \/ /\ buf[r % INPUT_BUF] # "\n"
              /\ n' = [n EXCEPT ![p] = @ - 1]
              /\ pc' = [pc EXCEPT ![p] = "loop"] /\ lock' = p /\ UNCHANGED tgt
  /\ UNCHANGED <<buf, w, e, killed>>

\* kill()
kill(p) ==
  /\ p \in Victims \ killed
  /\ killed' = killed \cup {p}
  /\ pc' = [pc EXCEPT ![p] = IF @ = "asleep" THEN "wait" ELSE @]
  /\ UNCHANGED <<buf, r, w, e, lock, n, tgt>>

Next ==
  \/ \E k \in Key : consoleintr(k)
  \/ \E p \in Proc : call(p) \/ consoleread(p) \/ kill(p)

Spec == Init /\ [][Next]_vars

-----------------------------------------------------------------------------
(* Properties.                                                             *)

\* The three wrapping indices implement an editable line and a queue of complete
\* lines: editing changes nothing that readers may take, nothing is overwritten
\* when the buffer is full, and a character is taken once and in order.
chars(i, j) == [k \in 1 .. (j - i) % UINT |-> buf[(i + k - 1) % INPUT_BUF]]
Terminal == INSTANCE Tty WITH line <- chars(w, e), ready <- chars(r, w), SIZE <- INPUT_BUF
ImplementsTty == Terminal!Spec

\* Nobody sleeps while something is ready, even after ^D has been put back.
NoReaderForgotten == \A p \in Proc : pc[p] = "asleep" => r = w
=============================================================================
