-------------------------------- MODULE Pipe --------------------------------
(***************************************************************************)
(* Pipes, kernel/proc/pipe.c, with the part of fileclose() that closes an  *)
(* end.  One pipe whose two ends are open in several processes.            *)
(*                                                                         *)
(* A step is the code that runs with pi->lock held: from acquire(), or     *)
(* from the return of sleep(), to sleep() or release().  wakeup() is       *)
(* atomic in it: nobody can go to sleep on the pipe meanwhile.  A cell of  *)
(* the ring that has been read goes back to its first value.               *)
(***************************************************************************)
EXTENDS Integers, Sequences, FiniteSets

CONSTANTS
  Proc,
  Buffer,    \* what processes write: sequences of bytes
  PIPESIZE,
  UINT,      \* nread and nwrite wrap around here; a multiple of PIPESIZE
  MAXN,      \* bound: bytes that a process asks for
  Victims    \* processes that may be killed

VARIABLES
  data, nread, nwrite, readopen, writeopen,
  freed,   \* kfree(pi) was called
  ends,    \* ends a process has open, "r" and "w"
  pc,      \* where a process is
  ubuf,    \* pipewrite(): bytes still to be written
  n,       \* piperead(): bytes that were asked for
  got,     \* bytes the last piperead() that ended has copied out
  killed,
  silent   \* somebody has added bytes since the last wakeup(&pi->nread)

vars == <<data, nread, nwrite, readopen, writeopen, freed, ends, pc, ubuf, n, got, killed, silent>>
ring == <<data, nread, nwrite>>
state == <<readopen, writeopen, freed>>

Byte == UNION {{s[i] : i \in DOMAIN s} : s \in Buffer}
Count == (nwrite - nread) % UINT
Least(a, b) == IF a < b THEN a ELSE b

-----------------------------------------------------------------------------
\* pipealloc(), and any way in which fork() and close() can have spread the ends.
Init ==
  /\ data = [i \in 0 .. PIPESIZE - 1 |-> CHOOSE b \in Byte : TRUE]
  /\ nread = 0 /\ nwrite = 0
  /\ readopen = TRUE /\ writeopen = TRUE /\ freed = FALSE
  /\ ends \in {e \in [Proc -> SUBSET {"r", "w"}] : UNION {e[p] : p \in Proc} = {"r", "w"}}
  /\ pc = [p \in Proc |-> "user"]
  /\ ubuf = [p \in Proc |-> <<>>]
  /\ n = [p \in Proc |-> 0]
  /\ got = <<>>
  /\ killed = {}
  /\ silent = FALSE

\* pc after process p goes to l and wakes who sleeps at w.
goto(p, l, w) ==
  pc' = [q \in Proc |-> IF q = p THEN l
                        ELSE IF pc[q] = w THEN (IF w = "rsleep" THEN "read" ELSE "write")
                        ELSE pc[q]]

\* write() and read() on the pipe.  A process that was killed makes no new call.
call(p) ==
  /\ pc[p] = "user" /\ p \notin killed
  /\ \/ /\ "w" \in ends[p]
        /\ \E s \in Buffer : ubuf' = [ubuf EXCEPT ![p] = s]
        /\ goto(p, "write", "nobody") /\ UNCHANGED n
     \/ /\ "r" \in ends[p]
        /\ \E k \in 0 .. MAXN : n' = [n EXCEPT ![p] = k]
        /\ goto(p, "read", "nobody") /\ UNCHANGED ubuf
  /\ UNCHANGED <<ring, state, ends, got, killed, silent>>

\* Copy the first k bytes of the buffer of p into the ring and keep the rest s.
put(p, k, s) ==
  /\ data' = [i \in DOMAIN data |->
                LET J == {j \in 0 .. k - 1 : (nwrite + j) % PIPESIZE = i} IN
                IF J = {} THEN data[i] ELSE ubuf[p][1 + CHOOSE j \in J : \A l \in J : l <= j]]
  /\ nwrite' = (nwrite + k) % UINT
  /\ ubuf' = [ubuf EXCEPT ![p] = s]

\* Mutant: the ring is full one byte too late.
BugFull(p) ==
  /\ pc[p] = "write"
  /\ put(p, Least(Len(ubuf[p]), PIPESIZE + 1 - Count), <<>>)
  /\ goto(p, "user", "rsleep") /\ silent' = FALSE
  /\ UNCHANGED <<nread, state, ends, n, got, killed>>

\* pipewrite(): copy until the buffer is empty, or faults, or the ring is full.
\* Then give up if nobody reads or the process was killed, or wake and sleep.
pipewrite(p) ==
  /\ pc[p] = "write"
  /\ LET room == PIPESIZE - Count IN
     \/ /\ Len(ubuf[p]) <= room
        /\ put(p, Len(ubuf[p]), <<>>) /\ goto(p, "user", "rsleep") /\ silent' = FALSE
     \/ \E k \in 0 .. Least(Len(ubuf[p]), room) - 1 :
           put(p, k, <<>>) /\ goto(p, "user", "rsleep") /\ silent' = FALSE
     \/ /\ Len(ubuf[p]) > room
        /\ IF ~ readopen \/ p \in killed
           THEN /\ put(p, room, <<>>) /\ goto(p, "user", "nobody")
                /\ silent' = (silent \/ room > 0)
           ELSE /\ put(p, room, SubSeq(ubuf[p], room + 1, Len(ubuf[p])))
                /\ goto(p, "wsleep", "rsleep") /\ silent' = FALSE
  /\ UNCHANGED <<nread, state, ends, n, got, killed>>

\* piperead(): sleep while the ring is empty and may still be written to.  Then
\* take up to n bytes; the buffer may fault at the last of them.
piperead(p) ==
  /\ pc[p] = "read"
  /\ IF Count = 0 /\ writeopen
     THEN /\ goto(p, IF p \in killed THEN "user" ELSE "rsleep", "nobody")
          /\ UNCHANGED <<ring, got>>
     ELSE LET bytes(k) == [i \in 1 .. k |-> data[(nread + i - 1) % PIPESIZE]] IN
          \E k \in 0 .. Least(n[p], Count) : \E j \in {k, k - 1} \cap Nat :
            /\ j = k => k = Least(n[p], Count)
            /\ nread' = (nread + k) % UINT
            /\ got' = bytes(j)
            /\ data' = [i \in DOMAIN data |->
                          IF \E l \in 1 .. k : (nread + l - 1) % PIPESIZE = i
                          THEN CHOOSE b \in Byte : TRUE ELSE data[i]]
            /\ goto(p, "user", "wsleep")
            /\ UNCHANGED nwrite
  /\ n' = [n EXCEPT ![p] = IF pc'[p] = "user" THEN 0 ELSE @]
  /\ UNCHANGED <<state, ends, ubuf, killed, silent>>

\* fileclose(): close() or exit() of a process that has the end open; the last
\* one goes on to pipeclose().
fileclose(p, e) ==
  /\ pc[p] = "user" /\ e \in ends[p]
  /\ ends' = [ends EXCEPT ![p] = @ \ {e}]
  /\ LET last == \A q \in Proc \ {p} : e \notin ends[q] IN
     goto(p, IF last THEN (IF e = "r" THEN "close_r" ELSE "close_w") ELSE "user", "nobody")
  /\ UNCHANGED <<ring, state, ubuf, n, got, killed, silent>>

\* Mutant: nobody is woken.
BugSilent(p) ==
  /\ pc[p] \in {"close_r", "close_w"}
  /\ IF pc[p] = "close_w" THEN writeopen' = FALSE /\ UNCHANGED readopen
                          ELSE readopen' = FALSE /\ UNCHANGED writeopen
  /\ goto(p, "user", "nobody")
  /\ freed' = (~ readopen' /\ ~ writeopen')
  /\ silent' = (silent /\ pc[p] = "close_r")
  /\ UNCHANGED <<ring, ends, ubuf, n, got, killed>>

\* Mutant: the pipe is freed with its first end.
BugFree(p) ==
  /\ pc[p] \in {"close_r", "close_w"}
  /\ IF pc[p] = "close_w" THEN writeopen' = FALSE /\ goto(p, "user", "rsleep") /\ UNCHANGED readopen
                          ELSE readopen' = FALSE /\ goto(p, "user", "wsleep") /\ UNCHANGED writeopen
  /\ freed' = TRUE
  /\ silent' = (silent /\ pc[p] = "close_r")
  /\ UNCHANGED <<ring, ends, ubuf, n, got, killed>>

\* pipeclose()
pipeclose(p) ==
  /\ \/ /\ pc[p] = "close_w"
        /\ writeopen' = FALSE /\ UNCHANGED readopen
        /\ goto(p, "user", "rsleep")
     \/ /\ pc[p] = "close_r"
        /\ readopen' = FALSE /\ UNCHANGED writeopen
        /\ goto(p, "user", "wsleep")
  /\ freed' = (~ readopen' /\ ~ writeopen')
  /\ silent' = (silent /\ pc[p] = "close_r")
  /\ UNCHANGED <<ring, ends, ubuf, n, got, killed>>

\* kill()
kill(p) ==
  /\ p \in Victims \ killed
  /\ killed' = killed \cup {p}
  /\ pc' = [pc EXCEPT ![p] = IF @ = "rsleep" THEN "read" ELSE IF @ = "wsleep" THEN "write" ELSE @]
  /\ UNCHANGED <<ring, state, ends, ubuf, n, got, silent>>

Next ==
  \E p \in Proc :
    \/ call(p) \/ pipewrite(p) \/ piperead(p)
    \/ \E e \in {"r", "w"} : fileclose(p, e)
    \/ pipeclose(p) \/ kill(p)

Spec == Init /\ [][Next]_vars

-----------------------------------------------------------------------------
(* Properties.                                                             *)

\* The ring with its two wrapping counters is a bounded queue: readers get the
\* bytes of the writers in order, none twice, and none is overwritten, whoever
\* sleeps, faults, is killed or closes an end in between.
queue == [i \in 1 .. Count |-> data[(nread + i - 1) % PIPESIZE]]
Queue == INSTANCE Fifo WITH SIZE <- PIPESIZE
ImplementsFifo == Queue!Spec

\* Nobody sleeps without a reason: a writer only while the ring is full and has
\* readers, and a reader only while it is empty and has writers.  The exception
\* is a killed writer, which fills the ring and returns without a wakeup(): a reader
\* sleeps on until somebody else writes or the last writer closes.
NobodyForgotten ==
  \A p \in Proc :
    /\ pc[p] = "wsleep" => Count = PIPESIZE /\ readopen
    /\ pc[p] = "rsleep" => writeopen /\ (Count = 0 \/ (silent /\ killed # {}))

\* The page of the pipe is freed after both ends are closed in every process, and
\* nobody is in piperead(), pipewrite() or pipeclose() then.
FreedWhenUnused ==
  freed => \A p \in Proc : pc[p] = "user" /\ ends[p] = {}
=============================================================================
