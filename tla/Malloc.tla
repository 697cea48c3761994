------------------------------- MODULE Malloc -------------------------------
(***************************************************************************)
(* malloc() and free() of user programs, user/program/umalloc.c: a         *)
(* circular list of free blocks in the order of their addresses.           *)
(*                                                                         *)
(* Addresses count headers (units of 16 bytes); base is at address 0,      *)
(* below the heap.  A program also calls sbrk() itself, so that what       *)
(* morecore() gets need not follow what it got before.                     *)
(***************************************************************************)
EXTENDS Integers, FiniteSets, Sequences

CONSTANTS
  MINCORE,  \* units that morecore() asks for at least, 4096
  HEAPMAX,  \* bound: units of heap, beyond which sbrk() fails
  NULL

BASE == 0
Unit == 1 .. HEAPMAX

VARIABLES
  hdr,    \* headers of free blocks, and of blocks in use, whose ptr means nothing
  freep,
  inuse,  \* blocks the program has, by what malloc() was asked for
  brk,    \* end of the heap
  core    \* units that morecore() has got

vars == <<hdr, freep, inuse, brk, core>>

-----------------------------------------------------------------------------
Init ==
  /\ hdr = [a \in {BASE} \cup Unit |-> NULL]
  /\ freep = NULL
  /\ inuse = [a \in Unit |-> 0]
  /\ brk = 1
  /\ core = {}

\* A heap: headers, freep, brk and core.
Heap == [hdr |-> hdr, freep |-> freep, brk |-> brk, core |-> core]

\* free(): the free block after which the block at bp belongs.
RECURSIVE place(_, _, _)
place(h, bp, p) ==
  LET next == h[p].ptr IN
  IF \/ bp > p /\ bp < next
     \/ p >= next /\ (bp > p \/ bp < next)
  THEN p ELSE place(h, bp, next)

\* Mutant: the block below is not joined with the block that is freed.
BugRelease(s, bp) ==
  LET h == s.hdr
      p == place(h, bp, s.freep)
      next == h[p].ptr
      b == IF bp + h[bp].size = next
           THEN [size |-> h[bp].size + h[next].size, ptr |-> h[next].ptr]
           ELSE [size |-> h[bp].size, ptr |-> next]
      gone == IF bp + h[bp].size = next THEN {next} ELSE {}
  IN [s EXCEPT !.freep = p,
               !.hdr = [a \in DOMAIN h |-> IF a = bp THEN b
                                           ELSE IF a = p THEN [h[p] EXCEPT !.ptr = bp]
                                           ELSE IF a \in gone THEN NULL ELSE h[a]]]

\* free(): the block is joined with the one above and the one below where they touch.
release(s, bp) ==
  LET h == s.hdr
      p == place(h, bp, s.freep)
      next == h[p].ptr
      up == bp + h[bp].size = next
      down == p + h[p].size = bp
      b == IF up THEN [size |-> h[bp].size + h[next].size, ptr |-> h[next].ptr]
           ELSE [size |-> h[bp].size, ptr |-> next]
      h1 == [h EXCEPT ![bp] = b, ![p].ptr = bp]
      h2 == IF up THEN [h1 EXCEPT ![next] = NULL] ELSE h1
  IN [s EXCEPT !.freep = p,
               !.hdr = IF ~ down THEN h2
                       ELSE [h2 EXCEPT ![p] = [size |-> h[p].size + b.size, ptr |-> b.ptr],
                                       ![bp] = NULL]]

\* morecore(): NULL if sbrk() fails.
morecore(s, nunits) ==
  LET nu == IF nunits < MINCORE THEN MINCORE ELSE nunits IN
  IF s.brk + nu > HEAPMAX + 1 THEN NULL
  ELSE release([s EXCEPT !.hdr[s.brk] = [size |-> nu, ptr |-> BASE], !.brk = @ + nu,
                         !.core = @ \cup (s.brk .. s.brk + nu - 1)],
               s.brk)

\* malloc(): the whole block p, or the end of it.
cut(s, prevp, p, nunits) ==
  LET h == s.hdr
      at == p + h[p].size - nunits
  IN [heap |-> [s EXCEPT !.freep = prevp,
                  !.hdr = IF at = p THEN [h EXCEPT ![prevp].ptr = h[p].ptr, ![p].ptr = BASE]
                          ELSE [h EXCEPT ![p].size = @ - nunits,
                                         ![at] = [size |-> nunits, ptr |-> BASE]]],
      at |-> at]

\* malloc(): go round the list until a block is large enough, with more core each time
\* the round is complete.
RECURSIVE find(_, _, _, _)
find(s, prevp, p, nunits) ==
  IF s.hdr[p].size >= nunits THEN cut(s, prevp, p, nunits)
  ELSE IF p # s.freep THEN find(s, p, s.hdr[p].ptr, nunits)
  ELSE LET more == morecore(s, nunits) IN
       IF more = NULL THEN [heap |-> s, at |-> NULL]
       ELSE find(more, more.freep, more.hdr[more.freep].ptr, nunits)

become(s) == hdr' = s.hdr /\ freep' = s.freep /\ brk' = s.brk /\ core' = s.core

\* malloc() of nunits - 1 units.
malloc(nunits) ==
  LET s == IF freep # NULL THEN Heap
           ELSE [Heap EXCEPT !.freep = BASE, !.hdr[BASE] = [size |-> 0, ptr |-> BASE]]
      f == find(s, s.freep, s.hdr[s.freep].ptr, nunits)
  IN /\ become(f.heap)
     /\ inuse' = IF f.at = NULL THEN inuse ELSE [inuse EXCEPT ![f.at] = nunits]

free(bp) ==
  /\ inuse[bp] # 0
  /\ become(release(Heap, bp))
  /\ inuse' = [inuse EXCEPT ![bp] = 0]

sbrk ==
  /\ brk <= HEAPMAX
  /\ brk' = brk + 1
  /\ UNCHANGED <<hdr, freep, inuse, core>>

Next ==
  \/ \E n \in 2 .. HEAPMAX : malloc(n)
  \/ \E bp \in Unit : free(bp)
  \/ sbrk

Spec == Init /\ [][Next]_vars

-----------------------------------------------------------------------------
(* Properties.                                                             *)

Block == {a \in Unit : hdr[a] # NULL}
units(a) == a .. a + hdr[a].size - 1

\* Every unit that malloc() got from sbrk() is in exactly one block, a block in use is as
\* large as it was asked for, the others are in the list, in the order of their addresses,
\* and two free blocks never touch: memory that is freed can be given out again in larger
\* blocks, and no two callers get the same memory.
HeapExact ==
  /\ \A a, b \in Block : a # b => units(a) \cap units(b) = {}
  /\ core = UNION {units(a) : a \in Block}
  /\ \A a \in Block : inuse[a] # 0 => hdr[a].size = inuse[a]
  /\ freep # NULL =>
       LET unused == {BASE} \cup {a \in Block : inuse[a] = 0} IN
       /\ freep \in unused
       /\ \A a \in unused :
            LET above == {b \in unused : b > a} IN
            /\ hdr[a].ptr = IF above = {} THEN BASE ELSE CHOOSE b \in above : \A c \in above : b <= c
            /\ a # BASE => a + hdr[a].size \notin above
=============================================================================
