------------------------------- MODULE Kalloc -------------------------------
(***************************************************************************)
(* The page allocator, kernel/mm/kalloc.c: a free list and a lock per      *)
(* hart, stealing from the other lists, reference counts on pages.         *)
(*                                                                         *)
(* A step is a section under one kmem lock, with ref.lock inside it, or a  *)
(* section under ref.lock alone.  kalloc() keeps the lock of its own list  *)
(* while it looks at the others.  The callers are anything that owns       *)
(* references to pages: refs counts the references that really exist.      *)
(* Interrupts are off inside kalloc(), so a hart that steals does nothing  *)
(* else; kfree() may move to another hart before it takes a kmem lock.     *)
(***************************************************************************)
EXTENDS Integers, FiniteSets

CONSTANTS
  NCPU,    \* free lists; every hart has one
  Page,    \* pages between end and PHYSTOP
  MAXREF,  \* bound: references to a page
  NULL

CPU == 0 .. NCPU - 1

ASSUME KallocConstants ==
  NCPU \in Nat \ {0} /\ MAXREF \in Nat \ {0} /\ NULL \notin CPU /\ NULL \notin Page

VARIABLES
  freelist,  \* kmem[i].freelist
  klock,     \* hart holding kmem[i].lock
  cnt,       \* ref.cnt
  refs,      \* references the callers own
  freeing,   \* calls of kfree() that have yet to put the page on a list
  pc, antid, \* each hart: whether it steals, and the loop variable
  fbi, fbp   \* freebytes(): i, and p as it was read

alloc == <<freelist, klock, cnt, refs, freeing, pc, antid>>
vars == <<alloc, fbi, fbp>>

-----------------------------------------------------------------------------
\* kinit() on hart 0 frees every page: all of them are on its list.
Init ==
  /\ freelist = [c \in CPU |-> IF c = 0 THEN Page ELSE {}]
  /\ klock = [c \in CPU |-> NULL]
  /\ cnt = [r \in Page |-> 0]
  /\ refs = [r \in Page |-> 0]
  /\ pc = [c \in CPU |-> "idle"]
  /\ freeing = [r \in Page |-> 0]
  /\ antid = [c \in CPU |-> 0]
  /\ fbi = 0 /\ fbp = NULL

\* Page r of list i is handed to the caller with a reference count of 1.
take(i, r) ==
  /\ freelist' = [freelist EXCEPT ![i] = @ \ {r}]
  /\ cnt' = [cnt EXCEPT ![r] = 1]
  /\ refs' = [refs EXCEPT ![r] = 1]

\* kalloc(): a page of the own list, or start to steal with its lock held.
kalloc(c) ==
  /\ pc[c] = "idle"
  /\ klock[c] = NULL
  /\ \/ \E r \in freelist[c] : take(c, r) /\ UNCHANGED <<klock, freeing, pc, antid>>
     \/ /\ freelist[c] = {}
        /\ klock' = [klock EXCEPT ![c] = c]
        /\ pc' = [pc EXCEPT ![c] = "steal"]
        /\ antid' = [antid EXCEPT ![c] = 0]
        /\ UNCHANGED <<freelist, cnt, refs, freeing>>
  /\ UNCHANGED <<fbi, fbp>>

\* Mutant: a stolen page stays on the list it was found on.
BugSteal(c) ==
  /\ pc[c] = "steal"
  /\ antid[c] < NCPU /\ antid[c] # c /\ klock[antid[c]] = NULL
  /\ \E r \in freelist[antid[c]] : /\ cnt' = [cnt EXCEPT ![r] = 1]
                                   /\ refs' = [refs EXCEPT ![r] = 1]
  /\ klock' = [klock EXCEPT ![c] = NULL]
  /\ pc' = [pc EXCEPT ![c] = "idle"]
  /\ UNCHANGED <<freelist, freeing, antid, fbi, fbp>>

\* kalloc(): the list of one other hart; after the last one return 0.
kalloc_steal(c) ==
  /\ pc[c] = "steal"
  /\ IF antid[c] = NCPU
     THEN /\ klock' = [klock EXCEPT ![c] = NULL]
          /\ pc' = [pc EXCEPT ![c] = "idle"]
          /\ UNCHANGED <<freelist, cnt, refs, antid>>
     ELSE IF antid[c] = c
     THEN /\ antid' = [antid EXCEPT ![c] = @ + 1]
          /\ UNCHANGED <<freelist, klock, cnt, refs, pc>>
     ELSE /\ klock[antid[c]] = NULL
          /\ \/ /\ \E r \in freelist[antid[c]] : take(antid[c], r)
                /\ klock' = [klock EXCEPT ![c] = NULL]
                /\ pc' = [pc EXCEPT ![c] = "idle"]
                /\ UNCHANGED antid
             \/ /\ freelist[antid[c]] = {}
                /\ antid' = [antid EXCEPT ![c] = @ + 1]
                /\ UNCHANGED <<freelist, klock, cnt, refs, pc>>
  /\ UNCHANGED <<freeing, fbi, fbp>>

\* kaddrefcnt(), by the owner of a reference.
kaddrefcnt(c, r) ==
  /\ pc[c] = "idle"
  /\ refs[r] \in 1 .. MAXREF - 1
  /\ cnt' = [cnt EXCEPT ![r] = @ + 1]
  /\ refs' = [refs EXCEPT ![r] = @ + 1]
  /\ UNCHANGED <<freelist, klock, freeing, pc, antid, fbi, fbp>>

\* Mutant: the count is decremented only when it does not reach zero.
BugCount(c, r) ==
  /\ pc[c] = "idle"
  /\ refs[r] > 0
  /\ refs' = [refs EXCEPT ![r] = @ - 1]
  /\ IF cnt[r] = 1
     THEN freeing' = [freeing EXCEPT ![r] = @ + 1] /\ UNCHANGED cnt
     ELSE cnt' = [cnt EXCEPT ![r] = @ - 1] /\ UNCHANGED freeing
  /\ UNCHANGED <<freelist, klock, pc, antid, fbi, fbp>>

\* kfree(): drop the caller's reference; the last one frees the page ...
kfree(c, r) ==
  /\ pc[c] = "idle"
  /\ refs[r] > 0
  /\ refs' = [refs EXCEPT ![r] = @ - 1]
  /\ cnt' = [cnt EXCEPT ![r] = @ - 1]
  /\ freeing' = IF cnt'[r] = 0 THEN [freeing EXCEPT ![r] = @ + 1] ELSE freeing
  /\ UNCHANGED <<freelist, klock, pc, antid, fbi, fbp>>

\* ... which is filled with junk and put on the list of the hart it is now on.
kfree_push(c, r) ==
  /\ pc[c] = "idle"
  /\ freeing[r] > 0
  /\ klock[c] = NULL
  /\ freelist' = [freelist EXCEPT ![c] = @ \cup {r}]
  /\ freeing' = [freeing EXCEPT ![r] = @ - 1]
  /\ UNCHANGED <<klock, cnt, refs, pc, antid, fbi, fbp>>

\* freebytes(): p = kmem[i].freelist, before the lock of the list is taken.
freebytes_head(c, i, r) ==
  /\ pc[c] = "idle"
  /\ fbp = NULL
  /\ r \in freelist[i]
  /\ fbi' = i /\ fbp' = r
  /\ UNCHANGED alloc

\* freebytes(): walk from p with the lock held.
freebytes_walk(c) ==
  /\ pc[c] = "idle"
  /\ fbp # NULL
  /\ klock[fbi] = NULL
  /\ fbi' = 0 /\ fbp' = NULL
  /\ UNCHANGED alloc

Step(c) ==
  \/ kalloc(c) \/ kalloc_steal(c)
  \/ \E r \in Page : kaddrefcnt(c, r) \/ kfree(c, r) \/ kfree_push(c, r)
  \/ \E i \in CPU, r \in Page : freebytes_head(c, i, r)
  \/ freebytes_walk(c)

Next == \E c \in CPU : Step(c)
Spec == Init /\ [][Next]_vars

-----------------------------------------------------------------------------
(* Properties.                                                             *)

\* Every variable has a value of its type.
TypeOK ==
  /\ freelist \in [CPU -> SUBSET Page]
  /\ klock \in [CPU -> CPU \cup {NULL}]
  /\ cnt \in [Page -> Nat]
  /\ refs \in [Page -> Nat]
  /\ freeing \in [Page -> Nat]
  /\ pc \in [CPU -> {"idle", "steal"}]
  /\ antid \in [CPU -> 0 .. NCPU]
  /\ fbi \in CPU /\ fbp \in Page \cup {NULL}

\* A page is in exactly one place: owned by callers, on its way to a list in one
\* kfree(), or on one list.  No page is lost, handed out twice or filled with
\* junk while somebody owns it, wherever it was stolen from or freed to.
OnePlace ==
  \A r \in Page :
    /\ refs[r] > 0 => freeing[r] = 0
    /\ freeing[r] <= 1
    /\ \A c \in CPU : r \in freelist[c] => /\ refs[r] = 0 /\ freeing[r] = 0
                                          /\ \A d \in CPU \ {c} : r \notin freelist[d]
    /\ refs[r] = 0 /\ freeing[r] = 0 => \E c \in CPU : r \in freelist[c]

\* ref.cnt is the number of references that exist, so that the kfree() of the
\* last owner, and no other, frees the page.
CountExact == \A r \in Page : cnt[r] = refs[r]

=============================================================================
