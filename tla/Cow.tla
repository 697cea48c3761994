-------------------------------- MODULE Cow --------------------------------
(***************************************************************************)
(* User memory: copy-on-write fork, lazy allocation and the reference      *)
(* counts of pages, kernel/mm/vm.c, cowalloc() of kernel/mm/kalloc.c and   *)
(* the page-fault branch of usertrap().                                    *)
(*                                                                         *)
(* Processes run on different harts.  Only its own process touches a page  *)
(* table (fork() fills the child's before the child runs), the counts are  *)
(* shared: every read and every update of a count is a step.  kalloc()     *)
(* gives any page whose count is 0, or fails; Kalloc.tla models how.       *)
(***************************************************************************)
EXTENDS Integers, FiniteSets

CONSTANTS
  Proc,  \* process slots
  NVA,   \* bound: pages of user memory of a process
  Page,  \* physical pages for user memory
  Val,   \* contents of a page; 0 is the contents of a new one
  JUNK,  \* contents of a page that has been freed
  NULL

Va == 0 .. NVA - 1

Pte == [pa : Page, w : BOOLEAN, f : BOOLEAN]  \* address, PTE_W, PTE_F

CowConstants ==
  /\ IsFiniteSet(Proc) /\ NVA \in Nat \ {0}
  /\ 0 \in Val /\ NULL \notin Proc \cup Page \cup Val
  /\ NULL \notin Pte /\ NULL \notin [Va -> Val \cup {JUNK}]

ASSUME CowAssumption == CowConstants

VARIABLES
  sz, pt,    \* p->sz in pages, and the PTE of every user page
  cnt, mem,  \* ref.cnt and the contents of physical pages
  pc,        \* where a process is in the kernel, or "user"
  va,        \* page it works on
  pa, new,   \* cowalloc(): pa and mem
  out,       \* what copyout() writes, NULL in a page fault
  child      \* fork(): np

vars == <<sz, pt, cnt, mem, pc, va, pa, new, out, child>>

-----------------------------------------------------------------------------
Init ==
  /\ \E p \in Proc : /\ sz = [q \in Proc |-> IF q = p THEN 1 ELSE 0]
                     /\ pc = [q \in Proc |-> IF q = p THEN "user" ELSE "unused"]
  /\ pt = [p \in Proc |-> [a \in Va |-> NULL]]
  /\ cnt = [r \in Page |-> 0]
  /\ mem = [r \in Page |-> JUNK]
  /\ va = [p \in Proc |-> 0]
  /\ pa = [p \in Proc |-> NULL]
  /\ new = [p \in Proc |-> NULL]
  /\ out = [p \in Proc |-> NULL]
  /\ child = [p \in Proc |-> NULL]

goto(p, l) == pc' = [pc EXCEPT ![p] = l]
setpte(p, a, e) == pt' = [pt EXCEPT ![p][a] = e]

\* kfree(r): drop one reference, and fill the page with junk if it was the last.
kfree(r) ==
  /\ cnt' = [cnt EXCEPT ![r] = @ - 1]
  /\ mem' = IF cnt[r] = 1 THEN [mem EXCEPT ![r] = JUNK] ELSE mem

\* r = kalloc().  It may also return 0: it looks at one list after the other and
\* can miss a page that is being freed.
kalloc(r) == cnt[r] = 0 /\ cnt' = [cnt EXCEPT ![r] = 1]

\* A store instruction to a writable page.
store(p, a, v) ==
  /\ pc[p] = "user" /\ a < sz[p]
  /\ pt[p][a] # NULL /\ pt[p][a].w
  /\ mem' = [mem EXCEPT ![pt[p][a].pa] = v]
  /\ UNCHANGED <<sz, pt, cnt, pc, va, pa, new, out, child>>

\* usertrap(): a page below p->sz that has never been touched.
lazy(p, a) ==
  /\ pc[p] = "user" /\ a < sz[p]
  /\ pt[p][a] = NULL
  /\ \/ \E r \in Page : /\ kalloc(r)
                        /\ mem' = [mem EXCEPT ![r] = 0]
                        /\ setpte(p, a, [pa |-> r, w |-> TRUE, f |-> FALSE])
                        /\ UNCHANGED <<pc, va>>
     \/ /\ goto(p, "exit") /\ va' = [va EXCEPT ![p] = 0]
        /\ UNCHANGED <<cnt, mem, pt>>
  /\ UNCHANGED <<sz, pa, new, out, child>>

\* usertrap(): a store to a copy-on-write page, and copyout() to user memory.
cowpage(p, a, v) ==
  /\ pc[p] = "user" /\ a < sz[p]
  /\ pt[p][a] # NULL /\ pt[p][a].f
  /\ goto(p, "cow")
  /\ va' = [va EXCEPT ![p] = a]
  /\ pa' = [pa EXCEPT ![p] = pt[p][a].pa]
  /\ out' = [out EXCEPT ![p] = v]
  /\ UNCHANGED <<sz, pt, cnt, mem, new, child>>

\* copyout() to a page that is not copy-on-write: the address is looked up,
\* then written.  A page that is not mapped makes it return -1.
copyout(p, a, v) ==
  /\ pc[p] = "user" /\ a < sz[p]
  /\ pt[p][a] # NULL /\ ~ pt[p][a].f
  /\ goto(p, "out")
  /\ pa' = [pa EXCEPT ![p] = pt[p][a].pa]
  /\ out' = [out EXCEPT ![p] = v]
  /\ UNCHANGED <<sz, pt, cnt, mem, va, new, child>>

\* copyout(): memmove() to the address.
copyout_write(p) ==
  /\ pc[p] = "out"
  /\ mem' = [mem EXCEPT ![pa[p]] = out[p]]
  /\ goto(p, "user")
  /\ pa' = [pa EXCEPT ![p] = NULL]
  /\ out' = [out EXCEPT ![p] = NULL]
  /\ UNCHANGED <<sz, pt, cnt, va, new, child>>

\* cowalloc(): krefcnt(pa) == 1 ?
cow_check(p) ==
  /\ pc[p] = "cow"
  /\ goto(p, IF cnt[pa[p]] = 1 THEN "own" ELSE "alloc")
  /\ UNCHANGED <<sz, pt, cnt, mem, va, pa, new, out, child>>

\* cowalloc() returns: a page fault is retried, copyout() goes on.
ret(p, r) ==
  /\ goto(p, IF out[p] = NULL THEN "user" ELSE "out")
  /\ pa' = [pa EXCEPT ![p] = IF out[p] = NULL THEN NULL ELSE r]

\* cowalloc(): the page is the process's own.
cow_own(p) ==
  /\ pc[p] = "own"
  /\ setpte(p, va[p], [pt[p][va[p]] EXCEPT !.w = TRUE, !.f = FALSE])
  /\ ret(p, pa[p])
  /\ UNCHANGED <<sz, cnt, mem, va, new, out, child>>

\* cowalloc(): mem = kalloc().  Without memory a page fault kills the process
\* and copyout() returns -1.
cow_alloc(p) ==
  /\ pc[p] = "alloc"
  /\ \/ \E r \in Page : /\ kalloc(r)
                        /\ new' = [new EXCEPT ![p] = r]
                        /\ goto(p, "copy")
                        /\ UNCHANGED <<va, pa, out>>
     \/ /\ goto(p, IF out[p] = NULL THEN "exit" ELSE "user")
        /\ va' = [va EXCEPT ![p] = 0]
        /\ pa' = [pa EXCEPT ![p] = NULL]
        /\ out' = [out EXCEPT ![p] = NULL]
        /\ UNCHANGED <<cnt, new>>
  /\ UNCHANGED <<sz, pt, mem, child>>

\* Mutant: the new page is used as kalloc() left it.
BugCopy(p) ==
  /\ pc[p] = "copy"
  /\ goto(p, "map")
  /\ UNCHANGED <<sz, pt, cnt, mem, va, pa, new, out, child>>

\* cowalloc(): memmove(mem, pa).
cow_copy(p) ==
  /\ pc[p] = "copy"
  /\ mem' = [mem EXCEPT ![new[p]] = mem[pa[p]]]
  /\ goto(p, "map")
  /\ UNCHANGED <<sz, pt, cnt, va, pa, new, out, child>>

\* cowalloc(): the PTE gets the new page.
cow_map(p) ==
  /\ pc[p] = "map"
  /\ setpte(p, va[p], [pa |-> new[p], w |-> TRUE, f |-> FALSE])
  /\ goto(p, "drop")
  /\ UNCHANGED <<sz, cnt, mem, va, pa, new, out, child>>

\* Mutant: the old page keeps the reference.
BugLeak(p) ==
  /\ pc[p] = "drop"
  /\ ret(p, new[p])
  /\ new' = [new EXCEPT ![p] = NULL]
  /\ UNCHANGED <<sz, pt, cnt, mem, va, out, child>>

\* cowalloc(): kfree(pa).
cow_drop(p) ==
  /\ pc[p] = "drop"
  /\ kfree(pa[p])
  /\ ret(p, new[p])
  /\ new' = [new EXCEPT ![p] = NULL]
  /\ UNCHANGED <<sz, pt, va, out, child>>

\* fork(): allocproc().
fork(p, q) ==
  /\ pc[p] = "user" /\ pc[q] = "unused"
  /\ pc' = [pc EXCEPT ![p] = "fork", ![q] = "new"]
  /\ va' = [va EXCEPT ![p] = 0]
  /\ child' = [child EXCEPT ![p] = q]
  /\ UNCHANGED <<sz, pt, cnt, mem, pa, new, out>>

\* The PTE of the parent's page that goes into both tables.
shared(e) == IF e.w THEN [e EXCEPT !.w = FALSE, !.f = TRUE] ELSE e

\* Mutant: the parent keeps its write permission.
BugUvmcopy(p) ==
  /\ pc[p] = "fork" /\ va[p] < sz[p]
  /\ pt[p][va[p]] # NULL
  /\ pt' = [pt EXCEPT ![child[p]][va[p]] = shared(pt[p][va[p]])]
  /\ goto(p, "addref")
  /\ UNCHANGED <<va, sz, cnt, mem, pa, new, out, child>>

\* uvmcopy(): one page, shared with the child; mappages() may find no page for
\* the page table, and then what the child has is unmapped.
uvmcopy(p) ==
  /\ pc[p] = "fork" /\ va[p] < sz[p]
  /\ LET e == pt[p][va[p]] IN
     IF e = NULL
     THEN va' = [va EXCEPT ![p] = @ + 1] /\ UNCHANGED <<pt, pc>>
     ELSE \/ /\ pt' = [pt EXCEPT ![p][va[p]] = shared(e), ![child[p]][va[p]] = shared(e)]
             /\ goto(p, "addref")
             /\ UNCHANGED va
          \/ /\ setpte(p, va[p], shared(e))
             /\ pc' = [pc EXCEPT ![p] = "unwind", ![child[p]] = "exit"]
             /\ UNCHANGED va
  /\ UNCHANGED <<sz, cnt, mem, pa, new, out, child>>

\* uvmcopy(): kaddrefcnt().
uvmcopy_addref(p) ==
  /\ pc[p] = "addref"
  /\ LET r == pt[p][va[p]].pa IN cnt' = [cnt EXCEPT ![r] = @ + 1]
  /\ va' = [va EXCEPT ![p] = @ + 1]
  /\ goto(p, "fork")
  /\ UNCHANGED <<sz, pt, mem, pa, new, out, child>>

\* fork(): the child can run.
fork_done(p) ==
  /\ pc[p] = "fork" /\ va[p] = sz[p]
  /\ sz' = [sz EXCEPT ![child[p]] = sz[p]]
  /\ pc' = [pc EXCEPT ![p] = "user", ![child[p]] = "user"]
  /\ child' = [child EXCEPT ![p] = NULL]
  /\ va' = [va EXCEPT ![p] = 0]
  /\ UNCHANGED <<pt, cnt, mem, pa, new, out>>

\* fork() returns -1 once the child's pages are unmapped.
fork_fail(p) ==
  /\ pc[p] = "unwind" /\ pc[child[p]] = "unused"
  /\ goto(p, "user")
  /\ child' = [child EXCEPT ![p] = NULL]
  /\ va' = [va EXCEPT ![p] = 0]
  /\ UNCHANGED <<sz, pt, cnt, mem, pa, new, out>>

\* sys_sbrk() by one page: growing is lazy, shrinking unmaps the last page.
sbrk(p) ==
  /\ pc[p] = "user"
  /\ \/ /\ sz[p] < NVA
        /\ sz' = [sz EXCEPT ![p] = @ + 1]
        /\ UNCHANGED <<pt, cnt, mem>>
     \/ /\ sz[p] > 1
        /\ sz' = [sz EXCEPT ![p] = @ - 1]
        /\ LET e == pt[p][sz[p] - 1] IN
           IF e = NULL THEN UNCHANGED <<pt, cnt, mem>>
                       ELSE kfree(e.pa) /\ setpte(p, sz[p] - 1, NULL)
  /\ UNCHANGED <<pc, va, pa, new, out, child>>

\* exit(): from here on the process runs no user code.
exit(p) ==
  /\ pc[p] = "user"
  /\ goto(p, "exit")
  /\ va' = [va EXCEPT ![p] = 0]
  /\ UNCHANGED <<sz, pt, cnt, mem, pa, new, out, child>>

\* uvmunmap() of the memory of a dead process or of a child that was not made,
\* page by page.
uvmunmap(p) ==
  /\ pc[p] = "exit"
  /\ IF va[p] < NVA
     THEN /\ va' = [va EXCEPT ![p] = @ + 1]
          /\ LET e == pt[p][va[p]] IN
             IF e = NULL THEN UNCHANGED <<pt, cnt, mem>>
                         ELSE kfree(e.pa) /\ setpte(p, va[p], NULL)
          /\ UNCHANGED <<pc, sz>>
     ELSE /\ goto(p, "unused")
          /\ sz' = [sz EXCEPT ![p] = 0]
          /\ va' = [va EXCEPT ![p] = 0]
          /\ UNCHANGED <<pt, cnt, mem>>
  /\ UNCHANGED <<pa, new, out, child>>

Next ==
  \E p \in Proc :
    \/ \E a \in Va, v \in Val : store(p, a, v) \/ copyout(p, a, v)
    \/ \E a \in Va : lazy(p, a) \/ \E v \in Val \cup {NULL} : cowpage(p, a, v)
    \/ copyout_write(p)
    \/ cow_check(p) \/ cow_own(p) \/ cow_alloc(p) \/ cow_copy(p) \/ cow_map(p) \/ cow_drop(p)
    \/ \E q \in Proc : fork(p, q)
    \/ uvmcopy(p) \/ uvmcopy_addref(p) \/ fork_done(p) \/ fork_fail(p)
    \/ sbrk(p) \/ exit(p) \/ uvmunmap(p)

Spec == Init /\ [][Next]_vars

-----------------------------------------------------------------------------
(* Properties.                                                             *)

\* Sharing pages is invisible: what processes see is memory of their own, copied
\* by fork().  What a process sees changes by its own stores only.
space == [p \in Proc |->
            IF pc[p] \in {"unused", "new", "exit"} THEN NULL
            ELSE [a \in Va |-> IF pt[p][a] = NULL THEN 0 ELSE mem[pt[p][a].pa]]]
Private == INSTANCE PrivateMemory
ImplementsPrivateMemory == Private!Spec

\* A PTE of a child that uvmcopy() has yet to count.
Uncounted(q, a) == \E p \in Proc : pc[p] = "addref" /\ child[p] = q /\ va[p] = a

\* References of process p to page r: its PTEs, the page that cowalloc() has yet to map
\* (number NVA), and the one that cowalloc() has yet to free (number NVA + 1).
Ref(p, a, r) ==
  \/ a \in Va /\ pt[p][a] # NULL /\ pt[p][a].pa = r /\ ~ Uncounted(p, a)
  \/ a = NVA /\ pc[p] \in {"copy", "map"} /\ new[p] = r
  \/ a = NVA + 1 /\ pc[p] = "drop" /\ pa[p] = r

Refs(r) == {h \in Proc \X (0 .. NVA + 1) : Ref(h[1], h[2], r)}

\* The reference count of a page is the number of references there are.  So no page is
\* leaked or freed early.
CountExact == \A r \in Page : cnt[r] = Cardinality(Refs(r))

\* A page a process can write is mapped nowhere else, whoever forks, faults or
\* exits at the same time.
WritableIsPrivate ==
  \A p, q \in Proc : \A a, b \in Va :
    /\ pt[p][a] # NULL /\ pt[p][a].w /\ pt[q][b] # NULL
    /\ pt[q][b].pa = pt[p][a].pa
    => p = q /\ a = b
=============================================================================
