-------------------------------- MODULE Image --------------------------------
(***************************************************************************)
(* Address spaces as they are made and thrown away: page tables with their *)
(* page-table pages (kernel/mm/vm.c), allocproc(), freeproc() and fork()   *)
(* of kernel/proc/proc.c, exec() and sys_exec(), where any kalloc() can    *)
(* fail.  Cow.tla models the life of the pages in between.                 *)
(*                                                                         *)
(* Calls run one at a time here: each works on tables of its own and       *)
(* shares only the counts of pages, whose interleavings Kalloc.tla has.    *)
(* Addresses are page numbers.  Three levels of tables with FAN entries    *)
(* each stand for the 512-way tables of Sv39.  A local variable that is    *)
(* written before it is read again goes back to its first value.           *)
(***************************************************************************)
EXTENDS Integers, Sequences, FiniteSets, FiniteSetsExt

CONSTANTS
  Proc,     \* process slots
  FAN,      \* entries of a page-table page
  MAXSZ,    \* bound: pages of user memory of a process
  MAXBRK,   \* bound: what sbrk() grows a process to
  MAXARG,   \* arguments of exec()
  MAXDROP,  \* bound: trapframes forgotten by allocproc()
  NULL

MAXVA == FAN * FAN * FAN
TRAMPOLINE == MAXVA - 1
TRAPFRAME == MAXVA - 2
User == 0 .. TRAPFRAME - 1

\* User pages are named after the address they are made for: a page is mapped at one
\* address only, by a process and those it has forked.  Two processes and the image
\* exec() makes need a page each.
Copy == 0 .. Cardinality(Proc)

\* The page-table page of a level for va, numbered from the root (level 2) down.
node(level, va) == FAN ^ (2 - level) + va \div FAN ^ (level + 1)
ROOT == node(2, 0)

\* A table: its page-table pages, the entries of user addresses, those with PTE_U,
\* and whether the trampoline and the trapframe are mapped.
Empty == [dir |-> {}, leaf |-> [a \in User |-> NULL], u |-> {}, top |-> {}]

VARIABLES
  cnt,       \* reference counts of user pages
  taken,     \* pages handed out for page tables, trapframes and arguments
  pt, sz,    \* p->pagetable, p->sz
  tf, atf,   \* slots with a p->trapframe and a p->alarm_trapframe
  used,      \* slots that are not UNUSED
  dropped,   \* number of trapframes allocproc() has forgotten
  cur, pc,   \* the process whose call runs, and where it is
  new, nsz,  \* exec(): pagetable and sz; fork(): the child's pagetable
  at, goal,  \* uvmalloc(): a and newsz; uvmcopy(): i
  child,     \* fork(): np
  argc,      \* sys_exec(): pages with arguments
  locked,    \* exec(): ip is locked, inside a transaction
  panicked   \* mappages(), loadseg() or uvmclear() has panicked

pages == <<cnt, taken, panicked>>
slots == <<pt, sz, tf, atf, used, dropped>>
locals == <<new, nsz, at, goal, child, argc, locked>>
vars == <<pages, slots, cur, pc, locals>>

-----------------------------------------------------------------------------
(* Page tables.  An outcome has the user pages c, the number n of other      *)
(* pages, the table t, and whether the operation succeeded or panicked.      *)
(* Any kalloc() can fail.                                                    *)

now(t) == [c |-> cnt, n |-> taken, t |-> t, ok |-> TRUE, panic |-> panicked]

\* kalloc() of a page for address va, and kfree() of what a table maps there.
page(c, va) == Min({k \in Copy : c[va][k] = 0})
kfree(c, t, S) ==
  [a \in User |-> [k \in Copy |-> IF a \in S /\ t.leaf[a] = k THEN c[a][k] - 1 ELSE c[a][k]]]

\* Mutant: a page-table page is allocated whether there is one or not.
BugEnter(o, m) ==
  IF ~ o.ok THEN {o}
  ELSE {[o EXCEPT !.ok = FALSE], [o EXCEPT !.n = @ + 1, !.t.dir = @ \cup {m}]}

\* walk(): a missing page-table page is allocated and entered.
enter(o, m) ==
  IF ~ o.ok \/ m \in o.t.dir THEN {o}
  ELSE {[o EXCEPT !.ok = FALSE], [o EXCEPT !.n = @ + 1, !.t.dir = @ \cup {m}]}
walk(o, va) == UNION {enter(w, node(0, va)) : w \in enter(o, node(1, va))}

\* mappages() of user page k.  It panics if the address is mapped.
mappages(o, va, k) ==
  {IF ~ w.ok THEN w
   ELSE [w EXCEPT !.t.leaf[va] = k, !.t.u = @ \cup {va}, !.panic = @ \/ w.t.leaf[va] # NULL] :
     w \in walk(o, va)}

\* uvmunmap() with do_free: absent pages are skipped.
uvmunmap(o, S) ==
  [o EXCEPT !.c = kfree(@, o.t, S), !.t.u = @ \ S,
            !.t.leaf = [a \in User |-> IF a \in S THEN NULL ELSE @[a]]]

\* Mutant: freewalk() does not free the root.
BugFreewalk(o) == [o EXCEPT !.n = @ - Cardinality(o.t.dir) + 1, !.t = NULL]

\* freewalk(): every page-table page.  What is still mapped is nobody's from now on.
freewalk(o) == [o EXCEPT !.n = @ - Cardinality(o.t.dir), !.t = NULL]

\* proc_freepagetable(): the special pages are unmapped, user memory below size freed.
proc_freepagetable(o, size) == freewalk(uvmunmap(o, 0 .. size - 1))

\* proc_pagetable(): uvmcreate(), the trampoline and the trapframe; on failure nothing.
proc_pagetable(o) ==
  LET root == [o EXCEPT !.n = @ + 1, !.t = [Empty EXCEPT !.dir = {ROOT}]]
      map(w, va) == {IF x.ok THEN [x EXCEPT !.t.top = @ \cup {va}] ELSE x : x \in walk(w, va)}
      tops == UNION {map(w, TRAPFRAME) : w \in map(root, TRAMPOLINE)}
  IN {[o EXCEPT !.ok = FALSE]} \cup {IF w.ok THEN w ELSE freewalk(w) : w \in tops}

-----------------------------------------------------------------------------
\* userinit(): the first process has one page.
first ==
  [dir |-> {node(l, a) : l \in 0 .. 2, a \in {0, TRAPFRAME, TRAMPOLINE}},
   leaf |-> [a \in User |-> IF a = 0 THEN 0 ELSE NULL], u |-> {0}, top |-> {TRAPFRAME, TRAMPOLINE}]

Init ==
  /\ \E p \in Proc :
       /\ pt = [q \in Proc |-> IF q = p THEN first ELSE NULL]
       /\ sz = [q \in Proc |-> IF q = p THEN 1 ELSE 0]
       /\ tf = {p} /\ atf = {p} /\ used = {p}
  /\ cnt = [a \in User |-> [k \in Copy |-> IF a = 0 /\ k = 0 THEN 1 ELSE 0]]
  /\ taken = Cardinality(first.dir) + 2
  /\ dropped = 0
  /\ cur = NULL /\ pc = "idle"
  /\ new = NULL /\ nsz = 0 /\ at = 0 /\ goal = 0 /\ child = NULL /\ argc = 0 /\ locked = FALSE
  /\ panicked = FALSE

goto(l) == pc' = l

\* The call returns.
return ==
  /\ pc' = "idle" /\ cur' = NULL
  /\ new' = NULL /\ nsz' = 0 /\ at' = 0 /\ goal' = 0 /\ child' = NULL /\ argc' = 0 /\ locked' = FALSE

\* The pages of an outcome become those of the state.
adopt(o) == cnt' = o.c /\ taken' = o.n /\ panicked' = o.panic

\* One page is added to a table at address va; without a page-table page it is freed.
add(o, va) ==
  LET k == page(o.c, va) IN
  {[o EXCEPT !.ok = FALSE]}
    \cup {IF w.ok THEN w ELSE [w EXCEPT !.c = o.c] :
             w \in mappages([o EXCEPT !.c = [@ EXCEPT ![va] = [@ EXCEPT ![k] = 1]]], va, k)}

\* sys_sbrk(): growing is lazy, shrinking unmaps the page.
sbrk(p) ==
  /\ pc = "idle" /\ p \in used
  /\ \/ sz[p] < MAXBRK /\ sz' = [sz EXCEPT ![p] = @ + 1] /\ UNCHANGED <<pages, pt>>
     \/ /\ sz[p] > 1 /\ sz' = [sz EXCEPT ![p] = @ - 1]
        /\ LET o == uvmunmap(now(pt[p]), {sz[p] - 1}) IN adopt(o) /\ pt' = [pt EXCEPT ![p] = o.t]
  /\ UNCHANGED <<tf, atf, used, dropped, cur, pc, locals>>

\* usertrap(): a page that sbrk() has promised.
touch(p, va) ==
  /\ pc = "idle" /\ p \in used
  /\ va < sz[p] /\ pt[p].leaf[va] = NULL
  /\ \E o \in add(now(pt[p]), va) : adopt(o) /\ pt' = [pt EXCEPT ![p] = o.t]
  /\ UNCHANGED <<sz, tf, atf, used, dropped, cur, pc, locals>>

-----------------------------------------------------------------------------
\* freeproc(np) of a child whose table is that of o: np->sz is 0.
freeproc(o) ==
  /\ adopt([proc_freepagetable(o, sz[child]) EXCEPT !.n = @ - 2])
  /\ tf' = tf \ {child} /\ atf' = atf \ {child}

\* fork(): allocproc().  A second kalloc() that fails leaves p->trapframe behind,
\* and the next allocproc() of the slot overwrites it.
fork(p, q) ==
  /\ pc = "idle" /\ p \in used /\ q \notin used
  /\ dropped < MAXDROP
  /\ dropped' = dropped + IF q \in tf THEN 1 ELSE 0
  /\ \/ /\ tf' = tf \ {q}
        /\ UNCHANGED <<pages, atf, cur, pc, locals>>
     \/ /\ tf' = tf \cup {q} /\ taken' = taken + 1
        /\ UNCHANGED <<cnt, panicked, atf, cur, pc, locals>>
     \/ \E o \in proc_pagetable([now(NULL) EXCEPT !.n = @ + 2]) :
          IF o.ok
          THEN /\ adopt(o) /\ new' = o.t
               /\ tf' = tf \cup {q} /\ atf' = atf \cup {q}
               /\ cur' = p /\ child' = q /\ goto("copy")
               /\ UNCHANGED <<nsz, at, goal, argc, locked>>
          ELSE /\ adopt([o EXCEPT !.n = @ - 2])
               /\ tf' = tf \ {q}
               /\ UNCHANGED <<atf, cur, pc, locals>>
  /\ UNCHANGED <<pt, sz, used>>

\* uvmcopy(): address va of the running process goes into the child's table too.
share(va) ==
  LET k == pt[cur].leaf[va] IN
  IF k = NULL THEN {now(new)}
  ELSE {IF o.ok THEN [o EXCEPT !.c = [@ EXCEPT ![va] = [@ EXCEPT ![k] = @ + 1]]] ELSE o :
          o \in mappages(now(new), va, k)}

\* Mutant: when the child cannot be made, the pages copied so far keep its references.
BugUvmcopy ==
  /\ pc = "copy" /\ at < sz[cur]
  /\ \E o \in share(at) :
       \/ /\ o.ok /\ adopt(o) /\ new' = o.t /\ at' = at + 1
          /\ UNCHANGED <<tf, atf, cur, pc, nsz, goal, child, argc, locked>>
       \/ ~ o.ok /\ freeproc(o) /\ return
  /\ UNCHANGED <<pt, sz, used, dropped>>

\* fork(): one page of uvmcopy().  When there is no page for the child's table, the
\* child's pages are unmapped and freeproc() frees the rest.
uvmcopy ==
  /\ pc = "copy" /\ at < sz[cur]
  /\ \E o \in share(at) :
       \/ /\ o.ok /\ adopt(o) /\ new' = o.t /\ at' = at + 1
          /\ UNCHANGED <<tf, atf, cur, pc, nsz, goal, child, argc, locked>>
       \/ ~ o.ok /\ freeproc(uvmunmap(o, 0 .. at - 1)) /\ return
  /\ UNCHANGED <<pt, sz, used, dropped>>

\* fork(): the child is complete.
fork_done ==
  /\ pc = "copy" /\ at = sz[cur]
  /\ pt' = [pt EXCEPT ![child] = new]
  /\ sz' = [sz EXCEPT ![child] = sz[cur]]
  /\ used' = used \cup {child}
  /\ return
  /\ UNCHANGED <<pages, tf, atf, dropped>>

\* exit(), and freeproc() by the parent.
reap(q) ==
  /\ pc = "idle" /\ q \in used /\ used # {q}
  /\ adopt([proc_freepagetable(now(pt[q]), sz[q]) EXCEPT !.n = @ - 2])
  /\ pt' = [pt EXCEPT ![q] = NULL]
  /\ sz' = [sz EXCEPT ![q] = 0]
  /\ tf' = tf \ {q} /\ atf' = atf \ {q} /\ used' = used \ {q}
  /\ UNCHANGED <<dropped, cur, pc, locals>>

-----------------------------------------------------------------------------
\* sys_exec().
sys_exec(p) ==
  /\ pc = "idle" /\ p \in used
  /\ cur' = p /\ goto("args")
  /\ UNCHANGED <<pages, slots, locals>>

\* sys_exec(): a page for the next argument, whose text may be unreadable; no page or
\* too many arguments; the end of the list.
sys_exec_arg ==
  /\ pc = "args"
  /\ \/ /\ argc < MAXARG
        /\ argc' = argc + 1 /\ taken' = taken + 1
        /\ pc' \in {"args", "free"}
     \/ goto("free") /\ UNCHANGED <<taken, argc>>
     \/ argc < MAXARG /\ goto("exec") /\ UNCHANGED <<taken, argc>>
  /\ UNCHANGED <<cnt, panicked, slots, cur, new, nsz, at, goal, child, locked>>

\* sys_exec(): free the arguments and return.
sys_exec_free ==
  /\ pc = "free"
  /\ taken' = taken - argc
  /\ return
  /\ UNCHANGED <<cnt, panicked, slots>>

\* exec(): look up and lock the file, check its header, make an empty table.
exec ==
  /\ pc = "exec"
  /\ \/ goto("free") /\ UNCHANGED <<pages, new, locked>>
     \/ goto("bad") /\ locked' = TRUE /\ UNCHANGED <<pages, new>>
     \/ \E o \in proc_pagetable(now(NULL)) :
          /\ adopt(o) /\ new' = o.t /\ locked' = TRUE
          /\ goto(IF o.ok THEN "segment" ELSE "bad")
  /\ UNCHANGED <<slots, cur, nsz, at, goal, child, argc>>

\* exec(): the next segment ends at page goal; its header may be bad.  After the last
\* one the file is released, and two pages are added for the stack.
segment ==
  /\ pc = "segment"
  /\ \/ \E g \in 0 .. MAXSZ - 2 : goal' = g /\ goto("grow") /\ UNCHANGED locked
     \/ goto("bad") /\ UNCHANGED <<goal, locked>>
     \/ goal' = nsz + 2 /\ locked' = FALSE /\ goto("grow")
  /\ at' = IF pc' = "grow" THEN nsz ELSE 0
  /\ UNCHANGED <<pages, slots, cur, new, nsz, child, argc>>

\* uvmalloc(): one page; a failure gives back the pages this call has added.
uvmalloc ==
  /\ pc = "grow" /\ at < goal
  /\ \E o \in add(now(new), at) :
       \/ o.ok /\ adopt(o) /\ new' = o.t /\ at' = at + 1 /\ UNCHANGED <<pc, goal>>
       \/ /\ ~ o.ok
          /\ LET un == uvmunmap(o, nsz .. at - 1) IN adopt(un) /\ new' = un.t
          /\ goto("bad") /\ at' = 0 /\ goal' = 0
  /\ UNCHANGED <<slots, cur, nsz, child, argc, locked>>

\* What walkaddr() finds.
mapped(t, S) == \A a \in S : t.leaf[a] # NULL /\ a \in t.u

\* exec(): the image has grown; a size of 0 counts as a failure.  loadseg() reads a
\* segment into pages that exist or panics; below the stack, uvmclear() makes a guard
\* page inaccessible.
grown ==
  /\ pc = "grow" /\ at >= goal
  /\ nsz' = Max({nsz, goal}) /\ at' = 0 /\ goal' = 0
  /\ IF locked
     THEN /\ IF nsz' = 0 THEN goto("bad") ELSE pc' \in {"segment", "bad"}
          /\ panicked' = (panicked \/ ~ mapped(new, 0 .. goal - 1))
          /\ UNCHANGED new
     ELSE /\ goto("stack")
          /\ panicked' = (panicked \/ new.leaf[goal - 2] = NULL)
          /\ new' = [new EXCEPT !.u = @ \ {goal - 2}]
  /\ UNCHANGED <<cnt, taken, slots, cur, child, argc, locked>>

\* Mutant: p->sz stays what it was.
BugCommit ==
  /\ pc = "stack"
  /\ \/ goto("bad") /\ UNCHANGED <<pages, pt, new>>
     \/ /\ mapped(new, {nsz - 1})
        /\ pt' = [pt EXCEPT ![cur] = new]
        /\ adopt(proc_freepagetable(now(pt[cur]), sz[cur]))
        /\ new' = NULL
        /\ goto("free")
  /\ UNCHANGED <<sz, tf, atf, used, dropped, cur, nsz, at, goal, child, argc, locked>>

\* exec(): the arguments fit into the stack page and the new image replaces the old
\* one, or they do not.
commit ==
  /\ pc = "stack"
  /\ \/ goto("bad") /\ UNCHANGED <<pages, pt, sz, new, nsz>>
     \/ /\ mapped(new, {nsz - 1})
        /\ pt' = [pt EXCEPT ![cur] = new]
        /\ sz' = [sz EXCEPT ![cur] = nsz]
        /\ adopt(proc_freepagetable(now(pt[cur]), sz[cur]))
        /\ new' = NULL /\ nsz' = 0
        /\ goto("free")
  /\ UNCHANGED <<tf, atf, used, dropped, cur, at, goal, child, argc, locked>>

\* exec(): bad.
bad ==
  /\ pc = "bad"
  /\ IF new = NULL THEN UNCHANGED pages ELSE adopt(proc_freepagetable(now(new), nsz))
  /\ new' = NULL /\ nsz' = 0 /\ locked' = FALSE
  /\ goto("free")
  /\ UNCHANGED <<slots, cur, at, goal, child, argc>>

Next ==
  \/ \E p \in Proc : sbrk(p) \/ reap(p) \/ sys_exec(p) \/ \E a \in User : touch(p, a)
  \/ \E p, q \in Proc : fork(p, q)
  \/ uvmcopy \/ fork_done
  \/ sys_exec_arg \/ sys_exec_free \/ exec \/ segment \/ uvmalloc \/ grown \/ commit \/ bad

Spec == Init /\ [][Next]_vars

-----------------------------------------------------------------------------
(* Properties.                                                             *)

\* Whatever kalloc() fails in fork(), exec(), sys_exec() or a page fault, every user
\* page has one reference for every table that maps it, and every other page that was
\* taken is a page-table page, a trapframe or an argument, or has been given back once.
\* The one exception is the trapframe that allocproc() leaves in a slot.
PagesAccounted ==
  /\ \A a \in User, k \in Copy :
       cnt[a][k] = Cardinality({p \in used : pt[p].leaf[a] = k})
                   + (IF new # NULL /\ new.leaf[a] = k THEN 1 ELSE 0)
  /\ taken = FoldSet(LAMBDA p, n : n + Cardinality(pt[p].dir), 0, used)
             + (IF new = NULL THEN 0 ELSE Cardinality(new.dir))
             + Cardinality(tf) + Cardinality(atf) + argc + dropped

\* Neither mappages() ("remap"), loadseg() nor uvmclear() panics; a process always has
\* a table that maps its trapframe and nothing above p->sz; a call that returns has
\* released the file it was loading.
ImagesWhole ==
  /\ ~ panicked
  /\ \A p \in used : /\ pt[p] # NULL /\ pt[p].top = {TRAPFRAME, TRAMPOLINE} /\ p \in tf \cap atf
                     /\ \A a \in User : pt[p].leaf[a] # NULL => a < sz[p]
  /\ pc = "free" => ~ locked
=============================================================================
