-------------------------------- MODULE Mmap --------------------------------
(***************************************************************************)
(* Files mapped into memory: sys_mmap() and sys_munmap() of                *)
(* kernel/sysfile.c, mmap_handler() and the lazy branch of usertrap() in   *)
(* kernel/interrupt/trap.c, argaddr() of kernel/syscall.c, and what fork() *)
(* and exit() do with mappings and sys_sbrk() to them.                     *)
(*                                                                         *)
(* Addresses and lengths are in pages, and a file is a sequence of pages   *)
(* too.  A page holds a page of the file or something else (zeros, what    *)
(* the program stored).  fork() copies memory (Cow.tla shows that it       *)
(* does).  Everybody maps the same file.                                   *)
(***************************************************************************)
EXTENDS Integers, FiniteSets, FiniteSetsExt

CONSTANTS
  Proc,   \* process slots
  NVMA,   \* entries of p->vma
  NVA,    \* bound: pages of a process, mapped or not
  FLEN,   \* pages of the file
  Length, \* bound: lengths of mmap() and munmap()
  Brk,    \* bound: arguments of sbrk()
  NULL

Va == 1 .. NVA - 1   \* the program is in page 0
Vma == 0 .. NVMA - 1
ANON == FLEN         \* contents that are no page of the file

VARIABLES
  writable,  \* vfile->writable
  disk,      \* contents of the file; disk[i] is i when it was not changed
  off, ref,  \* vfile->off, vfile->ref
  fd,        \* processes that have a descriptor for the file
  alive,     \* processes
  sz, vma,   \* p->sz, p->vma
  mem, pw,   \* contents of the pages of p, and those with PTE_W
  strange,   \* processes that called munmap() with a negative length, or sbrk() that took
             \* the memory of a mapping
  panicked

file == <<disk, off, ref>>
vars == <<writable, file, fd, alive, sz, vma, mem, pw, strange, panicked>>

None == [a \in Va |-> NULL]
Unused == [used |-> FALSE, addr |-> 0, len |-> 0, back |-> FALSE, prot_w |-> FALSE]

-----------------------------------------------------------------------------
\* A program of one page has opened the file.
Init ==
  /\ writable \in BOOLEAN
  /\ disk = [i \in 0 .. FLEN - 1 |-> i] /\ off = 0 /\ ref = 1
  /\ \E p \in Proc :
       /\ fd = {p} /\ alive = {p}
       /\ sz = [q \in Proc |-> IF q = p THEN 1 ELSE 0]
  /\ vma = [p \in Proc |-> [i \in Vma |-> Unused]]
  /\ mem = [p \in Proc |-> None]
  /\ pw = [p \in Proc |-> {}]
  /\ strange = {} /\ panicked = FALSE

\* sys_mmap(): the first unused entry, at the end of memory.  Of the flags the entry keeps
\* whether pages are written back (MAP_SHARED and PROT_WRITE).
sys_mmap(p, len, shared, prot_w) ==
  /\ p \in alive /\ p \in fd
  /\ ~ (~ writable /\ prot_w /\ shared)
  /\ sz[p] + len <= NVA
  /\ \E i \in Vma : ~ vma[p][i].used
  /\ LET i == Min({j \in Vma : ~ vma[p][j].used}) IN
     vma' = [vma EXCEPT ![p][i] = [used |-> TRUE, addr |-> sz[p], len |-> len,
                                   back |-> shared /\ prot_w, prot_w |-> prot_w]]
  /\ ref' = ref + 1
  /\ sz' = [sz EXCEPT ![p] = @ + len]
  /\ UNCHANGED <<writable, disk, off, fd, alive, mem, pw, strange, panicked>>

\* A page of contents c is mapped.
map(p, a, c, w) ==
  /\ mem' = [mem EXCEPT ![p][a] = c]
  /\ pw' = IF w THEN [pw EXCEPT ![p] = @ \cup {a}] ELSE pw
  /\ UNCHANGED <<writable, file, fd, alive, sz, vma, strange, panicked>>

inside(p, a) == {i \in Vma : vma[p][i].used /\ vma[p][i].addr <= a /\ a < vma[p][i].addr + vma[p][i].len}

\* usertrap() with cause 13 or 15 at a page that is not mapped.  mmap_handler() takes the
\* page of the file at the distance from vma.addr; outside of mappings, beyond the end of
\* the file, and when a file that is not writable is stored to, a zero page is mapped.
page_fault(p, a, store) ==
  /\ p \in alive /\ a < sz[p] /\ mem[p][a] = NULL
  /\ IF inside(p, a) = {} \/ (store /\ ~ writable)
     THEN map(p, a, ANON, TRUE)
     ELSE LET v == vma[p][Min(inside(p, a))]
              offset == a - v.addr
          IN IF offset < FLEN THEN map(p, a, disk[offset], v.prot_w) ELSE map(p, a, ANON, TRUE)

\* usertrap() with cause 15 at a page that is mapped without PTE_W, and not because of
\* fork(): the same code maps it again, and mappages() panics ("remap").
remap(p, a) ==
  /\ p \in alive /\ a < sz[p] /\ mem[p][a] # NULL /\ a \notin pw[p]
  /\ panicked' = TRUE
  /\ UNCHANGED <<writable, file, fd, alive, sz, vma, mem, pw, strange>>

usertrap(p, a, store) == page_fault(p, a, store) \/ (store /\ remap(p, a))

\* argaddr(): a system call gets a pointer into a page that is not mapped.
argaddr(p, a) ==
  /\ p \in alive /\ a < sz[p] /\ mem[p][a] = NULL
  /\ map(p, a, ANON, TRUE)

\* A store instruction.
store(p, a) ==
  /\ p \in alive /\ a \in pw[p]
  /\ map(p, a, ANON, TRUE)

\* filewrite() of pages a .. a + n - 1 at vfile->off.  A page that is not mapped leaves the
\* file as it is, and so does a length that is not positive.  Bound: the file does not grow.
writeback(p, v, a, n) ==
  IF ~ v.back \/ n <= 0 THEN UNCHANGED <<disk, off>>
  ELSE LET m == Min({n, FLEN - off}) IN
       /\ disk' = [i \in DOMAIN disk |->
                     IF off <= i /\ i < off + m /\ mem[p][a + i - off] # NULL
                     THEN mem[p][a + i - off] ELSE disk[i]]
       /\ off' = off + m

\* The entry that sys_munmap() of n pages at a finds: the first one that begins with them
\* or ends with them.
found(p, a, n) ==
  {i \in Vma : /\ vma[p][i].used /\ vma[p][i].len >= n
               /\ \/ vma[p][i].addr = a
                  \/ a + n = vma[p][i].addr + vma[p][i].len}

\* The pages a .. a + n - 1 are freed, none if n is not positive.
uvmunmap(p, a, n) ==
  /\ mem' = [mem EXCEPT ![p] = [b \in Va |-> IF a <= b /\ b < a + n THEN NULL ELSE @[b]]]
  /\ pw' = [pw EXCEPT ![p] = @ \ (a .. a + n - 1)]

\* Mutant: the file is closed by the munmap() of a part, and the entry stays.
BugMunmap(p, a, n) ==
  /\ p \in alive /\ mem[p][a] # NULL
  /\ found(p, a, n) # {}
  /\ LET i == Min(found(p, a, n))
         v == vma[p][i]
         rest == [v EXCEPT !.addr = IF @ = a THEN @ + n ELSE @, !.len = @ - n]
     IN /\ 0 < rest.addr /\ rest.addr + rest.len <= NVA
        /\ vma' = [vma EXCEPT ![p][i] = IF rest.len = 0 THEN Unused ELSE rest]
        /\ ref' = ref - 1
        /\ writeback(p, v, a, n)
  /\ uvmunmap(p, a, n)
  /\ strange' = IF n < 0 THEN strange \cup {p} ELSE strange
  /\ UNCHANGED <<writable, fd, alive, sz, panicked>>

\* sys_munmap(): shrink the entry, write back, unmap, and close the file with the last
\* page.  argaddr() maps the first page if it is not mapped yet (an action of its own,
\* the call then finds it mapped).  The sign of the length is not looked at: a negative one
\* makes the entry larger, downwards if a is where it begins.
sys_munmap(p, a, n) ==
  /\ p \in alive /\ mem[p][a] # NULL
  /\ found(p, a, n) # {}
  /\ LET i == Min(found(p, a, n))
         v == vma[p][i]
         rest == [v EXCEPT !.addr = IF @ = a THEN @ + n ELSE @, !.len = @ - n]
     IN /\ 0 < rest.addr /\ rest.addr + rest.len <= NVA
        /\ vma' = [vma EXCEPT ![p][i] = IF rest.len = 0 THEN Unused ELSE rest]
        /\ ref' = IF rest.len = 0 THEN ref - 1 ELSE ref
        /\ writeback(p, v, a, n)
  /\ uvmunmap(p, a, n)
  /\ strange' = IF n < 0 THEN strange \cup {p} ELSE strange
  /\ UNCHANGED <<writable, fd, alive, sz, panicked>>

sys_close(p) ==
  /\ p \in fd
  /\ fd' = fd \ {p} /\ ref' = ref - 1
  /\ UNCHANGED <<writable, disk, off, alive, sz, vma, mem, pw, strange, panicked>>

mappings(p) == {i \in Vma : vma[p][i].used}

\* sys_sbrk(): memory grows, or pages at its end are freed, mapped files or not.
sys_sbrk(p, n) ==
  /\ p \in alive /\ n # 0 /\ sz[p] + n \in 1 .. NVA
  /\ sz' = [sz EXCEPT ![p] = @ + n]
  /\ uvmunmap(p, sz[p] + n, - n)
  /\ strange' = IF \E i \in mappings(p) : vma[p][i].addr + vma[p][i].len > sz[p] + n
                THEN strange \cup {p} ELSE strange
  /\ UNCHANGED <<writable, file, fd, alive, vma, panicked>>

\* fork(): the child gets the descriptor, the memory and the mappings.
fork(p, q) ==
  /\ p \in alive /\ q \notin alive /\ sz[q] = 0
  /\ alive' = alive \cup {q}
  /\ fd' = IF p \in fd THEN fd \cup {q} ELSE fd
  /\ ref' = ref + Cardinality(mappings(p)) + IF p \in fd THEN 1 ELSE 0
  /\ sz' = [sz EXCEPT ![q] = sz[p]]
  /\ vma' = [vma EXCEPT ![q] = vma[p]]
  /\ mem' = [mem EXCEPT ![q] = mem[p]]
  /\ pw' = [pw EXCEPT ![q] = pw[p]]
  /\ strange' = IF p \in strange THEN strange \cup {q} ELSE strange
  /\ UNCHANGED <<writable, disk, off, panicked>>

\* exit(): the descriptor first, then one mapping after the other, and the memory.  The
\* first process stays.
exit(p) ==
  /\ p \in alive /\ alive # {p}
  /\ alive' = alive \ {p}
  /\ fd' = fd \ {p} /\ ref' = IF p \in fd THEN ref - 1 ELSE ref
  /\ UNCHANGED <<writable, disk, off, sz, vma, mem, pw, strange, panicked>>

exit_vma(p, i) ==
  /\ p \notin alive /\ i \in mappings(p) /\ i = Min(mappings(p))
  /\ LET v == vma[p][i] IN writeback(p, v, v.addr, v.len) /\ uvmunmap(p, v.addr, v.len)
  /\ ref' = ref - 1
  /\ vma' = [vma EXCEPT ![p][i] = Unused]
  /\ UNCHANGED <<writable, fd, alive, sz, strange, panicked>>

freeproc(p) ==
  /\ p \notin alive /\ sz[p] # 0 /\ mappings(p) = {}
  /\ sz' = [sz EXCEPT ![p] = 0]
  /\ mem' = [mem EXCEPT ![p] = None]
  /\ pw' = [pw EXCEPT ![p] = {}]
  /\ strange' = strange \ {p}
  /\ UNCHANGED <<writable, file, fd, alive, vma, panicked>>

Next ==
  ~ panicked /\ \E p \in Proc :
    \/ \E len \in Length \cap Nat, shared, prot_w \in BOOLEAN : sys_mmap(p, len, shared, prot_w)
    \/ \E a \in Va : argaddr(p, a) \/ store(p, a) \/ \E st \in BOOLEAN : usertrap(p, a, st)
    \/ \E a \in Va, n \in Length : sys_munmap(p, a, n)
    \/ sys_close(p) \/ exit(p) \/ freeproc(p)
    \/ \E n \in Brk : sys_sbrk(p, n)
    \/ \E i \in Vma : exit_vma(p, i)
    \/ \E q \in Proc : fork(p, q)

Spec == Init /\ [][Next]_vars

-----------------------------------------------------------------------------
(* Properties.                                                             *)

Pages(v) == v.addr .. v.addr + v.len - 1

\* After any sequence of mmap(), partial munmap(), sbrk(), fork() and exit(), the mappings of
\* a process are disjoint and lie above the program and below p->sz, and the file has one
\* reference for each of them and for each descriptor.  Two calls that the kernel does not
\* refuse break the first part: munmap() with a negative length, and sbrk() below a mapping;
\* then mappings lie beyond p->sz or over each other.  A store to a page of a mapping without
\* PROT_WRITE that is in memory, and nothing else, makes mappages() panic.
MappingsExact ==
  /\ \A p \in Proc \ strange : \A i, j \in mappings(p) :
       LET v == vma[p][i]
           w == vma[p][j]
       IN /\ 0 < v.addr /\ 0 <= v.len /\ v.addr + v.len <= sz[p]
          /\ i # j => v.addr + v.len <= w.addr \/ w.addr + w.len <= v.addr
  /\ ref = Cardinality(fd) + FoldSet(LAMBDA p, n : n + Cardinality(mappings(p)), 0, Proc)
  /\ \A p \in alive, a \in Va :
       mem[p][a] # NULL /\ a \notin pw[p] =>
         \E i \in mappings(p) : a \in Pages(vma[p][i]) /\ ~ vma[p][i].prot_w

\* What a program stores reaches a file only if it was opened for writing, and then only
\* through mappings that are shared: a file that is not writable is never changed.
ReadOnlyUnchanged == ~ writable => \A i \in DOMAIN disk : disk[i] = i

\* Pages of a mapping are read from the file in order (the rule in the comment of
\* mmap_handler()): two of them that hold pages of the file, which is not writable, hold
\* pages as far apart as they are.
PagesInOrder ==
  ~ writable =>
    \A p \in alive : \A i \in mappings(p) :
      LET v == vma[p][i]
          read == {a \in Pages(v) \cap Va : mem[p][a] \in 0 .. FLEN - 1}
      IN \A a, b \in read : mem[p][a] - mem[p][b] = a - b
=============================================================================
