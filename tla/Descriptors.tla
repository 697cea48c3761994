----------------------------- MODULE Descriptors -----------------------------
(***************************************************************************)
(* The file table, kernel/filesystem/file.c, and the descriptors of        *)
(* processes in kernel/sysfile.c, pipealloc(), fork() and exit().          *)
(*                                                                         *)
(* Descriptors belong to one process, the table and the reference counts   *)
(* in it are shared: a step is a section under ftable.lock, or what a      *)
(* process does to its own descriptors between two of them.  What a call   *)
(* has still to do after its decisions is a list of such steps (todo).     *)
(* Objects are what files stand for: an inode, and the two ends of a pipe; *)
(* their own behaviour is in Files.tla and Pipe.tla.                       *)
(***************************************************************************)
EXTENDS Integers, Sequences, SequencesExt, FiniteSets, FiniteSetsExt

CONSTANTS
  Proc,    \* process slots
  NFILE,   \* entries of ftable.file
  NOFILE,  \* descriptors of a process
  MAXIREF, \* bound: references to the inode
  NULL

File == 1 .. NFILE
Fd == 0 .. NOFILE - 1
Obj == {"inode", "read", "write"}  \* an inode, the ends of a pipe

VARIABLES
  ref,        \* f->ref
  type, obj,  \* f->type, and f->ip or f->pipe with f->writable
  objref,     \* references to an object: ip->ref, pi->readopen, pi->writeopen
  ofile, vma, \* p->ofile, and the file of p's mapping
  alive,      \* processes that are not UNUSED or ZOMBIE
  todo        \* what the call of a process still has to do

vars == <<ref, type, obj, objref, ofile, vma, alive, todo>>

-----------------------------------------------------------------------------
\* userinit(): one process without files.
Init ==
  /\ ref = [f \in File |-> 0]
  /\ type = [f \in File |-> "none"]
  /\ obj = [f \in File |-> NULL]
  /\ objref = [o \in Obj |-> 0]
  /\ ofile = [p \in Proc |-> [fd \in Fd |-> NULL]]
  /\ vma = [p \in Proc |-> NULL]
  /\ \E p \in Proc : alive = {p}
  /\ todo = [p \in Proc |-> <<>>]

user(p) == p \in alive /\ todo[p] = <<>>
then(p, ops) == todo' = [todo EXCEPT ![p] = ops]

\* filealloc(): the first free entry, NULL when there is none.
filealloc == IF \E f \in File : ref[f] = 0 THEN Min({f \in File : ref[f] = 0}) ELSE NULL

\* fdalloc(): the lowest descriptors that are free.
fdfree(p) == {fd \in Fd : ofile[p][fd] = NULL}
fdalloc(p, S) == IF fdfree(p) \ S = {} THEN NULL ELSE Min(fdfree(p) \ S)

\* fileclose() of files that are held, one after the other, and iput().
close(f) == <<[op |-> "close", f |-> f]>>
put(o) == <<[op |-> "put", o |-> o]>>
dup(f) == <<[op |-> "dup", f |-> f]>>
each(Op(_), fs) == FlattenSeq([i \in DOMAIN fs |-> IF fs[i] = NULL THEN <<>> ELSE Op(fs[i])])
closes(fs) == each(close, fs)

\* sys_open() with the inode in hand: an entry and a descriptor, then f->type.
\* If one of them is missing what was taken is given back.
sys_open(p) ==
  /\ user(p) /\ objref["inode"] < MAXIREF
  /\ objref' = [objref EXCEPT !["inode"] = @ + 1]
  /\ LET f == filealloc
         fd == fdalloc(p, {}) IN
     /\ ref' = IF f = NULL THEN ref ELSE [ref EXCEPT ![f] = 1]
     /\ IF f = NULL \/ fd = NULL
        THEN then(p, closes(<<f>>) \o put("inode")) /\ UNCHANGED <<type, obj, ofile>>
        ELSE /\ ofile' = [ofile EXCEPT ![p][fd] = f]
             /\ type' = [type EXCEPT ![f] = "inode"]
             /\ obj' = [obj EXCEPT ![f] = "inode"]
             /\ UNCHANGED todo
  /\ UNCHANGED <<vma, alive>>

\* sys_pipe() and pipealloc(): a first entry ...
sys_pipe(p) ==
  /\ user(p) /\ filealloc # NULL
  /\ ref' = [ref EXCEPT ![filealloc] = 1]
  /\ then(p, <<[op |-> "pipe", f |-> filealloc]>>)
  /\ UNCHANGED <<type, obj, objref, ofile, vma, alive>>

\* Mutant: when there is no second descriptor, the first one stays.
BugPipe(p, page, copied) ==
  /\ todo[p] # <<>> /\ Head(todo[p]).op = "pipe" /\ objref["read"] = 0 /\ objref["write"] = 0
  /\ LET rf == Head(todo[p]).f
         wf == filealloc
         fd0 == fdalloc(p, {})
         fd1 == fdalloc(p, {fd0}) IN
     /\ wf # NULL /\ fd0 # NULL /\ fd1 = NULL
     /\ ref' = [ref EXCEPT ![wf] = 1]
     /\ objref' = [objref EXCEPT !["read"] = 1, !["write"] = 1]
     /\ type' = [type EXCEPT ![rf] = "pipe", ![wf] = "pipe"]
     /\ obj' = [obj EXCEPT ![rf] = "read", ![wf] = "write"]
     /\ ofile' = [ofile EXCEPT ![p][fd0] = rf] /\ then(p, closes(<<rf, wf>>))
  /\ UNCHANGED <<vma, alive>>

\* ... and a second one, a page for the pipe, two descriptors, and copyout().  Each of
\* them can be missing.  Bound: one pipe at a time.
pipealloc(p, page, copied) ==
  /\ todo[p] # <<>> /\ Head(todo[p]).op = "pipe" /\ objref["read"] = 0 /\ objref["write"] = 0
  /\ LET rf == Head(todo[p]).f
         wf == filealloc
         fd0 == fdalloc(p, {})
         fd1 == IF fd0 = NULL THEN NULL ELSE fdalloc(p, {fd0}) IN
     /\ ref' = IF wf = NULL THEN ref ELSE [ref EXCEPT ![wf] = 1]
     /\ IF wf = NULL \/ ~ page
        THEN then(p, closes(<<rf, wf>>)) /\ UNCHANGED <<objref, type, obj, ofile>>
        ELSE /\ objref' = [objref EXCEPT !["read"] = 1, !["write"] = 1]
             /\ type' = [type EXCEPT ![rf] = "pipe", ![wf] = "pipe"]
             /\ obj' = [obj EXCEPT ![rf] = "read", ![wf] = "write"]
             /\ IF NULL \in {fd0, fd1} \/ ~ copied
                THEN then(p, closes(<<rf, wf>>)) /\ UNCHANGED ofile
                ELSE /\ ofile' = [ofile EXCEPT ![p][fd0] = rf, ![p][fd1] = wf]
                     /\ then(p, <<>>)
  /\ UNCHANGED <<vma, alive>>

\* sys_dup(): a descriptor for the file, then filedup().
sys_dup(p, fd) ==
  /\ user(p) /\ ofile[p][fd] # NULL /\ fdfree(p) # {}
  /\ ofile' = [ofile EXCEPT ![p][fdalloc(p, {})] = ofile[p][fd]]
  /\ then(p, dup(ofile[p][fd]))
  /\ UNCHANGED <<ref, type, obj, objref, vma, alive>>

sys_close(p, fd) ==
  /\ user(p) /\ ofile[p][fd] # NULL
  /\ ofile' = [ofile EXCEPT ![p][fd] = NULL]
  /\ then(p, close(ofile[p][fd]))
  /\ UNCHANGED <<ref, type, obj, objref, vma, alive>>

\* sys_mmap() and sys_munmap() of the whole mapping: a reference of its own.
sys_mmap(p, fd) ==
  /\ user(p) /\ ofile[p][fd] # NULL /\ vma[p] = NULL
  /\ type[ofile[p][fd]] = "inode"
  /\ vma' = [vma EXCEPT ![p] = ofile[p][fd]]
  /\ then(p, dup(ofile[p][fd]))
  /\ UNCHANGED <<ref, type, obj, objref, ofile, alive>>

sys_munmap(p) ==
  /\ user(p) /\ vma[p] # NULL
  /\ vma' = [vma EXCEPT ![p] = NULL]
  /\ then(p, close(vma[p]))
  /\ UNCHANGED <<ref, type, obj, objref, ofile, alive>>

\* The files of a process in the order in which fork() and exit() go through them.
files(p) == [fd \in 1 .. NOFILE |-> ofile[p][fd - 1]] \o <<vma[p]>>

\* Mutant: the child gets the mapping without a reference to its file.
BugFork(p, q) ==
  /\ user(p) /\ q \notin alive /\ todo[q] = <<>> /\ ofile[q] = [fd \in Fd |-> NULL]
  /\ ofile' = [ofile EXCEPT ![q] = ofile[p]]
  /\ vma' = [vma EXCEPT ![q] = vma[p]]
  /\ then(p, each(dup, SubSeq(files(p), 1, NOFILE)) \o <<[op |-> "start", q |-> q]>>)
  /\ UNCHANGED <<ref, type, obj, objref, alive>>

\* fork(): the child gets every file of the parent, and runs when all are counted.
fork(p, q) ==
  /\ user(p) /\ q \notin alive /\ todo[q] = <<>>
  /\ \A r \in Proc : [op |-> "start", q |-> q] \notin Range(todo[r])
  /\ ofile' = [ofile EXCEPT ![q] = ofile[p]]
  /\ vma' = [vma EXCEPT ![q] = vma[p]]
  /\ then(p, each(dup, files(p)) \o <<[op |-> "start", q |-> q]>>)
  /\ UNCHANGED <<ref, type, obj, objref, alive>>

fork_start(p) ==
  /\ todo[p] # <<>> /\ Head(todo[p]).op = "start"
  /\ alive' = alive \cup {Head(todo[p]).q}
  /\ then(p, Tail(todo[p]))
  /\ UNCHANGED <<ref, type, obj, objref, ofile, vma>>

\* exit(): fileclose() of every file.  Nobody else looks at the descriptors.
exit(p) ==
  /\ user(p)
  /\ ofile' = [ofile EXCEPT ![p] = [fd \in Fd |-> NULL]]
  /\ vma' = [vma EXCEPT ![p] = NULL]
  /\ then(p, closes(files(p)))
  /\ alive' = alive \ {p}
  /\ UNCHANGED <<ref, type, obj, objref>>

-----------------------------------------------------------------------------
\* filedup().
filedup(p) ==
  /\ todo[p] # <<>> /\ Head(todo[p]).op = "dup"
  /\ LET f == Head(todo[p]).f IN ref' = [ref EXCEPT ![f] = @ + 1]
  /\ then(p, Tail(todo[p]))
  /\ UNCHANGED <<type, obj, objref, ofile, vma, alive>>

\* Mutant: the type of a free entry is that of the file it was.
BugClose(p) ==
  /\ todo[p] # <<>> /\ Head(todo[p]).op = "close"
  /\ LET f == Head(todo[p]).f IN
     /\ ref' = [ref EXCEPT ![f] = @ - 1]
     /\ then(p, IF ref[f] > 1 \/ type[f] = "none" THEN Tail(todo[p])
                ELSE put(obj[f]) \o Tail(todo[p]))
  /\ UNCHANGED <<type, obj, objref, ofile, vma, alive>>

\* fileclose(): count down; the last reference frees the entry, and then, without
\* the lock, gives up the object the entry stood for.  The pointer that a free entry
\* keeps is written before it is read again, and is NULL here.
fileclose(p) ==
  /\ todo[p] # <<>> /\ Head(todo[p]).op = "close"
  /\ LET f == Head(todo[p]).f IN
     /\ ref' = [ref EXCEPT ![f] = @ - 1]
     /\ type' = IF ref[f] > 1 THEN type ELSE [type EXCEPT ![f] = "none"]
     /\ obj' = IF ref[f] > 1 THEN obj ELSE [obj EXCEPT ![f] = NULL]
     /\ then(p, IF ref[f] > 1 \/ type[f] = "none" THEN Tail(todo[p])
                ELSE put(obj[f]) \o Tail(todo[p]))
  /\ UNCHANGED <<objref, ofile, vma, alive>>

\* iput() or pipeclose() of one reference to an object.
objput(p) ==
  /\ todo[p] # <<>> /\ Head(todo[p]).op = "put"
  /\ objref' = [objref EXCEPT ![Head(todo[p]).o] = @ - 1]
  /\ then(p, Tail(todo[p]))
  /\ UNCHANGED <<ref, type, obj, ofile, vma, alive>>

Next ==
  \E p \in Proc :
    \/ sys_open(p) \/ sys_pipe(p) \/ sys_munmap(p) \/ exit(p)
    \/ \E fd \in Fd : sys_dup(p, fd) \/ sys_close(p, fd) \/ sys_mmap(p, fd)
    \/ \E page, copied \in BOOLEAN : pipealloc(p, page, copied)
    \/ \E q \in Proc : fork(p, q)
    \/ fork_start(p) \/ filedup(p) \/ fileclose(p) \/ objput(p)

Spec == Init /\ [][Next]_vars

-----------------------------------------------------------------------------
(* Properties.                                                             *)

\* Operations on x that are pending, in all processes.
pending(op, x) ==
  FoldSet(LAMBDA p, n : n + Len(SelectSeq(todo[p], LAMBDA o : o = [op |-> op] @@ x)), 0, Proc)

\* f->ref is the number of descriptors and mappings that refer to the file, plus the
\* references a call holds and less those it has yet to take: no file is closed while
\* a process has it open, and none stays open for nobody.
FileRefExact ==
  /\ \A f \in File :
       ref[f] = Cardinality({<<p, fd>> \in Proc \X Fd : ofile[p][fd] = f})
                + Cardinality({p \in Proc : vma[p] = f})
                + pending("close", [f |-> f]) + pending("pipe", [f |-> f]) - pending("dup", [f |-> f])
  /\ \A p \in alive : \A f \in Range(files(p)) \ {NULL} : ref[f] > 0 /\ type[f] # "none"

\* The references to an inode or to an end of a pipe are those of the open files that
\* stand for it, and those that fileclose() and open() are about to give back, although
\* entries of the table are reused before the object of the old file is given up.
ObjectRefExact ==
  \A o \in Obj :
    objref[o] = Cardinality({f \in File : ref[f] > 0 /\ type[f] # "none" /\ obj[f] = o})
                + pending("put", [o |-> o])
=============================================================================
