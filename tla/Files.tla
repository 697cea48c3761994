------------------------------- MODULE Files -------------------------------
(***************************************************************************)
(* Inodes, directories and path names: the inode cache and directories of  *)
(* kernel/filesystem/fs.c and the system calls on names of                 *)
(* kernel/sysfile.c.                                                       *)
(*                                                                         *)
(* An inode has a copy on disk and one in the cache, a reference count, a  *)
(* valid bit and a sleep lock; of its contents the model has the entries   *)
(* of a directory.  A step is what happens under one lock: with an inode   *)
(* locked, from ilock() to iunlock() where no other lock is waited for, or *)
(* under icache.lock.  A transaction of the log (Log.tla) is atomic to a   *)
(* crash, not to other processes.                                          *)
(*                                                                         *)
(* Inodes that a system call still has to put are in q[p]; iput() works on *)
(* the first of them before anything else of the process goes on.          *)
(***************************************************************************)
EXTENDS Integers, Sequences, FiniteSets, TLC

CONSTANTS
  Proc, Name,
  Path,      \* path names from the root, sequences of names
  NINODES,   \* sb.ninodes
  MAXCALLS,  \* bound: system calls
  NULL

Inum == 1 .. NINODES - 1   \* inode 0 is not used
ROOTINO == 1

VARIABLES
  disk, mem,       \* type and nlink of an inode, on disk and in the cache
  ent,             \* entries of a directory: 0, or the number of an inode
  ref, valid, lock,
  fd,              \* inode of the process's open file
  pc, op, path,    \* where a process is, its system call, what is left of the path
  new,             \* link(): the second path
  dp, ip,          \* its inodes dp and ip; namex() has its ip in dp
  q, freeing,      \* inodes to put; where iput() is in freeing the first of them
  calls,           \* system calls so far
  lost,            \* entries that were freed together with their directory
  panicked

files == <<disk, mem, ent, valid, lock>>
regs == <<pc, op, path, new, dp, ip>>
vars == <<files, ref, fd, regs, q, freeing, calls, lost, panicked>>

-----------------------------------------------------------------------------
Free == [type |-> "none", nlink |-> 0]

\* The file system that mkfs writes, with an empty root directory.
Init ==
  /\ disk = [i \in Inum |-> IF i = ROOTINO THEN [type |-> "dir", nlink |-> 1] ELSE Free]
  /\ mem = [i \in Inum |-> Free]
  /\ ent = [i \in Inum |-> [n \in Name |-> 0]]
  /\ ref = [i \in Inum |-> 0] /\ valid = [i \in Inum |-> FALSE] /\ lock = [i \in Inum |-> NULL]
  /\ fd = [p \in Proc |-> NULL]
  /\ pc = [p \in Proc |-> "user"] /\ op = [p \in Proc |-> NULL]
  /\ path = [p \in Proc |-> <<>>] /\ new = [p \in Proc |-> <<>>]
  /\ dp = [p \in Proc |-> NULL] /\ ip = [p \in Proc |-> NULL]
  /\ q = [p \in Proc |-> <<>>] /\ freeing = [p \in Proc |-> NULL]
  /\ lost = [i \in Inum |-> 0] /\ calls = 0
  /\ panicked = NULL

\* The process is at l, and has put everything it had to put.
at(p, l) == pc[p] = l /\ q[p] = <<>>

\* ilock(i): read the inode if the cache has no valid copy.
inode(i) == IF valid[i] THEN mem[i] ELSE disk[i]
ilock(i) == lock[i] = NULL /\ inode(i).type # "none"
load(i) == mem' = [mem EXCEPT ![i] = inode(i)] /\ valid' = [valid EXCEPT ![i] = TRUE]

\* iupdate() of the inodes in DOMAIN u, with their new contents u.
iupdate(u) ==
  /\ mem' = [i \in Inum |-> IF i \in DOMAIN u THEN u[i] ELSE mem[i]]
  /\ disk' = [i \in Inum |-> IF i \in DOMAIN u THEN u[i] ELSE disk[i]]
  /\ valid' = [i \in Inum |-> i \in DOMAIN u \/ valid[i]]
linked(i, d) == [inode(i) EXCEPT !.nlink = @ + d]

\* Registers of p after a step: it goes on at l, once it has put s.
go(p, l, s) ==
  /\ pc' = [pc EXCEPT ![p] = l]
  /\ q' = [q EXCEPT ![p] = s]

\* The system call returns once s has been put.
return(p, s) ==
  /\ go(p, "user", s)
  /\ op' = [op EXCEPT ![p] = NULL] /\ path' = [path EXCEPT ![p] = <<>>]
  /\ new' = [new EXCEPT ![p] = <<>>]
  /\ dp' = [dp EXCEPT ![p] = NULL] /\ ip' = [ip EXCEPT ![p] = NULL]

-----------------------------------------------------------------------------
(* iput()                                                                  *)

\* Forget the reference: an entry of the cache without one has no contents.
drop(p, i) ==
  /\ ref' = [ref EXCEPT ![i] = @ - 1]
  /\ q' = [q EXCEPT ![p] = Tail(@)]
  /\ IF ref[i] = 1 THEN mem' = [mem EXCEPT ![i] = Free] /\ valid' = [valid EXCEPT ![i] = FALSE]
     ELSE UNCHANGED <<mem, valid>>

\* Mutant: an inode without links is freed though others refer to it.
BugIput(p) ==
  /\ q[p] # <<>> /\ freeing[p] = NULL /\ lock[Head(q[p])] # p
  /\ LET i == Head(q[p]) IN
     IF valid[i] /\ mem[i].nlink = 0
     THEN /\ lock[i] = NULL
          /\ lock' = [lock EXCEPT ![i] = p] /\ freeing' = [freeing EXCEPT ![p] = "trunc"]
          /\ UNCHANGED <<mem, valid, ref, q>>
     ELSE drop(p, i) /\ UNCHANGED <<lock, freeing>>
  /\ UNCHANGED <<disk, ent, fd, regs, calls, lost, panicked>>

\* Under icache.lock: the last reference to an inode without links frees it.
\* acquiresleep() must not block, since a process must not sleep with a spinlock.
iput(p) ==
  /\ q[p] # <<>> /\ freeing[p] = NULL /\ lock[Head(q[p])] # p
  /\ LET i == Head(q[p]) IN
     IF ref[i] = 1 /\ valid[i] /\ mem[i].nlink = 0
     THEN IF lock[i] = NULL
          THEN /\ lock' = [lock EXCEPT ![i] = p] /\ freeing' = [freeing EXCEPT ![p] = "trunc"]
               /\ UNCHANGED <<mem, valid, ref, q, panicked>>
          ELSE panicked' = "sched locks" /\ UNCHANGED <<lock, freeing, mem, valid, ref, q>>
     ELSE drop(p, i) /\ UNCHANGED <<lock, freeing, panicked>>
  /\ UNCHANGED <<disk, ent, fd, regs, calls, lost>>

\* itrunc(), type 0, iupdate(): the inode is free on disk.
iput_free(p) ==
  /\ freeing[p] = "trunc"
  /\ LET i == Head(q[p]) IN
     /\ iupdate(i :> Free)
     /\ ent' = [ent EXCEPT ![i] = [n \in Name |-> 0]]
     /\ lost' = [k \in Inum |-> IF k = i THEN 0 ELSE
                   lost[k] + Cardinality({n \in Name : ent[i][n] = k})]
  /\ freeing' = [freeing EXCEPT ![p] = "valid"]
  /\ UNCHANGED <<lock, ref, fd, regs, q, calls, panicked>>

\* Mutant: the copy in the cache stays valid.
BugValid(p) ==
  /\ freeing[p] = "valid"
  /\ lock' = [lock EXCEPT ![Head(q[p])] = NULL]
  /\ freeing' = [freeing EXCEPT ![p] = "ref"]
  /\ UNCHANGED <<disk, mem, ent, valid, ref, fd, regs, q, calls, lost, panicked>>

\* valid = 0, releasesleep()
iput_unlock(p) ==
  /\ freeing[p] = "valid"
  /\ valid' = [valid EXCEPT ![Head(q[p])] = FALSE]
  /\ lock' = [lock EXCEPT ![Head(q[p])] = NULL]
  /\ freeing' = [freeing EXCEPT ![p] = "ref"]
  /\ UNCHANGED <<disk, mem, ent, ref, fd, regs, q, calls, lost, panicked>>

\* ref--
iput_ref(p) ==
  /\ freeing[p] = "ref"
  /\ drop(p, Head(q[p]))
  /\ freeing' = [freeing EXCEPT ![p] = NULL]
  /\ UNCHANGED <<disk, ent, lock, fd, regs, calls, lost, panicked>>

\* iunlock() of iunlockput() where the lock was kept until now.
iunlock(p) ==
  /\ q[p] # <<>> /\ freeing[p] = NULL /\ lock[Head(q[p])] = p
  /\ lock' = [lock EXCEPT ![Head(q[p])] = NULL]
  /\ UNCHANGED <<disk, mem, ent, valid, ref, fd, regs, q, freeing, calls, lost, panicked>>

-----------------------------------------------------------------------------
(* namex()                                                                 *)

iget(i) == ref' = [ref EXCEPT ![i] = @ + 1]

\* A system call on the path s starts at the root; link() gets a second path.
call(p, o, s, s2) ==
  /\ at(p, "user") /\ (o \in {"open", "creat"} => fd[p] = NULL)
  /\ calls < MAXCALLS /\ calls' = calls + 1
  /\ iget(ROOTINO)
  /\ op' = [op EXCEPT ![p] = o] /\ path' = [path EXCEPT ![p] = s] /\ new' = [new EXCEPT ![p] = s2]
  /\ dp' = [dp EXCEPT ![p] = ROOTINO]
  /\ pc' = [pc EXCEPT ![p] = "walk"]
  /\ UNCHANGED <<files, fd, ip, q, freeing, lost, panicked>>

nameiparent(p) == op[p] \in {"creat", "mkdir", "unlink", "link2"}

\* One element of the path, with the directory locked.
namex(p) ==
  /\ at(p, "walk") /\ ilock(dp[p]) /\ load(dp[p])
  /\ LET i == dp[p]
         next == ent[i][Head(path[p])]
         last == Len(path[p]) = 1
     IN \/ /\ inode(i).type = "dir" /\ nameiparent(p) /\ last
           /\ go(p, "parent", <<>>)
           /\ UNCHANGED <<ref, op, path, new, dp, ip>>
        \/ /\ inode(i).type = "dir" /\ ~ (nameiparent(p) /\ last) /\ next # 0
           /\ iget(next)
           /\ go(p, IF last THEN "found" ELSE "walk", <<i>>)
           /\ dp' = [dp EXCEPT ![p] = next] /\ path' = [path EXCEPT ![p] = Tail(@)]
           /\ UNCHANGED <<op, new, ip>>
        \/ /\ inode(i).type # "dir" \/ (~ (nameiparent(p) /\ last) /\ next = 0)
           /\ IF op[p] = "link2"
              THEN go(p, "bad", <<i>>) /\ dp' = [dp EXCEPT ![p] = NULL] /\ UNCHANGED <<op, path, new, ip>>
              ELSE return(p, <<i>>)
           /\ UNCHANGED ref
  /\ UNCHANGED <<disk, ent, lock, fd, freeing, calls, lost, panicked>>

\* The inodes, one or none, that p calls ilock() for.
wants(p) ==
  IF q[p] # <<>> THEN {}
  ELSE IF pc[p] \in {"walk", "found", "parent"} THEN {dp[p]}
  ELSE IF pc[p] \in {"exists", "new", "unlink", "bad"} THEN {ip[p]}
  ELSE {}

\* ilock() finds an inode that is free on disk.
ilock_panic(p) ==
  /\ \E i \in wants(p) : lock[i] = NULL /\ inode(i).type = "none"
  /\ panicked' = "ilock: no type"
  /\ UNCHANGED <<files, ref, fd, regs, q, freeing, calls, lost>>

-----------------------------------------------------------------------------
(* open(), close(), mkdir()                                                *)

\* The end of open() with i locked: the file is open, or there was no room for it,
\* or the mode was wrong.
opened(p, i) ==
  \/ fd' = [fd EXCEPT ![p] = i] /\ return(p, <<>>)
  \/ UNCHANGED fd /\ return(p, <<i>>)

sys_open(p) ==
  /\ at(p, "found") /\ op[p] = "open" /\ ilock(dp[p]) /\ load(dp[p])
  /\ opened(p, dp[p])
  /\ UNCHANGED <<disk, ent, lock, ref, freeing, calls, lost, panicked>>

\* sys_close() and fileclose(), also in exit().
sys_close(p) ==
  /\ at(p, "user") /\ fd[p] # NULL
  /\ q' = [q EXCEPT ![p] = <<fd[p]>>] /\ fd' = [fd EXCEPT ![p] = NULL]
  /\ UNCHANGED <<files, ref, regs, freeing, calls, lost, panicked>>

\* create(), with dp locked: the name exists already, or ialloc() takes the first
\* free inode and dp stays locked.
create(p) ==
  /\ at(p, "parent") /\ op[p] \in {"creat", "mkdir"} /\ ilock(dp[p]) /\ load(dp[p])
  /\ LET i == ent[dp[p]][path[p][1]]
         unused == {k \in Inum : disk[k].type = "none"}
     IN \/ /\ i # 0 /\ iget(i)
           /\ ip' = [ip EXCEPT ![p] = i] /\ dp' = [dp EXCEPT ![p] = NULL]
           /\ go(p, "exists", <<dp[p]>>)
           /\ UNCHANGED <<disk, lock, lost, panicked>>
        \/ /\ i = 0
           /\ \E k \in unused :
                /\ \A j \in unused : k <= j
                /\ disk' = [disk EXCEPT ![k] = [type |-> IF op[p] = "mkdir" THEN "dir" ELSE "file", nlink |-> 0]]
                /\ iget(k) /\ ip' = [ip EXCEPT ![p] = k] /\ lost' = [lost EXCEPT ![k] = 0]
           /\ lock' = [lock EXCEPT ![dp[p]] = p]
           /\ go(p, "new", <<>>)
           /\ UNCHANGED <<dp, panicked>>
        \/ /\ i = 0 /\ unused = {}
           /\ panicked' = "ialloc: no inodes"
           /\ UNCHANGED <<disk, lock, ref, pc, q, dp, ip, lost>>
  /\ UNCHANGED <<ent, fd, op, path, new, freeing, calls>>

\* Mutant: the inode that was found is not put.
BugExists(p) ==
  /\ at(p, "exists") /\ ilock(ip[p]) /\ load(ip[p])
  /\ UNCHANGED fd /\ return(p, <<>>)
  /\ UNCHANGED <<disk, ent, lock, ref, freeing, calls, lost, panicked>>

\* create(), the name exists: open() may have it if it is a file.
create_exists(p) ==
  /\ at(p, "exists") /\ ilock(ip[p]) /\ load(ip[p])
  /\ IF op[p] = "creat" /\ inode(ip[p]).type = "file" THEN opened(p, ip[p])
     ELSE UNCHANGED fd /\ return(p, <<ip[p]>>)
  /\ UNCHANGED <<disk, ent, lock, ref, freeing, calls, lost, panicked>>

\* create(): both inodes are locked; the new one is linked, and dp unlocked and put.
create_new(p) ==
  /\ at(p, "new") /\ ilock(ip[p])
  /\ LET i == ip[p]
         file == [inode(i) EXCEPT !.nlink = 1]
     IN /\ iupdate(IF file.type = "dir" THEN i :> file @@ dp[p] :> linked(dp[p], 1) ELSE i :> file)
        /\ ent' = [ent EXCEPT ![dp[p]][path[p][1]] = i]
        /\ lock' = [lock EXCEPT ![dp[p]] = NULL, ![i] = p]
  /\ go(p, "created", <<dp[p]>>) /\ dp' = [dp EXCEPT ![p] = NULL]
  /\ UNCHANGED <<ref, fd, op, path, new, ip, freeing, calls, lost, panicked>>

\* Mutant: the new file is not unlocked.
BugCreated(p) ==
  /\ at(p, "created")
  /\ IF op[p] = "creat" THEN opened(p, ip[p]) ELSE UNCHANGED fd /\ return(p, <<ip[p]>>)
  /\ UNCHANGED <<disk, mem, ent, valid, lock, ref, freeing, calls, lost, panicked>>

\* The end of open() or mkdir() with the new inode.
created(p) ==
  /\ at(p, "created")
  /\ lock' = [lock EXCEPT ![ip[p]] = NULL]
  /\ IF op[p] = "creat" THEN opened(p, ip[p]) ELSE UNCHANGED fd /\ return(p, <<ip[p]>>)
  /\ UNCHANGED <<disk, mem, ent, valid, ref, freeing, calls, lost, panicked>>

-----------------------------------------------------------------------------
(* unlink()                                                                *)

\* With dp locked, the entry is looked up; dp stays locked.
sys_unlink(p) ==
  /\ at(p, "parent") /\ op[p] = "unlink" /\ ilock(dp[p]) /\ load(dp[p])
  /\ LET i == ent[dp[p]][path[p][1]] IN
     IF i = 0
     THEN return(p, <<dp[p]>>) /\ UNCHANGED <<lock, ref>>
     ELSE /\ iget(i)
          /\ lock' = [lock EXCEPT ![dp[p]] = p]
          /\ ip' = [ip EXCEPT ![p] = i]
          /\ go(p, "unlink", <<>>)
          /\ UNCHANGED <<op, path, new, dp>>
  /\ UNCHANGED <<disk, ent, fd, freeing, calls, lost, panicked>>

empty(i) == \A n \in Name : ent[i][n] = 0

\* With both locked: the entry is cleared, and dp unlocked and put; or the inode is
\* a directory that is not empty.
unlink_entry(p) ==
  /\ at(p, "unlink") /\ ilock(ip[p])
  /\ LET i == ip[p]
         dir == inode(i).type = "dir"
     IN \/ /\ inode(i).nlink < 1
           /\ panicked' = "unlink: nlink < 1"
           /\ UNCHANGED <<files, regs, q>>
        \/ /\ inode(i).nlink >= 1 /\ dir /\ ~ empty(i)
           /\ load(i) /\ return(p, <<i, dp[p]>>)
           /\ UNCHANGED <<disk, ent, lock, panicked>>
        \/ /\ inode(i).nlink >= 1 /\ (dir => empty(i))
           /\ iupdate(IF dir THEN i :> inode(i) @@ dp[p] :> linked(dp[p], -1) ELSE i :> inode(i))
           /\ ent' = [ent EXCEPT ![dp[p]][path[p][1]] = 0]
           /\ lock' = [lock EXCEPT ![dp[p]] = NULL, ![i] = p]
           /\ go(p, "unlinked", <<dp[p]>>) /\ dp' = [dp EXCEPT ![p] = NULL]
           /\ UNCHANGED <<op, path, new, ip, panicked>>
  /\ UNCHANGED <<ref, fd, freeing, calls, lost>>

\* The inode has one link less, and is unlocked and put.
unlink_inode(p) ==
  /\ at(p, "unlinked")
  /\ iupdate(ip[p] :> linked(ip[p], -1))
  /\ lock' = [lock EXCEPT ![ip[p]] = NULL]
  /\ return(p, <<ip[p]>>)
  /\ UNCHANGED <<ent, ref, fd, freeing, calls, lost, panicked>>

-----------------------------------------------------------------------------
(* link()                                                                  *)

\* The inode was found: it has one link more, or is a directory; on to the new name.
sys_link(p) ==
  /\ at(p, "found") /\ op[p] = "link" /\ ilock(dp[p])
  /\ IF inode(dp[p]).type = "dir"
     THEN load(dp[p]) /\ return(p, <<dp[p]>>) /\ UNCHANGED <<disk, ref>>
     ELSE /\ iupdate(dp[p] :> linked(dp[p], 1))
          /\ iget(ROOTINO)
          /\ ip' = [ip EXCEPT ![p] = dp[p]] /\ dp' = [dp EXCEPT ![p] = ROOTINO]
          /\ op' = [op EXCEPT ![p] = "link2"]
          /\ path' = [path EXCEPT ![p] = new[p]] /\ new' = [new EXCEPT ![p] = <<>>]
          /\ go(p, "walk", <<>>)
  /\ UNCHANGED <<ent, lock, fd, freeing, calls, lost, panicked>>

\* dirlink() with dp locked: if the name exists, its inode is put with dp locked.
dirlink(p) ==
  /\ at(p, "parent") /\ op[p] = "link2" /\ ilock(dp[p]) /\ load(dp[p])
  /\ LET i == ent[dp[p]][path[p][1]] IN
     IF i # 0
     THEN /\ iget(i)
          /\ lock' = [lock EXCEPT ![dp[p]] = p]
          /\ go(p, "bad", <<i, dp[p]>>) /\ dp' = [dp EXCEPT ![p] = NULL]
          /\ UNCHANGED <<ent, op, path, new, ip>>
     ELSE /\ ent' = [ent EXCEPT ![dp[p]][path[p][1]] = ip[p]]
          /\ return(p, <<dp[p], ip[p]>>)
          /\ UNCHANGED <<lock, ref>>
  /\ UNCHANGED <<disk, fd, freeing, calls, lost, panicked>>

\* Mutant: the link count is not put back.
BugBad(p) ==
  /\ at(p, "bad") /\ ilock(ip[p]) /\ load(ip[p])
  /\ return(p, <<ip[p]>>)
  /\ UNCHANGED <<disk, ent, lock, ref, fd, freeing, calls, lost, panicked>>

\* bad: the link is taken back.
link_bad(p) ==
  /\ at(p, "bad") /\ ilock(ip[p])
  /\ iupdate(ip[p] :> linked(ip[p], -1))
  /\ return(p, <<ip[p]>>)
  /\ UNCHANGED <<ent, lock, ref, fd, freeing, calls, lost, panicked>>

-----------------------------------------------------------------------------
Step(p) ==
  \/ iput(p) \/ iput_free(p) \/ iput_unlock(p) \/ iput_ref(p) \/ iunlock(p)
  \/ \E s \in Path : \/ \E o \in {"open", "creat", "mkdir", "unlink"} : call(p, o, s, <<>>)
                     \/ \E s2 \in Path : call(p, "link", s, s2)
  \/ namex(p) \/ ilock_panic(p)
  \/ sys_open(p) \/ sys_close(p) \/ create(p) \/ create_exists(p) \/ create_new(p) \/ created(p)
  \/ sys_unlink(p) \/ unlink_entry(p) \/ unlink_inode(p)
  \/ sys_link(p) \/ dirlink(p) \/ link_bad(p)

Next == panicked = NULL /\ \E p \in Proc : Step(p)

Spec == Init /\ [][Next]_vars

-----------------------------------------------------------------------------
(* Properties.                                                             *)

Inode == [type : {"none", "file", "dir"}, nlink : Nat]

\* The reference count of an inode is the number of open files and of variables of
\* system calls that refer to it, whatever errors and races there were.
RefExact ==
  \A i \in Inum :
    ref[i] = Cardinality({p \in Proc : fd[p] = i}) + Cardinality({p \in Proc : dp[p] = i})
             + Cardinality({p \in Proc : ip[p] = i})
             + Cardinality({<<p, k>> \in Proc \X (1 .. 2) : k <= Len(q[p]) /\ q[p][k] = i})

\* The link count on disk is the number of entries for the inode and, for a
\* directory, of its subdirectories.  A system call that is between the two updates
\* counts for one, and entries that were freed with their directory are lost.
Midway(i) ==
  Cardinality({p \in Proc : ip[p] = i /\ (pc[p] = "unlinked" \/ pc[p] = "bad" \/ op[p] = "link2")})
NlinkExact ==
  \A i \in Inum :
    disk[i].nlink =
      Cardinality({<<d, n>> \in Inum \X Name : ent[d][n] = i})
      + Cardinality({n \in Name : ent[i][n] # 0 /\ disk[ent[i][n]].type = "dir"})
      + Midway(i) + lost[i] + (IF i = ROOTINO THEN 1 ELSE 0)

\* Nobody ever reaches an inode that is free: there is no panic "ilock: no type" or
\* "unlink: nlink < 1", and iput() never has to wait for the lock of an inode to which
\* it has the only reference ("this acquiresleep() won't block (or deadlock)").
NeverFreedInUse == panicked \in {NULL, "ialloc: no inodes"}

\* The cache agrees with the disk whenever nobody has the inode locked, though
\* inodes are freed and allocated again behind its back.
CacheCoherent == \A i \in Inum : valid[i] /\ lock[i] = NULL => mem[i] = disk[i]

\* Locks are always released: the holder of an inode's lock is in a system call, and
\* system calls that wait for inodes do not all wait for each other.
InCall(p) == pc[p] # "user" \/ q[p] # <<>>
Blocked(p) == \E i \in wants(p) : lock[i] # NULL
LocksMove ==
  /\ \A i \in Inum : lock[i] # NULL => InCall(lock[i])
  /\ (\E p \in Proc : InCall(p)) => \E p \in Proc : InCall(p) /\ ~ Blocked(p)
=============================================================================
