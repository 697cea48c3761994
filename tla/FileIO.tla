------------------------------- MODULE FileIO -------------------------------
(***************************************************************************)
(* Reading and writing through one struct file that processes share after  *)
(* a fork(): fileread() and filewrite() of kernel/filesystem/file.c,       *)
(* readi() and writei() of kernel/filesystem/fs.c, and sys_chmod().        *)
(*                                                                         *)
(* filewrite() splits a call into transactions.  Each of them has the      *)
(* inode locked from the check of its mode to the change of f->off, so it  *)
(* is one step; other calls come between two of them.  Contents of files   *)
(* are left out; the model has the bytes that each call has dealt with.    *)
(***************************************************************************)
EXTENDS Integers, Sequences, SequencesExt, FiniteSets, FiniteSetsExt

CONSTANTS
  Proc,
  MAXOPBLOCKS, BSIZE, NDIRECT, NADDR_PER_BLOCK,
  NBITMAP,   \* blocks of the bitmap
  Count,     \* bound: bytes of a call
  Size,      \* bound: bytes of the file at first
  NULL

Tree == INSTANCE Blocks WITH Inode <- {}, NBLOCKS <- 0, MAXTRUNC <- 0, bitmap <- {}, addrs <- <<>>,
          data <- <<>>, size <- <<>>, pc <- <<>>, pos <- <<>>, truncs <- 0, panicked <- NULL

\* Mutant: there is no slop for writes that are not aligned.
BugMax == ((MAXOPBLOCKS - 1 - 1) \div 2) * BSIZE

\* The bytes of one transaction.
max == ((MAXOPBLOCKS - 1 - 1 - 2) \div 2) * BSIZE

VARIABLES
  off,     \* f->off
  size,    \* ip->size
  mode,    \* ip->mode allows writing
  nblk,    \* blocks of the file that bmap() has allocated
  call,    \* filewrite(): bytes to write, and i; or NULL
  mine,    \* bytes of the file that the call has dealt with
  fault    \* writei() has failed to copy

vars == <<off, size, mode, nblk, call, mine, fault>>

Init ==
  /\ off = 0 /\ size \in Size /\ mode = TRUE /\ nblk = (size + BSIZE - 1) \div BSIZE
  /\ call = [p \in Proc |-> NULL] /\ mine = [p \in Proc |-> {}]
  /\ fault = FALSE

-----------------------------------------------------------------------------
\* Where the loops of readi() and writei() can end when they move n bytes: a copy fails at
\* the start, or at the start of a block.
stops(n) == {t \in 0 .. n - 1 : t = 0 \/ (off + t) % BSIZE = 0}

\* The blocks bmap() goes through for block n of a file, and those for the blocks below n.
path(n) == {SubSeq(Tree!slot(n), 1, k) : k \in 1 .. Len(Tree!slot(n))}
tree(n) == UNION {path(b) : b \in 0 .. n - 1}

\* The new blocks when writei() copies n bytes to off.
allocated(n) == tree((off + n - 1) \div BSIZE + 1) \ tree(nblk)

\* Blocks that it logs then, those of the bitmap aside: the data, the inode, every new block
\* and the block that points to it.
transaction(n) ==
  LET new == allocated(n)
      above == {Front(s) : s \in {x \in new : Len(x) > 1}}
      data == {Tree!slot(b) : b \in off \div BSIZE .. (off + n - 1) \div BSIZE}
  IN Cardinality(data \cup new \cup above) + 1

-----------------------------------------------------------------------------
filewrite(p, n) ==
  /\ call[p] = NULL
  /\ call' = [call EXCEPT ![p] = [n |-> n, i |-> 0]]
  /\ UNCHANGED <<off, size, mode, nblk, mine, fault>>

return(p) == call' = [call EXCEPT ![p] = NULL] /\ mine' = [mine EXCEPT ![p] = {}]

\* Mutant: f->off goes forward by the bytes of the call.
BugOffset(p) ==
  /\ call[p] # NULL /\ mode /\ off <= size
  /\ LET n1 == Min({call[p].n - call[p].i, max}) IN
     /\ size' = Max({size, off + n1}) /\ off' = off + call[p].n
     /\ IF call[p].i + n1 = call[p].n THEN return(p)
        ELSE /\ call' = [call EXCEPT ![p].i = @ + n1]
             /\ mine' = [mine EXCEPT ![p] = @ \cup (off .. off + n1 - 1)]
     /\ nblk' = (size' + BSIZE - 1) \div BSIZE
  /\ UNCHANGED <<mode, fault>>

\* filewrite(): the next transaction.  It fails when chmod() has taken the permission away,
\* when f->off is beyond the end, and when the file would be too large.  When the copy fails,
\* writei() returns as if it had not, and f->off goes beyond the end.
write_chunk(p) ==
  /\ call[p] # NULL
  /\ LET n1 == Min({call[p].n - call[p].i, max}) IN
     IF ~ mode \/ off > size \/ off + n1 > Tree!MAXFILE * BSIZE
     THEN return(p) /\ UNCHANGED <<off, size, nblk, fault>>
     ELSE \E tot \in stops(n1) \cup {n1} :
       /\ size' = Max({size, off + tot})
       /\ off' = off + n1
       /\ nblk' = Max({nblk, (off + Min({tot, n1 - 1})) \div BSIZE + 1})
       /\ fault' = (fault \/ tot < n1)
       /\ IF call[p].i + n1 = call[p].n THEN return(p)
          ELSE /\ call' = [call EXCEPT ![p].i = @ + n1]
               /\ mine' = [mine EXCEPT ![p] = @ \cup (off .. off + n1 - 1)]
  /\ UNCHANGED mode

\* fileread() of n bytes, the whole call.  Without the permission to read it does nothing.
fileread(p, n) ==
  /\ call[p] = NULL /\ off <= size
  /\ LET m == Min({n, size - off}) IN \E tot \in stops(m) \cup {m} : off' = off + tot
  /\ UNCHANGED <<size, mode, nblk, call, mine, fault>>

\* sys_chmod(): one section of the inode's lock.  (It never gives its reference to the inode
\* back; references are not in this module.)
sys_chmod(m) ==
  /\ mode' = m
  /\ UNCHANGED <<off, size, nblk, call, mine, fault>>

Next ==
  \/ \E p \in Proc, n \in Count : filewrite(p, n) \/ fileread(p, n)
  \/ \E p \in Proc : write_chunk(p)
  \/ \E m \in BOOLEAN : sys_chmod(m)

Spec == Init /\ [][Next]_vars

-----------------------------------------------------------------------------
(* Properties.                                                             *)

\* Processes that write through the same struct file do not overwrite each other: while
\* calls go on, the bytes of each are its own, as many as it has written, all of them
\* behind f->off; they are in the file, and the file has the blocks for them, unless a
\* copy has failed.
WritesKept ==
  /\ \A p \in Proc : call[p] # NULL =>
       /\ Cardinality(mine[p]) = call[p].i /\ mine[p] \subseteq 0 .. off - 1
       /\ \A q \in Proc \ {p} : mine[p] \cap mine[q] = {}
       /\ ~ fault => mine[p] \subseteq 0 .. size - 1
  /\ ~ fault => off <= size
  /\ size <= nblk * BSIZE

\* A transaction of filewrite() logs no more blocks than begin_op() has reserved for it,
\* wherever f->off is (the comment on max), as long as it allocates from one or two blocks of
\* the bitmap.  From three, which a disk that is nearly full can make it do, it does not fit.
TransactionFits ==
  off <= size => \A n \in 1 .. Min({max, Tree!MAXFILE * BSIZE - off}) :
    LET new == Cardinality(allocated(n))
        other == transaction(n)
    IN  \A k \in 0 .. Min({NBITMAP, new}) : other + k <= MAXOPBLOCKS \/ k > 2
=============================================================================
