-------------------------------- MODULE Mkfs --------------------------------
(***************************************************************************)
(* mkfs/mkfs.c: the file system that the kernel finds on the disk.  Sizes  *)
(* are counted in directory entries, and inode 1 is the root directory.    *)
(***************************************************************************)
EXTENDS Integers, FiniteSets

CONSTANTS
  NDIRECT, NINDIRECT,
  BSIZE,     \* entries in a block
  NMETA,     \* blocks before the first data block
  MAXINODE   \* bound: inodes

VARIABLES
  freeinode, freeblock,
  din,       \* inodes
  indirect,  \* contents of indirect blocks
  dir,       \* inodes in the root directory, by place
  bitmap,
  open,      \* main() reads a file, or the last one has been copied
  overrun    \* iappend() has used memory beyond indirect[]

vars == <<freeinode, freeblock, din, indirect, dir, bitmap, open, overrun>>

ROOTINO == 1
MAXFILE == NDIRECT + NINDIRECT + NINDIRECT * NINDIRECT
Empty == [size |-> 0, addrs |-> [i \in 0 .. NDIRECT |-> 0]]
Blank == [i \in 0 .. NINDIRECT - 1 |-> 0]

\* iappend() for n entries on the state s; the data are left out.  The kernel's doubly
\* indirect blocks are not made: what lies beyond indirect[] is taken for block numbers,
\* a number (junk) or 0, for which a block is allocated and not remembered on the disk.
RECURSIVE iappend(_, _, _, _)
iappend(s, inum, n, junk) ==
  IF n = 0 THEN s
  ELSE LET d     == s.din[inum]
           fbn   == d.size \div BSIZE
           n1    == IF n < (fbn + 1) * BSIZE - d.size THEN n ELSE (fbn + 1) * BSIZE - d.size
           slot  == IF fbn < NDIRECT THEN fbn ELSE NDIRECT
           new   == d.addrs[slot] = 0
           x     == IF new THEN s.free ELSE d.addrs[slot]
           free1 == IF new THEN s.free + 1 ELSE s.free
           ind   == IF fbn < NDIRECT THEN s.ind
                    ELSE [b \in DOMAIN s.ind \cup {x} |-> IF b \in DOMAIN s.ind THEN s.ind[b] ELSE Blank]
           over  == fbn - NDIRECT >= NINDIRECT
           more  == fbn >= NDIRECT /\ IF over THEN ~ junk ELSE ind[x][fbn - NDIRECT] = 0
       IN  iappend([din  |-> [s.din EXCEPT ![inum] = [size |-> d.size + n1,
                                                      addrs |-> [d.addrs EXCEPT ![slot] = x]]],
                    free |-> IF more THEN free1 + 1 ELSE free1,
                    ind  |-> IF more /\ ~ over THEN [ind EXCEPT ![x][fbn - NDIRECT] = free1] ELSE ind,
                    over |-> s.over \/ over],
                   inum, n - n1, junk)

become(s) == din' = s.din /\ freeblock' = s.free /\ indirect' = s.ind /\ overrun' = s.over
Now == [din |-> din, free |-> freeblock, ind |-> indirect, over |-> overrun]

\* main() up to the loop: the root directory with "." and "..".
Init ==
  LET root == iappend([din |-> <<Empty>>, free |-> NMETA, ind |-> <<>>, over |-> FALSE],
                      ROOTINO, 2, FALSE) IN
  /\ freeinode = 2
  /\ din = root.din /\ freeblock = root.free /\ indirect = root.ind
  /\ dir = <<ROOTINO, ROOTINO>>
  /\ bitmap = {}
  /\ open = FALSE
  /\ overrun = root.over

\* The next file: ialloc(), and an entry in the root directory.
main_file ==
  /\ ~ open /\ bitmap = {} /\ freeinode <= MAXINODE
  /\ din[ROOTINO].size < MAXFILE * BSIZE
  /\ LET grown == [i \in 1 .. freeinode |-> IF i = freeinode THEN Empty ELSE din[i]] IN
     \E junk \in BOOLEAN : become(iappend([Now EXCEPT !.din = grown], ROOTINO, 1, junk))
  /\ dir' = [i \in 1 .. Cardinality(DOMAIN dir) + 1 |-> IF i \in DOMAIN dir THEN dir[i] ELSE freeinode]
  /\ freeinode' = freeinode + 1
  /\ open' = TRUE
  /\ UNCHANGED bitmap

\* read() gives a whole block, until the last of the file; mkfs stops at an assertion if
\* the file is larger than MAXFILE blocks.
main_read(cc) ==
  LET inum == freeinode - 1 IN
  /\ open /\ din[inum].size + cc <= MAXFILE * BSIZE
  /\ \E junk \in BOOLEAN : become(iappend(Now, inum, cc, junk))
  /\ open' = (cc = BSIZE)
  /\ UNCHANGED <<freeinode, dir, bitmap>>

\* Mutant: the last block that was allocated is left free.
BugEnd ==
  /\ ~ open /\ bitmap = {}
  /\ din' = [din EXCEPT ![ROOTINO].size = (@ \div BSIZE + 1) * BSIZE]
  /\ bitmap' = 0 .. freeblock - 2
  /\ UNCHANGED <<freeinode, freeblock, indirect, dir, open, overrun>>

\* The size of the root directory is rounded up, and balloc() writes the bitmap.
main_end ==
  /\ ~ open /\ bitmap = {}
  /\ din' = [din EXCEPT ![ROOTINO].size = (@ \div BSIZE + 1) * BSIZE]
  /\ bitmap' = 0 .. freeblock - 1
  /\ UNCHANGED <<freeinode, freeblock, indirect, dir, open, overrun>>

Next == main_file \/ main_end \/ \E cc \in 0 .. BSIZE : main_read(cc)

Spec == Init /\ [][Next]_vars

-----------------------------------------------------------------------------
(* Properties.                                                             *)

\* Where a block is referred to: from an inode or from its indirect block.
Places(b) ==
  {<<i, k>> \in (DOMAIN din) \X (0 .. NDIRECT) : din[i].addrs[k] = b}
  \cup {<<i, NDIRECT + 1 + k>> : <<i, k>> \in
          {<<j, l>> \in (DOMAIN indirect) \X (0 .. NINDIRECT - 1) : indirect[j][l] = b}}

\* The block of file i that holds block fbn of it.
bmap(i, fbn) ==
  IF fbn < NDIRECT THEN din[i].addrs[fbn]
  ELSE IF din[i].addrs[NDIRECT] = 0 THEN 0 ELSE indirect[din[i].addrs[NDIRECT]][fbn - NDIRECT]

\* What iappend() has given inode i: the root directory's size changes in the end.
Appended(i) == IF i = ROOTINO THEN Cardinality(DOMAIN dir) ELSE din[i].size

\* The image is consistent: each block the bitmap marks is metadata or in one place, and
\* each file has the blocks of its size and no others.  There are two exceptions.  A root
\* directory whose entries fill its blocks gets a size that includes a block it has not
\* got.  And the image is consistent only if no file needs more than the direct and the
\* indirect block: iappend(), which lets MAXFILE blocks pass, leaves indirect[] at the first
\* block more, and at no other time.
ImageConsistent ==
  /\ overrun <=> \E i \in DOMAIN din : Appended(i) > (NDIRECT + NINDIRECT) * BSIZE
  /\ bitmap # {} /\ ~ overrun =>
       /\ \A b \in NMETA .. freeblock : Cardinality(Places(b)) = IF b \in bitmap THEN 1 ELSE 0
       /\ 0 .. NMETA - 1 \subseteq bitmap
       /\ \A i \in DOMAIN din, fbn \in 0 .. NDIRECT + NINDIRECT - 1 :
            /\ bmap(i, fbn) # 0 <=> fbn * BSIZE < Appended(i)
            /\ fbn * BSIZE < din[i].size <=>
                 bmap(i, fbn) # 0 \/ (i = ROOTINO /\ Appended(i) = fbn * BSIZE)
=============================================================================
