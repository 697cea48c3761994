------------------------------- MODULE Blocks -------------------------------
(***************************************************************************)
(* Blocks of files, kernel/filesystem/fs.c: the bitmap of balloc() and     *)
(* bfree(), and the direct, indirect and doubly indirect blocks of bmap()  *)
(* and itrunc().                                                           *)
(*                                                                         *)
(* An inode is used by one process at a time, which has it locked.  The    *)
(* bitmap is shared: a step is one call of balloc() or bfree(), with the   *)
(* change of the pointer that goes with it.  Of the contents of a block    *)
(* the model has the pointers of indirect blocks.  They are zeroed when a  *)
(* block is freed; in the program they are stale until balloc() zeroes     *)
(* them.                                                                   *)
(***************************************************************************)
EXTENDS Integers, Sequences, SequencesExt, FiniteSets

CONSTANTS
  Inode,
  NBLOCKS,          \* blocks of the disk that files can have
  NDIRECT,
  NADDR_PER_BLOCK,
  MAXTRUNC,         \* bound: calls of itrunc()
  NULL

DataBlock == 1 .. NBLOCKS
NINDIRECT == NADDR_PER_BLOCK
NDINDIRECT == NADDR_PER_BLOCK * NADDR_PER_BLOCK
MAXFILE == NDIRECT + NINDIRECT + NDINDIRECT

VARIABLES
  bitmap,        \* blocks in use
  addrs,         \* ip->addrs
  data,          \* pointers in a block
  size,          \* ip->size, in blocks
  pc, pos,       \* what the holder of the inode does; how far itrunc() is
  truncs,        \* calls of itrunc() so far
  panicked

vars == <<bitmap, addrs, data, size, pc, pos, truncs, panicked>>

Init ==
  /\ bitmap = {}
  /\ addrs = [i \in Inode |-> [k \in 0 .. NDIRECT + 1 |-> 0]]
  /\ data = [b \in DataBlock |-> [k \in 0 .. NADDR_PER_BLOCK - 1 |-> 0]]
  /\ size = [i \in Inode |-> 0]
  /\ pc = [i \in Inode |-> "idle"] /\ pos = [i \in Inode |-> 0]
  /\ truncs = 0 /\ panicked = NULL

-----------------------------------------------------------------------------
(* A slot is where a pointer is: its index in addrs, followed by its       *)
(* indices in indirect blocks.                                             *)

\* bmap(): the slot for block n of a file.
slot(n) ==
  LET m == n - NDIRECT
      k == m - NINDIRECT
  IN CASE n < NDIRECT -> <<n>>
       [] m \in 0 .. NINDIRECT - 1 -> <<NDIRECT, m>>
       [] k >= 0 -> <<NDIRECT + 1, k \div NADDR_PER_BLOCK, k % NADDR_PER_BLOCK>>

\* The pointer in slot s of inode i, read through the indirect blocks.
read(i, s) ==
  LET a == addrs[i][s[1]]
      b == data[a][s[2]]
  IN IF a = 0 \/ Len(s) = 1 THEN a ELSE IF b = 0 \/ Len(s) = 2 THEN b ELSE data[b][s[3]]

zero == [k \in 0 .. NADDR_PER_BLOCK - 1 |-> 0]

\* balloc(): the first free block.
balloc(b) ==
  /\ b \in DataBlock \ bitmap /\ \A c \in DataBlock \ bitmap : b <= c
  /\ bitmap' = bitmap \cup {b}

-----------------------------------------------------------------------------
\* writei() at the end of the file, unless the file is as large as can be.  Inside the
\* file writei() and readi() change nothing here, since there are no holes (NoHoles).
writei(i) ==
  /\ pc[i] = "idle" /\ size[i] < MAXFILE
  /\ pc' = [pc EXCEPT ![i] = "bmap"]
  /\ UNCHANGED <<bitmap, addrs, data, size, pos, truncs, panicked>>

\* Mutant: writei() goes beyond the end though nothing was allocated.
BugHole(i) ==
  /\ pc[i] = "bmap"
  /\ pc' = [pc EXCEPT ![i] = "idle"]
  /\ size' = [size EXCEPT ![i] = @ + 1]
  /\ UNCHANGED <<bitmap, addrs, data, pos, truncs, panicked>>

\* bmap(): allocate the first missing block on the way to the slot; or there is none,
\* and writei() copies the data and goes beyond the end, or fails to copy it.
bmap(i) ==
  /\ pc[i] = "bmap"
  /\ LET s == slot(size[i])
         missing == {k \in 1 .. Len(s) : read(i, SubSeq(s, 1, k)) = 0}
     IN \/ /\ missing = {}
           /\ pc' = [pc EXCEPT ![i] = "idle"]
           /\ \/ size' = [size EXCEPT ![i] = @ + 1]
              \/ UNCHANGED size
           /\ UNCHANGED <<bitmap, addrs, data, panicked>>
        \/ \E k \in missing, b \in DataBlock :
             /\ \A j \in missing : k <= j
             /\ balloc(b)
             /\ IF k = 1 THEN addrs' = [addrs EXCEPT ![i][s[1]] = b] /\ UNCHANGED data
                ELSE /\ data' = [data EXCEPT ![read(i, SubSeq(s, 1, k - 1))][s[k]] = b]
                     /\ UNCHANGED addrs
             /\ UNCHANGED <<size, pc, panicked>>
        \/ /\ missing # {} /\ bitmap = DataBlock
           /\ panicked' = "balloc: out of blocks"
           /\ UNCHANGED <<bitmap, addrs, data, size, pc>>
  /\ UNCHANGED <<pos, truncs>>

\* The order in which itrunc() visits the slots: an indirect block comes after the
\* blocks it points to.
below(s) == [k \in 1 .. NADDR_PER_BLOCK |-> Append(s, k - 1)]
order ==
  [k \in 1 .. NDIRECT |-> <<k - 1>>]
  \o below(<<NDIRECT>>) \o << <<NDIRECT>> >>
  \o FlattenSeq([k \in 1 .. NADDR_PER_BLOCK |->
                   Append(below(<<NDIRECT + 1, k - 1>>), <<NDIRECT + 1, k - 1>>)])
  \o << <<NDIRECT + 1>> >>

\* itrunc() is called, by iput() or by open() with O_TRUNC.
itrunc(i) ==
  /\ pc[i] = "idle"
  /\ truncs < MAXTRUNC /\ truncs' = truncs + 1
  /\ pc' = [pc EXCEPT ![i] = "trunc"] /\ pos' = [pos EXCEPT ![i] = 1]
  /\ UNCHANGED <<bitmap, addrs, data, size, panicked>>

\* Mutant: an indirect block is freed and the blocks below it are forgotten.
BugFree(i) ==
  /\ pc[i] = "trunc"
  /\ LET S == {k \in 0 .. NDIRECT + 1 : addrs[i][k] # 0} IN
     /\ bitmap' = bitmap \ {addrs[i][k] : k \in S}
     /\ data' = [b \in DataBlock |-> IF b \in bitmap' THEN data[b] ELSE zero]
  /\ addrs' = [addrs EXCEPT ![i] = [k \in DOMAIN @ |-> 0]]
  /\ pc' = [pc EXCEPT ![i] = "idle"] /\ pos' = [pos EXCEPT ![i] = 0]
  /\ size' = [size EXCEPT ![i] = 0]
  /\ UNCHANGED <<truncs, panicked>>

\* itrunc(): bfree() of the block in the next slot that has one; after the last, the
\* file is empty.
bfree(i) ==
  /\ pc[i] = "trunc"
  /\ LET all == order
         left == {k \in DOMAIN all : k >= pos[i] /\ read(i, all[k]) # 0} IN
     \/ /\ left = {}
        /\ pc' = [pc EXCEPT ![i] = "idle"] /\ pos' = [pos EXCEPT ![i] = 0]
        /\ size' = [size EXCEPT ![i] = 0]
        /\ UNCHANGED <<bitmap, addrs, data, panicked>>
     \/ \E k \in left :
          LET s == all[k]
              b == read(i, s)
          IN /\ \A j \in left : k <= j
             /\ IF b \in bitmap
                THEN /\ bitmap' = bitmap \ {b} /\ data' = [data EXCEPT ![b] = zero]
                     /\ addrs' = IF Len(s) = 1 THEN [addrs EXCEPT ![i][s[1]] = 0] ELSE addrs
                     /\ pos' = [pos EXCEPT ![i] = k + 1]
                     /\ UNCHANGED panicked
                ELSE panicked' = "freeing free block" /\ UNCHANGED <<bitmap, data, addrs, pos>>
             /\ UNCHANGED <<pc, size>>
  /\ UNCHANGED <<truncs>>

Next ==
  /\ panicked = NULL
  /\ \E i \in Inode : writei(i) \/ bmap(i) \/ itrunc(i) \/ bfree(i)

Spec == Init /\ [][Next]_vars

-----------------------------------------------------------------------------
(* Properties.                                                             *)

\* Slots whose blocks an inode has, itrunc() having freed the ones before pos.
slots(i) ==
  LET all == order IN {s \in {all[k] : k \in {j \in DOMAIN all : j >= pos[i]}} : read(i, s) # 0}

\* The bitmap has exactly the blocks that are reachable from an inode, and each is
\* reachable in one way: no two files share a block, none is lost when a file is
\* truncated, and none is freed twice, however allocations and truncations of
\* different files interleave.
BlocksExact ==
  /\ LET places == UNION {{<<i, s>> : s \in slots(i)} : i \in Inode} IN
     /\ bitmap = {read(x[1], x[2]) : x \in places}
     /\ Cardinality(bitmap) = Cardinality(places)
  /\ panicked # "freeing free block"

\* A file has no holes, so that bmap() allocates nothing when readi() calls it.
NoHoles ==
  \A i \in Inode : pc[i] # "trunc" => \A n \in 0 .. size[i] - 1 : read(i, slot(n)) # 0
=============================================================================
