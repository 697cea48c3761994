------------------------------ MODULE MCMemory ------------------------------
(***************************************************************************)
(* User memory (Cow.tla), page tables and exec() (Image.tla), and malloc() *)
(* (Malloc.tla) on small instances.  They share no variable here, so that  *)
(* their interleavings show nothing that each of them alone does not: a    *)
(* behaviour chooses one of them in its first state, and the others stay   *)
(* where they are.  The set of pages of the first is the set of processes  *)
(* of Image, which keeps the symmetry group small.                         *)
(***************************************************************************)
EXTENDS Cow, TLC

CONSTANTS FAN, MAXSZ, MAXBRK, MAXARG, MAXDROP, MINCORE, HEAPMAX

VARIABLES
  icnt, taken, ipt, isz, tf, atf, used, dropped, cur, ipc, inew, nsz, at, goal, ichild, argc,
  locked, panicked,
  hdr, freep, inuse, brk, core,
  focus  \* the component that runs

ivars == <<icnt, taken, ipt, isz, tf, atf, used, dropped, cur, ipc, inew, nsz, at, goal, ichild,
           argc, locked, panicked>>
hvars == <<hdr, freep, inuse, brk, core>>

Img == INSTANCE Image WITH Proc <- Page, cnt <- icnt, pt <- ipt, sz <- isz, pc <- ipc,
                           new <- inew, child <- ichild
Heap == INSTANCE Malloc

ASSUME MemoryConstants ==
  /\ JUNK \notin Val
  /\ FAN \in Nat \ {0, 1} /\ MAXSZ \in 3 .. FAN ^ 3 - 2 /\ MAXBRK \in 1 .. MAXSZ
  /\ MAXARG \in Nat /\ MAXDROP \in Nat
  /\ MINCORE \in Nat \ {0} /\ HEAPMAX \in Nat \ {0}

\* A component that does not run.
ImageOff ==
  /\ icnt = 0 /\ taken = 0 /\ ipt = 0 /\ isz = 0 /\ tf = 0 /\ atf = 0 /\ used = 0 /\ dropped = 0
  /\ cur = 0 /\ ipc = 0 /\ inew = 0 /\ nsz = 0 /\ at = 0 /\ goal = 0 /\ ichild = 0 /\ argc = 0
  /\ locked = 0 /\ panicked = 0
HeapOff == hdr = 0 /\ freep = 0 /\ inuse = 0 /\ brk = 0 /\ core = 0

MemoryInit ==
  /\ Init
  /\ focus \in {"cow", "image", "malloc"}
  /\ IF focus = "image" THEN Img!Init ELSE ImageOff
  /\ IF focus = "malloc" THEN Heap!Init ELSE HeapOff
MemoryNext ==
  /\ \/ focus = "cow" /\ Next /\ UNCHANGED <<ivars, hvars>>
     \/ focus = "image" /\ Img!Next /\ UNCHANGED <<vars, hvars>>
     \/ focus = "malloc" /\ Heap!Next /\ UNCHANGED <<vars, ivars>>
  /\ UNCHANGED focus
MemorySpec == MemoryInit /\ [][MemoryNext]_<<vars, ivars, hvars, focus>>

Symmetry == Permutations(Proc) \cup Permutations(Page)

\* Reference counts are exact, for the pages that fork(), page faults, copyout(), sbrk()
\* and exit() map, and for the page-table pages, trapframes and arguments of fork() and
\* exec() when an allocation fails: no page is leaked, and none is freed that is still
\* mapped.
CountsExact ==
  /\ focus = "cow" => CountExact
  /\ focus = "image" => Img!PagesAccounted

\* fork() and exec() leave whole images behind, whatever fails in them.
ImagesWhole == focus = "image" => Img!ImagesWhole

\* malloc() and free() lose no memory and give none out twice.
HeapExact == focus = "malloc" => Heap!HeapExact
=============================================================================
