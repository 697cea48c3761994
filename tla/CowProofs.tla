----------------------------- MODULE CowProofs ------------------------------
(***************************************************************************)
(* Proofs about user memory (Cow.tla), for any number of processes, of     *)
(* pages of user memory and of physical pages.                             *)
(***************************************************************************)
EXTENDS Cow, TLAPS

\* Where a process is in cowalloc() with its PTE as it was; and in fork().
Faulting == {"cow", "own", "alloc", "copy", "map"}
Copying == {"fork", "addref"}
Label == Faulting \cup Copying
         \cup {"unused", "new", "user", "out", "drop", "unwind", "exit"}

\* A page is writable or copy-on-write.
PteOrNull == {e \in Pte : e.f <=> ~ e.w} \cup {NULL}

\* Every variable holds a value of its type.
TypeOK ==
  /\ sz \in [Proc -> 0 .. NVA]
  /\ pt \in [Proc -> [Va -> PteOrNull]]
  /\ cnt \in [Page -> Int]
  /\ mem \in [Page -> Val \cup {JUNK}]
  /\ pc \in [Proc -> Label]
  /\ va \in [Proc -> 0 .. NVA]
  /\ pa \in [Proc -> Page \cup {NULL}]
  /\ new \in [Proc -> Page \cup {NULL}]
  /\ out \in [Proc -> Val \cup {NULL}]
  /\ child \in [Proc -> Proc \cup {NULL}]

\* PTE a of process p maps page r.
Maps(p, a, r) == pt[p][a] # NULL /\ pt[p][a].pa = r

\* No PTE but number a of process p maps page r, and cowalloc() holds it nowhere.
Sole(p, a, r) ==
  \A q \in Proc :
    /\ \A b \in Va : Maps(q, b, r) => q = p /\ b = a
    /\ pc[q] \in {"copy", "map"} => new[q] # r
    /\ pc[q] = "drop" => pa[q] # r

\* cowalloc() and copyout() work on a page that the process has mapped.
FaultAt(p) ==
  /\ pc[p] \in Faulting =>
       va[p] \in Va /\ pt[p][va[p]] # NULL /\ pt[p][va[p]].f /\ pt[p][va[p]].pa = pa[p]
  /\ pc[p] = "drop" => /\ va[p] \in Va /\ pa[p] \in Page
                       /\ pt[p][va[p]] # NULL /\ pt[p][va[p]].w /\ pt[p][va[p]].pa = new[p]
  /\ pc[p] = "out" =>
       /\ out[p] \in Val
       /\ \E a \in Va : pt[p][a] # NULL /\ pt[p][a].w /\ pt[p][a].pa = pa[p]
FaultOK == \A p \in Proc : FaultAt(p)

\* A page table holds nothing above the size of the process.
BelowSize == \A p \in Proc : pc[p] \notin {"new", "exit"} =>
               \A a \in Va : a >= sz[p] => pt[p][a] = NULL
\* A process that does not run yet has no size.
NoSize == \A p \in Proc : pc[p] \in {"unused", "new"} => va[p] = 0 /\ sz[p] = 0
\* uvmunmap() has cleared the PTEs it has passed.
Cleared == \A p \in Proc : pc[p] = "exit" => \A a \in Va : a < va[p] => pt[p][a] = NULL
\* uvmcopy() has given the child the PTEs it has passed, and none of those to come.
Copied == \A p \in Proc : pc[p] \in Copying =>
            /\ child[p] \in Proc /\ pc[child[p]] = "new" /\ va[p] <= sz[p]
            /\ \A a \in Va : (a < va[p] => pt[child[p]][a] = pt[p][a])
            /\ \A a \in Va : (a > va[p] => pt[child[p]][a] = NULL)
ToCopy == \A p \in Proc : pc[p] = "fork" /\ va[p] \in Va => pt[child[p]][va[p]] = NULL
\* The PTE whose reference uvmcopy() has still to count is in both tables.
Shared == \A p \in Proc : pc[p] = "addref" =>
            /\ va[p] < sz[p] /\ pt[p][va[p]] # NULL /\ pt[p][va[p]].f
            /\ pt[child[p]][va[p]] = pt[p][va[p]]
\* A child has one parent.
OneParent == \A p, q \in Proc :
               pc[p] \in Copying /\ pc[q] \in Copying /\ child[p] = child[q] => p = q
HasParent == \A p \in Proc : pc[p] = "new" => \E q \in Proc : pc[q] \in Copying /\ child[q] = p
HasChild == \A p \in Proc : pc[p] = "unwind" => child[p] \in Proc

\* The page tables of parent and child while fork() copies, and of a process that does
\* not run.
TableOK == /\ BelowSize /\ NoSize /\ Cleared /\ Copied /\ ToCopy /\ Shared
           /\ OneParent /\ HasParent /\ HasChild

\* Pages with one reference: those that can be written, the one that cowalloc() found to
\* be the process's own, and the one it has allocated.
WritableSole ==
  \A p \in Proc : \A a \in Va : pt[p][a] # NULL /\ pt[p][a].w => Sole(p, a, pt[p][a].pa)
OwnSole == \A p \in Proc : pc[p] = "own" => Sole(p, va[p], pa[p])
NewSole ==
  \A p \in Proc : pc[p] \in {"copy", "map"} =>
    /\ new[p] \in Page
    /\ \A q \in Proc :
         /\ \A b \in Va : ~ Maps(q, b, new[p])
         /\ pc[q] \in {"copy", "map"} /\ new[q] = new[p] => q = p
         /\ pc[q] = "drop" => pa[q] # new[p]
\* The page it has allocated holds what the one it replaces does.
NewCopied == \A p \in Proc : pc[p] = "map" => mem[new[p]] = mem[pa[p]]
OwnOK == WritableSole /\ OwnSole /\ NewSole /\ NewCopied

IInv == /\ TypeOK /\ FaultOK /\ TableOK /\ OwnOK /\ CountExact

\* The invariant under the name that the lemmas have for it, which their proofs leave
\* folded in what they cite.
Inv == IInv

-----------------------------------------------------------------------------
(* Reference counts.                                                       *)

\* Places of references, as Ref numbers them.
Places == Proc \X (0 .. NVA + 1)

\* What cardinalities of sets of references are.  CowRefinement derives this from
\* CowConstants.
Counting ==
  /\ Cardinality({}) = 0
  /\ \A S \in SUBSET Places :
       /\ Cardinality(S) \in Nat
       /\ Cardinality(S) = 0 => S = {}
       /\ Cardinality(S) = 1 => \E h \in Places : S = {h}
       /\ \A h \in Places \ S : Cardinality(S \cup {h}) = Cardinality(S) + 1
       /\ \A h \in S : Cardinality(S \ {h}) = Cardinality(S) - 1

LEMMA RefsPlaces ==
  ASSUME NEW r
  PROVE  Refs(r) \in SUBSET Places /\ Refs(r)' \in SUBSET Places
<1>. QED
  BY Zenon DEF Refs, Places

LEMMA SameRefs ==
  ASSUME CountExact, cnt' = cnt,
         \A r \in Page : \A q \in Proc : \A b \in 0 .. NVA + 1 : Ref(q, b, r)' <=> Ref(q, b, r)
  PROVE  CountExact'
<1>1. \A r \in Page : Refs(r)' = Refs(r)
  BY Zenon DEF Refs
<1>. QED
  BY <1>1, Zenon DEF CountExact

LEMMA AddRef ==
  ASSUME Counting, TypeOK, CountExact, NEW r \in Page, NEW p \in Proc, NEW a \in 0 .. NVA + 1,
         ~ Ref(p, a, r), Ref(p, a, r)',
         cnt'[r] = cnt[r] + 1, \A s \in Page \ {r} : cnt'[s] = cnt[s],
         \A s \in Page : \A q \in Proc : \A b \in 0 .. NVA + 1 :
           ~ (s = r /\ q = p /\ b = a) => (Ref(q, b, s)' <=> Ref(q, b, s))
  PROVE  CountExact'
<1>1. \A s \in Page \ {r} : Refs(s)' = Refs(s) /\ cnt'[s] = cnt[s]
  BY Zenon DEF Refs
<1>2. <<p, a>> \in Places \ Refs(r) /\ Refs(r)' = Refs(r) \cup {<<p, a>>}
  BY DEF Refs, Places
<1>3. Cardinality(Refs(r) \cup {<<p, a>>}) = Cardinality(Refs(r)) + 1
  BY <1>2, RefsPlaces, Zenon DEF Counting
<1>. QED
  BY <1>1, <1>2, <1>3, Zenon DEF CountExact

LEMMA DropRef ==
  ASSUME Counting, TypeOK, CountExact, NEW r \in Page, NEW p \in Proc, NEW a \in 0 .. NVA + 1,
         Ref(p, a, r), ~ Ref(p, a, r)',
         cnt'[r] = cnt[r] - 1, \A s \in Page \ {r} : cnt'[s] = cnt[s],
         \A s \in Page : \A q \in Proc : \A b \in 0 .. NVA + 1 :
           ~ (s = r /\ q = p /\ b = a) => (Ref(q, b, s)' <=> Ref(q, b, s))
  PROVE  CountExact'
<1>1. \A s \in Page \ {r} : Refs(s)' = Refs(s) /\ cnt'[s] = cnt[s]
  BY Zenon DEF Refs
<1>2. <<p, a>> \in Refs(r) /\ Refs(r)' = Refs(r) \ {<<p, a>>}
  BY DEF Refs
<1>3. Cardinality(Refs(r) \ {<<p, a>>}) = Cardinality(Refs(r)) - 1
  BY <1>2, RefsPlaces, Zenon DEF Counting
<1>. QED
  BY <1>1, <1>2, <1>3, Zenon DEF CountExact

\* A PTE that is not counted yet maps the page of a PTE that is.
LEMMA Counted ==
  ASSUME CowConstants, TypeOK, TableOK, NEW q \in Proc, NEW b \in Va, Uncounted(q, b)
  PROVE  \E p \in Proc : /\ pc[p] = "addref" /\ p # q /\ b = va[p]
                         /\ pt[p][b] # NULL /\ pt[q][b] = pt[p][b]
                         /\ ~ Uncounted(p, b)
<1>1. PICK p \in Proc : pc[p] = "addref" /\ child[p] = q /\ va[p] = b
  BY Zenon DEF Uncounted
<1>2. p # q /\ pc[q] = "new" /\ pt[p][b] # NULL /\ pt[q][b] = pt[p][b]
  BY <1>1, Zenon DEF TableOK, Copied, Shared, Copying
<1>3. ~ Uncounted(p, b)
  BY <1>1, Zenon DEF Uncounted, TableOK, Copied, Copying
<1>. QED
  BY <1>1, <1>2, <1>3, Zenon

\* kalloc() gives out a page that nothing refers to.
LEMMA FreePage ==
  ASSUME CowConstants, Counting, Inv, NEW r \in Page, cnt[r] = 0
  PROVE  \A q \in Proc : /\ \A b \in Va : ~ Maps(q, b, r)
                         /\ pc[q] \in {"copy", "map"} => new[q] # r
                         /\ pc[q] = "drop" => pa[q] # r
<1>. SUFFICES ASSUME IInv
             PROVE  \A q \in Proc : /\ \A b \in Va : ~ Maps(q, b, r)
                                    /\ pc[q] \in {"copy", "map"} => new[q] # r
                                    /\ pc[q] = "drop" => pa[q] # r
  BY Zenon DEF Inv
<1>1. Refs(r) = {}
  BY RefsPlaces DEF IInv, CountExact, Counting
<1>2. \A q \in Proc : \A b \in 0 .. NVA + 1 : ~ Ref(q, b, r)
  <2>1. \A q \in Proc : \A b \in 0 .. NVA + 1 : Ref(q, b, r) => <<q, b>> \in Refs(r)
    BY Zenon DEF Refs
  <2>. QED
    BY <1>1, <2>1, Zenon
<1>3. /\ \A b \in Va : b \in 0 .. NVA + 1
      /\ NVA \in 0 .. NVA + 1 /\ NVA + 1 \in 0 .. NVA + 1
  BY DEF Va, CowConstants
<1>4. \A q \in Proc : \A b \in Va : Maps(q, b, r) => Uncounted(q, b)
  BY <1>2, <1>3, Zenon DEF Ref, Maps
<1>5. \A q \in Proc : \A b \in Va : ~ Maps(q, b, r)
  BY <1>4, Counted DEF Maps, IInv
<1>. QED
  BY <1>2, <1>3, <1>5, Zenon DEF Ref

\* A page whose count is 1 has no other reference than the one that is known, unless it
\* is one that uvmcopy() copies.
LEMMA LastRef ==
  ASSUME CowConstants, Counting, Inv, NEW r \in Page, cnt[r] = 1,
         NEW p \in Proc, NEW a \in 0 .. NVA + 1, Ref(p, a, r), pc[p] # "addref"
  PROVE  \A q \in Proc : /\ \A b \in Va : Maps(q, b, r) => q = p /\ b = a
                         /\ pc[q] \in {"copy", "map"} /\ new[q] = r => q = p /\ a = NVA
                         /\ pc[q] = "drop" /\ pa[q] = r => q = p /\ a = NVA + 1
<1>. SUFFICES ASSUME IInv
             PROVE  \A q \in Proc :
                      /\ \A b \in Va : Maps(q, b, r) => q = p /\ b = a
                      /\ pc[q] \in {"copy", "map"} /\ new[q] = r => q = p /\ a = NVA
                      /\ pc[q] = "drop" /\ pa[q] = r => q = p /\ a = NVA + 1
  BY Zenon DEF Inv
<1>1. Refs(r) = {<<p, a>>}
  <2>1. Cardinality(Refs(r)) = 1
    BY Zenon DEF IInv, CountExact
  <2>2. PICK h \in Places : Refs(r) = {h}
    BY <2>1, RefsPlaces, Zenon DEF Counting
  <2>3. <<p, a>> \in Refs(r)
    BY Zenon DEF Refs
  <2>. QED
    BY <2>2, <2>3, Zenon
<1>2. \A q \in Proc : \A b \in 0 .. NVA + 1 : Ref(q, b, r) => q = p /\ b = a
  <2>1. \A q \in Proc : \A b \in 0 .. NVA + 1 : Ref(q, b, r) => <<q, b>> \in Refs(r)
    BY Zenon DEF Refs
  <2>. QED
    BY <1>1, <2>1, Zenon
<1>3. /\ \A b \in Va : b \in 0 .. NVA + 1
      /\ NVA \in 0 .. NVA + 1 /\ NVA + 1 \in 0 .. NVA + 1
  BY DEF Va, CowConstants
<1>4. ASSUME NEW q \in Proc, NEW b \in Va, Maps(q, b, r)
      PROVE  q = p /\ b = a
  <2>1. CASE ~ Uncounted(q, b)
    BY <1>2, <1>3, <1>4, <2>1, Zenon DEF Ref, Maps
  <2>2. CASE Uncounted(q, b)
    <3>1. PICK o \in Proc : /\ pc[o] = "addref" /\ o # q /\ b = va[o]
                           /\ pt[o][b] # NULL /\ pt[q][b] = pt[o][b]
                           /\ ~ Uncounted(o, b)
      BY <2>2, Counted, Zenon DEF IInv
    <3>2. Ref(o, b, r)
      BY <1>4, <3>1, Zenon DEF Ref, Maps
    <3>. QED
      BY <1>2, <1>3, <3>1, <3>2, Zenon
  <2>. QED
    BY <2>1, <2>2, Zenon
<1>. QED
  BY <1>2, <1>3, <1>4, Zenon DEF Ref

LEMMA PteType ==
  ASSUME TypeOK, NEW p \in Proc, NEW a \in Va, pt[p][a] # NULL
  PROVE  pt[p][a] \in Pte /\ pt[p][a].pa \in Page /\ (pt[p][a].f <=> ~ pt[p][a].w)
<1>. QED
  BY DEF TypeOK, PteOrNull, Pte

\* Setting one PTE.
LEMMA SetPte ==
  ASSUME TypeOK, NEW p \in Proc, NEW a \in Va, NEW e \in PteOrNull,
         setpte(p, a, e)
  PROVE  /\ pt' \in [Proc -> [Va -> PteOrNull]]
         /\ pt'[p][a] = e
         /\ \A q \in Proc : \A b \in Va : ~ (q = p /\ b = a) => pt'[q][b] = pt[q][b]
<1>. QED
  BY Zenon DEF setpte, TypeOK

-----------------------------------------------------------------------------
(* Steps that leave most of the state alone.                               *)

\* One step of a process that does not fork: it works on its own page table, or gives up.
LEMMA TableStep ==
  ASSUME CowConstants, TypeOK, TableOK, NEW p \in Proc, sz' = sz,
         \A q \in Proc : q # p => child'[q] = child[q],
         pc[p] \in Faulting \cup {"user", "out", "drop", "unwind"},
         pc'[p] \in Faulting \cup {"user", "out", "drop"} \/ (pc'[p] = "exit" /\ va'[p] = 0),
         \A q \in Proc : q # p => /\ pc'[q] = pc[q] /\ va'[q] = va[q]
                                 /\ \A b \in Va : pt'[q][b] = pt[q][b],
         \A b \in Va : b >= sz[p] => pt'[p][b] = NULL
  PROVE  TableOK'
<1>1. \A q \in Proc : pc[q] \in Copying => /\ q # p /\ child[q] \in Proc /\ child[q] # p
                                          /\ pc[child[q]] = "new"
  BY Zenon DEF TableOK, Copied, Copying, Faulting
<1>2. \A q \in Proc : pc[q] \in {"unused", "new", "exit", "fork", "addref"} => q # p
  BY Zenon DEF Faulting
<1>3. \A q \in Proc : pc'[q] \in {"unused", "new", "fork", "addref", "unwind"} => q # p
  BY Zenon DEF Faulting
<1>4. BelowSize'
  <2>1. pc[p] \notin {"new", "exit"}
    BY <1>2, Zenon
  <2>. QED
    BY <2>1 DEF TableOK, BelowSize
<1>5. NoSize'
  BY <1>3, Zenon DEF TableOK, NoSize
<1>6. Cleared'
  BY DEF TableOK, Cleared, Faulting, Va
<1>7. ASSUME NEW q \in Proc, pc'[q] \in Copying
      PROVE  /\ pc[q] = pc'[q] /\ pc[q] \in Copying /\ child'[q] = child[q]
             /\ child[q] \in Proc /\ pc'[child[q]] = pc[child[q]] /\ va'[q] = va[q]
             /\ \A b \in Va : pt'[q][b] = pt[q][b] /\ pt'[child[q]][b] = pt[child[q]][b]
  <2>1. q # p /\ pc[q] = pc'[q] /\ pc[q] \in Copying
    BY <1>3, <1>7, Zenon DEF Copying
  <2>. QED
    BY <1>1, <2>1, Zenon
<1>8. HasParent'
  <2>1. ASSUME NEW q \in Proc, pc'[q] = "new"
        PROVE  \E o \in Proc : pc'[o] \in Copying /\ child'[o] = q
    <3>1. PICK o \in Proc : pc[o] \in Copying /\ child[o] = q
      BY <1>3, <2>1, Zenon DEF TableOK, HasParent
    <3>. QED
      BY <1>1, <3>1, Zenon
  <2>. QED
    BY <2>1, Zenon DEF HasParent
<1>9. Copied'
  BY <1>7 DEF TableOK, Copied
<1>10. ToCopy'
  BY <1>7 DEF TableOK, ToCopy, Copying
<1>11. Shared'
  <2>1. \A q \in Proc : pc[q] = "addref" => va[q] \in Va
    BY DEF CowConstants, TableOK, Shared, TypeOK, Va
  <2>. QED
    BY <1>7, <2>1 DEF TableOK, Shared, Copying
<1>12. OneParent'
  BY <1>7 DEF TableOK, OneParent
<1>13. HasChild'
  BY <1>3, Zenon DEF TableOK, HasChild
<1>. QED
  BY <1>4, <1>5, <1>6, <1>8, <1>9, <1>10, <1>11, <1>12, <1>13, Zenon DEF TableOK

\* A step that leaves the page tables alone.
LEMMA TableSame ==
  ASSUME CowConstants, TypeOK, TableOK, NEW p \in Proc, sz' = sz, pt' = pt,
         pc[p] \in Faulting \cup {"user", "out", "drop", "unwind"},
         pc'[p] \in Faulting \cup {"user", "out", "drop"} \/ (pc'[p] = "exit" /\ va'[p] = 0),
         \A q \in Proc : q # p => pc'[q] = pc[q] /\ va'[q] = va[q] /\ child'[q] = child[q]
  PROVE  TableOK'
<1>1. pc[p] \notin {"new", "exit"}
  BY Zenon DEF Faulting
<1>2. \A b \in Va : b >= sz[p] => pt[p][b] = NULL
  BY <1>1, Zenon DEF TableOK, BelowSize
<1>. QED
  BY <1>2, TableStep, Zenon

\* What FaultOK says of a process stays: its PTEs and what it does are the same.
SameFault(q) ==
  /\ \A b \in Va : pt'[q][b] = pt[q][b]
  /\ pc'[q] \in Faulting => pc[q] \in Faulting /\ va'[q] = va[q] /\ pa'[q] = pa[q]
  /\ pc'[q] \in {"drop", "out"} =>
       /\ pc[q] = pc'[q] /\ va'[q] = va[q]
       /\ pa'[q] = pa[q] /\ new'[q] = new[q] /\ out'[q] = out[q]

LEMMA FaultStep ==
  ASSUME FaultOK, \A q \in Proc : SameFault(q) \/ FaultAt(q)'
  PROVE  FaultOK'
<1>1. ASSUME NEW q \in Proc, SameFault(q)
      PROVE  FaultAt(q)'
  <2>1. FaultAt(q)
    BY Zenon DEF FaultOK
  <2>2. CASE pc'[q] \in Faulting
    BY <1>1, <2>1, <2>2 DEF FaultAt, SameFault, Faulting
  <2>3. CASE pc'[q] = "drop"
    BY <1>1, <2>1, <2>3 DEF FaultAt, SameFault, Faulting
  <2>4. CASE pc'[q] = "out"
    BY <1>1, <2>1, <2>4 DEF FaultAt, SameFault, Faulting
  <2>. QED
    BY <2>2, <2>3, <2>4, Zenon DEF FaultAt
<1>. QED
  BY <1>1, Zenon DEF FaultOK

\* A step that leaves the page tables alone and allocates nothing.
LEMMA OwnStep ==
  ASSUME OwnOK, pt' = pt,
         \A q \in Proc :
           /\ pc'[q] \in {"copy", "map"} => pc[q] \in {"copy", "map"} /\ new'[q] = new[q]
           /\ pc'[q] = "drop" => pc[q] = "drop" /\ pa'[q] = pa[q]
           /\ pc'[q] = "own" => Sole(q, va'[q], pa'[q])
           /\ pc'[q] = "map" => mem'[new'[q]] = mem'[pa'[q]]
  PROVE  OwnOK'
<1>1. \A q \in Proc : \A b \in Va : \A r : Maps(q, b, r)' <=> Maps(q, b, r)
  BY Zenon DEF Maps
<1>2. \A q \in Proc : \A b, r : Sole(q, b, r) => Sole(q, b, r)'
  BY <1>1 DEF Sole
<1>3. WritableSole'
  BY <1>2, Zenon DEF OwnOK, WritableSole
<1>4. OwnSole'
  BY <1>2, Zenon DEF OwnSole
<1>5. NewSole'
  BY <1>1 DEF OwnOK, NewSole
<1>6. NewCopied'
  BY Zenon DEF NewCopied
<1>. QED
  BY <1>3, <1>4, <1>5, <1>6, Zenon DEF OwnOK

\* A step that leaves the references alone.
LEMMA RefsStep ==
  ASSUME CountExact, pt' = pt, cnt' = cnt,
         \A q \in Proc :
           /\ pc'[q] \in {"copy", "map"} <=> pc[q] \in {"copy", "map"}
           /\ pc'[q] = "drop" <=> pc[q] = "drop"
           /\ pc'[q] = "addref" <=> pc[q] = "addref"
           /\ pc[q] \in {"copy", "map"} => new'[q] = new[q]
           /\ pc[q] = "drop" => pa'[q] = pa[q]
           /\ pc[q] = "addref" => va'[q] = va[q] /\ child'[q] = child[q]
  PROVE  CountExact'
<1>1. \A q, b : Uncounted(q, b)' <=> Uncounted(q, b)
  BY Zenon DEF Uncounted
<1>2. \A r : \A q \in Proc : \A b : Ref(q, b, r)' <=> Ref(q, b, r)
  BY <1>1 DEF Ref
<1>. QED
  BY <1>2, SameRefs, Zenon


LEMMA InitIInv ==
  ASSUME CowConstants, Counting PROVE Init => Inv
<1>. SUFFICES ASSUME Init PROVE IInv
  BY Zenon DEF Inv
<1>1. \A p \in Proc : pc[p] \in {"user", "unused"} /\ (pc[p] = "unused" => sz[p] = 0)
  BY Zenon DEF Init
<1>2. \A p \in Proc : \A a \in Va : pt[p][a] = NULL
  BY Zenon DEF Init
<1>3. TypeOK
  <2>1. sz \in [Proc -> 0 .. NVA] /\ pc \in [Proc -> Label]
    BY DEF Init, CowConstants, Label
  <2>. QED
    BY <2>1 DEF CowConstants, Init, TypeOK, PteOrNull
<1>4. FaultOK
  BY <1>1, Zenon DEF FaultOK, FaultAt, Faulting
<1>5. TableOK
  BY Zenon DEF Init, TableOK, BelowSize, NoSize, Cleared, Copied, ToCopy, Shared, OneParent,
         HasParent, HasChild, Copying
<1>6. OwnOK
  BY <1>1, <1>2, Zenon DEF OwnOK, WritableSole, OwnSole, NewSole, NewCopied
<1>7. CountExact
  <2>1. \A r \in Page : Refs(r) = {}
    BY <1>1, <1>2, Zenon DEF Refs, Ref
  <2>. QED
    BY <2>1, Zenon DEF Init, CountExact, Counting
<1>. QED
  BY <1>3, <1>4, <1>5, <1>6, <1>7, Zenon DEF IInv

LEMMA StoreIInv ==
  ASSUME CowConstants, Counting, Inv, NEW p \in Proc, NEW a \in Va,
         NEW v \in Val, store(p, a, v)
  PROVE  Inv'
<1>. SUFFICES ASSUME IInv PROVE IInv'
  BY Zenon DEF Inv
<1>1. /\ pt[p][a] # NULL /\ pt[p][a].w /\ pt[p][a].pa \in Page
      /\ mem' = [mem EXCEPT ![pt[p][a].pa] = v] /\ pc[p] = "user"
      /\ UNCHANGED <<sz, pt, cnt, pc, va, pa, new, out, child>>
  BY PteType, Zenon DEF store, IInv
<1>2. Sole(p, a, pt[p][a].pa)
  BY <1>1, Zenon DEF IInv, OwnOK, WritableSole
<1>3. \A q \in Proc : pc[q] = "map" => new[q] # pt[p][a].pa /\ pa[q] # pt[p][a].pa
  BY <1>1, <1>2, PteType DEF IInv, FaultOK, FaultAt, Faulting, Sole, Maps
<1>4. TypeOK'
  BY <1>1, Zenon DEF IInv, TypeOK
<1>5. FaultOK'
  BY <1>1, FaultStep, Zenon DEF IInv, SameFault
<1>6. TableOK'
  BY <1>1, TableSame, Zenon DEF IInv
<1>7. OwnOK'
  <2>1. \A q \in Proc : pc[q] = "map" => mem'[new[q]] = mem'[pa[q]]
    BY <1>1, <1>3 DEF IInv, TypeOK, OwnOK, NewCopied
  <2>. QED
    BY <1>1, <2>1, OwnStep, Zenon DEF IInv, OwnOK, OwnSole
<1>8. CountExact'
  BY <1>1, RefsStep, Zenon DEF IInv
<1>. QED
  BY <1>4, <1>5, <1>6, <1>7, <1>8, Zenon DEF IInv

LEMMA CheckIInv ==
  ASSUME CowConstants, Counting, Inv, NEW p \in Proc, cow_check(p)
  PROVE  Inv'
<1>. SUFFICES ASSUME IInv PROVE IInv'
  BY Zenon DEF Inv
<1>1. /\ pc[p] = "cow" /\ pc' = [pc EXCEPT ![p] = IF cnt[pa[p]] = 1 THEN "own" ELSE "alloc"]
      /\ UNCHANGED <<sz, pt, cnt, mem, va, pa, new, out, child>>
  BY Zenon DEF cow_check, goto
<1>2. /\ pc'[p] \in {"own", "alloc"} /\ (pc'[p] = "own" => cnt[pa[p]] = 1)
      /\ \A q \in Proc : q # p => pc'[q] = pc[q]
  BY <1>1, Zenon DEF IInv, TypeOK
<1>3. va[p] \in Va /\ pt[p][va[p]] # NULL /\ pt[p][va[p]].pa = pa[p] /\ pa[p] \in Page
  BY <1>1, PteType DEF IInv, FaultOK, FaultAt, Faulting
<1>4. cnt[pa[p]] = 1 => Sole(p, va[p], pa[p])
  <2>1. ~ Uncounted(p, va[p])
    BY <1>1, Zenon DEF IInv, TableOK, Copied, Uncounted, Copying
  <2>2. va[p] \in 0 .. NVA + 1 /\ Ref(p, va[p], pa[p]) /\ va[p] # NVA /\ va[p] # NVA + 1
    BY <1>3, <2>1 DEF CowConstants, Ref, Va
  <2>. QED
    BY <1>1, <1>3, <2>2, LastRef DEF Sole
<1>5. TypeOK'
  BY <1>1, Zenon DEF IInv, TypeOK, Label, Faulting
<1>6. FaultOK'
  BY <1>1, <1>2, FaultStep, Zenon DEF IInv, SameFault, Faulting
<1>7. TableOK'
  BY <1>1, <1>2, TableSame, Zenon DEF IInv, Faulting
<1>8. OwnOK'
  BY <1>1, <1>2, <1>4, OwnStep, Zenon DEF IInv, OwnOK, OwnSole, NewCopied
<1>9. CountExact'
  BY <1>1, <1>2, RefsStep, Zenon DEF IInv
<1>. QED
  BY <1>5, <1>6, <1>7, <1>8, <1>9, Zenon DEF IInv

\* The contents of pages that others have mapped stay when kfree() drops a reference.
LEMMA KfreeMem ==
  ASSUME CowConstants, Counting, Inv, NEW r \in Page, kfree(r),
         NEW p \in Proc, NEW a \in 0 .. NVA + 1, Ref(p, a, r), pc[p] \notin {"addref", "copy", "map"}
  PROVE  /\ mem' \in [Page -> Val \cup {JUNK}]
         /\ cnt' \in [Page -> Int]
         /\ \A q \in Proc : \A b \in Va : pt[q][b] # NULL /\ ~ (q = p /\ b = a)
              => mem'[pt[q][b].pa] = mem[pt[q][b].pa]
         /\ \A q \in Proc : pc[q] = "map" => mem'[new[q]] = mem'[pa[q]]
<1>. SUFFICES ASSUME IInv
             PROVE  /\ mem' \in [Page -> Val \cup {JUNK}]
                    /\ cnt' \in [Page -> Int]
                    /\ \A q \in Proc : \A b \in Va : pt[q][b] # NULL /\ ~ (q = p /\ b = a)
                         => mem'[pt[q][b].pa] = mem[pt[q][b].pa]
                    /\ \A q \in Proc : pc[q] = "map" => mem'[new[q]] = mem'[pa[q]]
  BY Zenon DEF Inv
<1>1. mem' \in [Page -> Val \cup {JUNK}] /\ cnt' \in [Page -> Int]
  BY DEF kfree, IInv, TypeOK
<1>2. \A s \in Page : (s = r => cnt[r] # 1) => mem'[s] = mem[s]
  BY DEF kfree
<1>3. ASSUME NEW q \in Proc, NEW b \in Va, pt[q][b] # NULL, ~ (q = p /\ b = a)
      PROVE  mem'[pt[q][b].pa] = mem[pt[q][b].pa]
  <2>1. pt[q][b].pa \in Page
    BY <1>3 DEF IInv, TypeOK, PteOrNull, Pte
  <2>2. pt[q][b].pa = r => cnt[r] # 1
    BY <1>3, LastRef DEF Maps
  <2>. QED
    BY <1>2, <2>1, <2>2, Zenon
<1>4. ASSUME NEW q \in Proc, pc[q] = "map"
      PROVE  mem'[new[q]] = mem'[pa[q]]
  <2>1. q # p /\ va[q] \in Va /\ pt[q][va[q]] # NULL /\ pt[q][va[q]].pa = pa[q]
    BY <1>4, Zenon DEF IInv, FaultOK, FaultAt, Faulting
  <2>2. mem'[pa[q]] = mem[pa[q]]
    BY <1>3, <2>1, Zenon
  <2>3. new[q] \in Page /\ (new[q] = r => cnt[r] # 1)
    BY <1>4, LastRef DEF IInv, OwnOK, NewSole
  <2>4. mem'[new[q]] = mem[new[q]]
    BY <1>2, <2>3, Zenon
  <2>. QED
    BY <1>4, <2>2, <2>4, Zenon DEF IInv, OwnOK, NewCopied
<1>. QED
  BY <1>1, <1>3, <1>4, Zenon

LEMMA ExitIInv ==
  ASSUME CowConstants, Counting, Inv, NEW p \in Proc, exit(p)
  PROVE  Inv'
<1>. SUFFICES ASSUME IInv PROVE IInv'
  BY Zenon DEF Inv
<1>1. /\ pc[p] = "user" /\ pc' = [pc EXCEPT ![p] = "exit"] /\ va' = [va EXCEPT ![p] = 0]
      /\ UNCHANGED <<sz, pt, cnt, mem, pa, new, out, child>>
  BY Zenon DEF exit, goto
<1>2. /\ pc'[p] = "exit" /\ va'[p] = 0
      /\ \A q \in Proc : q # p => pc'[q] = pc[q] /\ va'[q] = va[q]
  BY <1>1, Zenon DEF IInv, TypeOK
<1>3. TypeOK'
  BY <1>1 DEF CowConstants, IInv, TypeOK, Label
<1>4. FaultOK'
  BY <1>1, <1>2, FaultStep, Zenon DEF IInv, SameFault, Faulting
<1>5. TableOK'
  BY <1>1, <1>2, TableSame, Zenon DEF IInv
<1>6. OwnOK'
  BY <1>1, <1>2, OwnStep DEF IInv, OwnOK, OwnSole, NewCopied
<1>7. CountExact'
  BY <1>1, <1>2, RefsStep, Zenon DEF IInv
<1>. QED
  BY <1>3, <1>4, <1>5, <1>6, <1>7, Zenon DEF IInv

LEMMA CowpageIInv ==
  ASSUME CowConstants, Counting, Inv, NEW p \in Proc, NEW a \in Va,
         NEW v \in Val \cup {NULL}, cowpage(p, a, v)
  PROVE  Inv'
<1>. SUFFICES ASSUME IInv PROVE IInv'
  BY Zenon DEF Inv
<1>1. /\ pc[p] = "user" /\ pt[p][a] # NULL /\ pt[p][a].f /\ pt[p][a].pa \in Page
      /\ pc' = [pc EXCEPT ![p] = "cow"] /\ va' = [va EXCEPT ![p] = a]
      /\ pa' = [pa EXCEPT ![p] = pt[p][a].pa] /\ out' = [out EXCEPT ![p] = v]
      /\ UNCHANGED <<sz, pt, cnt, mem, new, child>>
  BY PteType, Zenon DEF cowpage, goto, IInv
<1>2. /\ pc'[p] = "cow" /\ va'[p] = a /\ pa'[p] = pt[p][a].pa
      /\ \A q \in Proc : q # p => /\ pc'[q] = pc[q] /\ va'[q] = va[q]
                                 /\ pa'[q] = pa[q] /\ out'[q] = out[q]
  BY <1>1, Zenon DEF IInv, TypeOK
<1>3. TypeOK'
  BY <1>1 DEF CowConstants, IInv, TypeOK, Label, Faulting, Va
<1>4. FaultOK'
  <2>1. FaultAt(p)'
    BY <1>1, <1>2, Zenon DEF FaultAt
  <2>2. \A q \in Proc : q # p => SameFault(q)
    BY <1>1, <1>2, Zenon DEF SameFault
  <2>. QED
    BY <2>1, <2>2, FaultStep, Zenon DEF IInv
<1>5. TableOK'
  BY <1>1, <1>2, TableSame, Zenon DEF IInv, Faulting
<1>6. OwnOK'
  BY <1>1, <1>2, OwnStep DEF IInv, OwnOK, OwnSole, NewCopied
<1>7. CountExact'
  BY <1>1, <1>2, RefsStep, Zenon DEF IInv
<1>. QED
  BY <1>3, <1>4, <1>5, <1>6, <1>7, Zenon DEF IInv

LEMMA CopyoutIInv ==
  ASSUME CowConstants, Counting, Inv, NEW p \in Proc, NEW a \in Va,
         NEW v \in Val, copyout(p, a, v)
  PROVE  Inv'
<1>. SUFFICES ASSUME IInv PROVE IInv'
  BY Zenon DEF Inv
<1>1. /\ pc[p] = "user" /\ pt[p][a] # NULL /\ pt[p][a].w /\ pt[p][a].pa \in Page
      /\ pc' = [pc EXCEPT ![p] = "out"]
      /\ pa' = [pa EXCEPT ![p] = pt[p][a].pa] /\ out' = [out EXCEPT ![p] = v]
      /\ UNCHANGED <<sz, pt, cnt, mem, va, new, child>>
  BY PteType, Zenon DEF copyout, goto, IInv
<1>2. /\ pc'[p] = "out" /\ pa'[p] = pt[p][a].pa /\ out'[p] = v
      /\ \A q \in Proc : q # p => pc'[q] = pc[q] /\ pa'[q] = pa[q] /\ out'[q] = out[q]
  BY <1>1, Zenon DEF IInv, TypeOK
<1>3. TypeOK'
  BY <1>1, Zenon DEF IInv, TypeOK, Label
<1>4. FaultOK'
  <2>1. FaultAt(p)'
    BY <1>1, <1>2, Zenon DEF FaultAt, Faulting
  <2>2. \A q \in Proc : q # p => SameFault(q)
    BY <1>1, <1>2, Zenon DEF SameFault
  <2>. QED
    BY <2>1, <2>2, FaultStep, Zenon DEF IInv
<1>5. TableOK'
  BY <1>1, <1>2, TableSame, Zenon DEF IInv
<1>6. OwnOK'
  BY <1>1, <1>2, OwnStep DEF IInv, OwnOK, OwnSole, NewCopied
<1>7. CountExact'
  BY <1>1, <1>2, RefsStep, Zenon DEF IInv
<1>. QED
  BY <1>3, <1>4, <1>5, <1>6, <1>7, Zenon DEF IInv

LEMMA WriteIInv ==
  ASSUME CowConstants, Counting, Inv, NEW p \in Proc, copyout_write(p)
  PROVE  Inv'
<1>. SUFFICES ASSUME IInv PROVE IInv'
  BY Zenon DEF Inv
<1>1. /\ pc[p] = "out" /\ pc' = [pc EXCEPT ![p] = "user"] /\ mem' = [mem EXCEPT ![pa[p]] = out[p]]
      /\ pa' = [pa EXCEPT ![p] = NULL] /\ out' = [out EXCEPT ![p] = NULL]
      /\ UNCHANGED <<sz, pt, cnt, va, new, child>>
  BY Zenon DEF copyout_write, goto
<1>2. /\ pc'[p] = "user"
      /\ \A q \in Proc : q # p => pc'[q] = pc[q] /\ pa'[q] = pa[q] /\ out'[q] = out[q]
  BY <1>1, Zenon DEF IInv, TypeOK
<1>3. PICK a \in Va : pt[p][a] # NULL /\ pt[p][a].w /\ pt[p][a].pa = pa[p]
  BY <1>1, Zenon DEF IInv, FaultOK, FaultAt
<1>4. pa[p] \in Page /\ out[p] \in Val /\ Sole(p, a, pa[p])
  BY <1>1, <1>3, PteType, Zenon DEF IInv, FaultOK, FaultAt, OwnOK, WritableSole
<1>5. \A q \in Proc : pc[q] = "map" => new[q] # pa[p] /\ pa[q] # pa[p]
  BY <1>1, <1>4 DEF IInv, FaultOK, FaultAt, Faulting, Sole, Maps
<1>6. TypeOK'
  BY <1>1, <1>4, Zenon DEF IInv, TypeOK, Label
<1>7. FaultOK'
  BY <1>1, <1>2, FaultStep, Zenon DEF IInv, SameFault, Faulting
<1>8. TableOK'
  BY <1>1, <1>2, TableSame, Zenon DEF IInv
<1>9. OwnOK'
  <2>1. \A q \in Proc : pc[q] = "map" => mem'[new[q]] = mem'[pa[q]]
    BY <1>1, <1>5 DEF IInv, TypeOK, OwnOK, NewCopied
  <2>. QED
    BY <1>1, <1>2, <2>1, OwnStep DEF IInv, OwnOK, OwnSole
<1>10. CountExact'
  BY <1>1, <1>2, RefsStep, Zenon DEF IInv
<1>. QED
  BY <1>6, <1>7, <1>8, <1>9, <1>10, Zenon DEF IInv

LEMMA ForkIInv ==
  ASSUME CowConstants, Counting, Inv, NEW p \in Proc, NEW q \in Proc, fork(p, q)
  PROVE  Inv'
<1>. SUFFICES ASSUME IInv PROVE IInv'
  BY Zenon DEF Inv
<1>1. /\ pc[p] = "user" /\ pc[q] = "unused" /\ p # q
      /\ UNCHANGED <<sz, pt, cnt, mem, pa, new, out>>
  BY Zenon DEF fork
<1>2. /\ pc' = [pc EXCEPT ![p] = "fork", ![q] = "new"]
      /\ va' = [va EXCEPT ![p] = 0] /\ child' = [child EXCEPT ![p] = q]
  BY Zenon DEF fork
<1>3. /\ pc'[p] = "fork" /\ pc'[q] = "new" /\ \A o \in Proc : o # p /\ o # q => pc'[o] = pc[o]
      /\ va'[p] = 0 /\ \A o \in Proc : o # p => va'[o] = va[o]
      /\ child'[p] = q /\ \A o \in Proc : o # p => child'[o] = child[o]
  BY <1>1, <1>2, Zenon DEF IInv, TypeOK
<1>4. sz[q] = 0 /\ va[q] = 0 /\ \A a \in Va : pt[q][a] = NULL
  BY <1>1 DEF IInv, TableOK, BelowSize, NoSize, Va
<1>5. \A o \in Proc : sz[o] \in Nat
  BY DEF IInv, TypeOK
<1>6. TypeOK'
  BY <1>1, <1>2 DEF CowConstants, IInv, TypeOK, Label, Copying
<1>7. FaultOK'
  BY <1>1, <1>3, FaultStep, Zenon DEF IInv, SameFault, Faulting
<1>8. TableOK'
  <2>1. TableOK
    BY Zenon DEF IInv
  <2>2. \A o \in Proc : pc[o] \in Copying => /\ o # p /\ o # q /\ child[o] \in Proc
                                            /\ child[o] # p /\ child[o] # q
    BY <1>1, <2>1, Zenon DEF TableOK, Copied, Copying
  <2>3. BelowSize'
    BY <1>1, <1>3, <2>1, Zenon DEF TableOK, BelowSize
  <2>4. NoSize' /\ Cleared' /\ HasChild'
    BY <1>1, <1>3, <1>4, <2>1 DEF TableOK, NoSize, Cleared, HasChild
  <2>5. Copied'
    BY <1>1, <1>3, <1>4, <1>5, <2>1, <2>2 DEF TableOK, Copied, Copying, Va
  <2>6. ToCopy' /\ Shared'
    BY <1>1, <1>3, <1>4, <2>1, <2>2 DEF TableOK, ToCopy, Shared, Copying
  <2>7. OneParent'
    BY <1>3, <2>1, <2>2 DEF TableOK, OneParent, Copying
  <2>8. HasParent'
    BY <1>3, <2>1, <2>2 DEF TableOK, HasParent, Copying
  <2>. QED
    BY <2>3, <2>4, <2>5, <2>6, <2>7, <2>8, Zenon DEF TableOK
<1>9. OwnOK'
  BY <1>1, <1>3, OwnStep DEF IInv, OwnOK, OwnSole, NewCopied
<1>10. CountExact'
  BY <1>1, <1>3, RefsStep, Zenon DEF IInv
<1>. QED
  BY <1>6, <1>7, <1>8, <1>9, <1>10, Zenon DEF IInv

LEMMA ForkDoneIInv ==
  ASSUME CowConstants, Counting, Inv, NEW p \in Proc, fork_done(p)
  PROVE  Inv'
<1>. SUFFICES ASSUME IInv PROVE IInv'
  BY Zenon DEF Inv
<1>0. PICK q \in Proc : q = child[p]
  BY Zenon DEF fork_done, IInv, TableOK, Copied, Copying
<1>1. /\ pc[p] = "fork" /\ pc[q] = "new" /\ q # p /\ va[p] = sz[p]
      /\ UNCHANGED <<pt, cnt, mem, pa, new, out>>
  BY <1>0, Zenon DEF fork_done, IInv, TableOK, Copied, Copying
<1>2. /\ sz' = [sz EXCEPT ![q] = sz[p]]
      /\ pc' = [pc EXCEPT ![p] = "user", ![q] = "user"]
      /\ child' = [child EXCEPT ![p] = NULL] /\ va' = [va EXCEPT ![p] = 0]
  BY <1>0, Zenon DEF fork_done
<1>3. /\ pc'[p] = "user" /\ pc'[q] = "user" /\ \A o \in Proc : o # p /\ o # q => pc'[o] = pc[o]
      /\ va'[p] = 0 /\ \A o \in Proc : o # p => va'[o] = va[o]
      /\ \A o \in Proc : o # p => child'[o] = child[o]
      /\ sz'[q] = sz[p] /\ \A o \in Proc : o # q => sz'[o] = sz[o]
  BY <1>1, <1>2, Zenon DEF IInv, TypeOK
<1>4. \A a \in Va : a >= sz[p] => pt[q][a] = NULL
  <2>1. sz[p] \in Nat
    BY DEF IInv, TypeOK
  <2>2. \A a \in Va : a >= sz[p] => a > sz[p] \/ a = sz[p]
    BY <2>1 DEF Va
  <2>. QED
    BY <1>0, <1>1, <2>2 DEF IInv, TableOK, Copied, ToCopy, Copying
<1>5. TypeOK'
  <2>1. sz' \in [Proc -> 0 .. NVA] /\ va' \in [Proc -> 0 .. NVA]
    BY <1>2 DEF CowConstants, IInv, TypeOK
  <2>2. pc' \in [Proc -> Label]
    BY <1>2, Zenon DEF IInv, TypeOK, Label
  <2>3. child' \in [Proc -> Proc \cup {NULL}]
    BY <1>2, Zenon DEF IInv, TypeOK
  <2>. QED
    BY <1>1, <2>1, <2>2, <2>3, Zenon DEF IInv, TypeOK
<1>6. FaultOK'
  BY <1>1, <1>3, FaultStep, Zenon DEF IInv, SameFault, Faulting
<1>7. TableOK'
  <2>1. TableOK
    BY Zenon DEF IInv
  <2>2. \A o \in Proc : pc[o] \in Copying => /\ o # q /\ child[o] \in Proc /\ child[o] # p
                                            /\ (o # p => child[o] # q)
    BY <1>0, <1>1, <2>1, Zenon DEF TableOK, Copied, OneParent, Copying
  <2>3. BelowSize'
    BY <1>1, <1>3, <1>4, <2>1, Zenon DEF TableOK, BelowSize
  <2>4. NoSize' /\ Cleared' /\ HasChild'
    BY <1>1, <1>3, <2>1 DEF TableOK, NoSize, Cleared, HasChild
  <2>5. Copied'
    BY <1>1, <1>3, <2>1, <2>2 DEF TableOK, Copied, Copying
  <2>6. ToCopy' /\ Shared'
    BY <1>1, <1>3, <2>1, <2>2 DEF TableOK, ToCopy, Shared, Copying
  <2>7. OneParent'
    BY <1>3, <2>1 DEF TableOK, OneParent, Copying
  <2>8. HasParent'
    BY <1>0, <1>1, <1>3, <2>1 DEF TableOK, HasParent, Copying
  <2>. QED
    BY <2>3, <2>4, <2>5, <2>6, <2>7, <2>8, Zenon DEF TableOK
<1>8. OwnOK'
  BY <1>1, <1>3, OwnStep DEF IInv, OwnOK, OwnSole, NewCopied
<1>9. CountExact'
  BY <1>1, <1>3, RefsStep, Zenon DEF IInv
<1>. QED
  BY <1>5, <1>6, <1>7, <1>8, <1>9, Zenon DEF IInv

LEMMA ForkFailIInv ==
  ASSUME CowConstants, Counting, Inv, NEW p \in Proc, fork_fail(p)
  PROVE  Inv'
<1>. SUFFICES ASSUME IInv PROVE IInv'
  BY Zenon DEF Inv
<1>1. /\ pc[p] = "unwind" /\ pc' = [pc EXCEPT ![p] = "user"]
      /\ child' = [child EXCEPT ![p] = NULL] /\ va' = [va EXCEPT ![p] = 0]
      /\ UNCHANGED <<sz, pt, cnt, mem, pa, new, out>>
  BY Zenon DEF fork_fail, goto
<1>2. /\ pc'[p] = "user"
      /\ \A q \in Proc : q # p => pc'[q] = pc[q] /\ va'[q] = va[q] /\ child'[q] = child[q]
  BY <1>1, Zenon DEF IInv, TypeOK
<1>3. TypeOK'
  BY <1>1 DEF CowConstants, IInv, TypeOK, Label
<1>4. FaultOK'
  BY <1>1, <1>2, FaultStep, Zenon DEF IInv, SameFault, Faulting
<1>5. TableOK'
  BY <1>1, <1>2, TableSame, Zenon DEF IInv
<1>6. OwnOK'
  BY <1>1, <1>2, OwnStep DEF IInv, OwnOK, OwnSole, NewCopied
<1>7. CountExact'
  BY <1>1, <1>2, RefsStep, Zenon DEF IInv
<1>. QED
  BY <1>3, <1>4, <1>5, <1>6, <1>7, Zenon DEF IInv

\* The PTE of a page that only this process has.
LEMMA NewPte ==
  ASSUME CowConstants, NEW r \in Page
  PROVE  LET e == [pa |-> r, w |-> TRUE, f |-> FALSE]
         IN  e \in PteOrNull /\ e # NULL /\ e.pa = r /\ e.w /\ ~ e.f
<1>. DEFINE e == [pa |-> r, w |-> TRUE, f |-> FALSE]
<1>1. e \in Pte
  BY Zenon DEF Pte
<1>2. e.pa = r /\ e.w /\ ~ e.f
  BY Zenon
<1>3. e # NULL
  BY <1>1, Zenon DEF CowConstants
<1>. QED
  BY <1>1, <1>3, Zenon DEF PteOrNull

\* A process that runs is not the child of a fork() in progress.
LEMMA NotChild ==
  ASSUME Inv, NEW p \in Proc, pc[p] # "new"
  PROVE  /\ \A a : ~ Uncounted(p, a)
         /\ \A q \in Proc : pc[q] \in Copying => child[q] # p
<1>. SUFFICES ASSUME IInv
             PROVE   /\ \A a : ~ Uncounted(p, a)
               /\ \A q \in Proc : pc[q] \in Copying => child[q] # p
  BY Zenon DEF Inv
<1>. QED
  BY Zenon DEF IInv, TableOK, Copied, Copying, Uncounted

\* usertrap(): a page is allocated.
LazyPage(p, a, r) ==
  /\ pc[p] = "user" /\ a < sz[p] /\ pt[p][a] = NULL
  /\ kalloc(r) /\ mem' = [mem EXCEPT ![r] = 0]
  /\ setpte(p, a, [pa |-> r, w |-> TRUE, f |-> FALSE])
  /\ UNCHANGED <<sz, pc, va, pa, new, out, child>>

LEMMA LazyIInv ==
  ASSUME CowConstants, Counting, Inv, NEW p \in Proc, NEW a \in Va,
         NEW r \in Page, LazyPage(p, a, r)
  PROVE  Inv'
<1>. SUFFICES ASSUME IInv PROVE IInv'
  BY Zenon DEF Inv
<1>0. /\ pc[p] = "user" /\ a < sz[p] /\ pt[p][a] = NULL
      /\ UNCHANGED <<sz, pc, va, pa, new, out, child>>
  BY Zenon DEF LazyPage
<1>1. cnt[r] = 0 /\ cnt' = [cnt EXCEPT ![r] = cnt[r] + 1]
  BY DEF LazyPage, kalloc
<1>1a. cnt'[r] = cnt[r] + 1 /\ \A s \in Page \ {r} : cnt'[s] = cnt[s]
  BY <1>1, Zenon DEF IInv, TypeOK
<1>2. \A q \in Proc : /\ \A b \in Va : ~ Maps(q, b, r)
                      /\ pc[q] \in {"copy", "map"} => new[q] # r
                      /\ pc[q] = "drop" => pa[q] # r
  BY <1>1, FreePage, Zenon
<1>3. /\ pt' \in [Proc -> [Va -> PteOrNull]]
      /\ pt'[p][a] # NULL /\ pt'[p][a].pa = r /\ pt'[p][a].w /\ ~ pt'[p][a].f
      /\ \A q \in Proc : \A b \in Va : ~ (q = p /\ b = a) => pt'[q][b] = pt[q][b]
  BY NewPte, SetPte DEF LazyPage, IInv
<1>4a. mem' \in [Page -> Val \cup {JUNK}]
  BY Zenon DEF LazyPage, CowConstants, IInv, TypeOK
<1>4. \A s \in Page \ {r} : mem'[s] = mem[s]
  BY DEF LazyPage
<1>5. \A q \in Proc : pc[q] = "map" => pa[q] \in Page /\ pa[q] # r /\ new[q] \in Page
  <2>. SUFFICES ASSUME NEW q \in Proc, pc[q] = "map"
                PROVE  pa[q] \in Page /\ pa[q] # r /\ new[q] \in Page
    BY Zenon
  <2>1. va[q] \in Va /\ Maps(q, va[q], pa[q]) /\ new[q] \in Page
    BY Zenon DEF IInv, FaultOK, FaultAt, Faulting, Maps, OwnOK, NewSole
  <2>. QED
    BY <1>2, <2>1, PteType, Zenon DEF IInv, Maps
<1>6. TypeOK'
  <2>1. cnt' \in [Page -> Int]
    BY <1>1 DEF IInv, TypeOK
  <2>. QED
    BY <1>0, <1>3, <1>4a, <2>1, Zenon DEF IInv, TypeOK
<1>7. FaultOK'
  <2>1. FaultAt(p)'
    BY <1>0, Zenon DEF FaultAt, Faulting
  <2>2. \A q \in Proc : q # p => SameFault(q)
    BY <1>0, <1>3, Zenon DEF SameFault
  <2>. QED
    BY <2>1, <2>2, FaultStep, Zenon DEF IInv
<1>8. TableOK'
  <2>1. TypeOK /\ TableOK
    BY Zenon DEF IInv
  <2>2. a \in Int /\ sz[p] \in Int /\ \A b \in Va : b \in Int
    BY <2>1 DEF TypeOK, Va
  <2>3. \A b \in Va : b >= sz[p] => b # a
    BY <1>0, <2>2
  <2>4. \A b \in Va : b >= sz[p] => pt[p][b] = NULL
    BY <1>0, <2>1, Zenon DEF TableOK, BelowSize
  <2>. QED
    BY <1>0, <1>3, <2>1, <2>3, <2>4, TableStep, Zenon
<1>9. OwnOK'
  <2>1. \A q \in Proc : \A b \in Va : \A s :
          Maps(q, b, s)' <=> Maps(q, b, s) \/ (q = p /\ b = a /\ s = r)
    BY <1>0, <1>3, Zenon DEF Maps
  <2>2. ASSUME NEW q \in Proc, NEW b \in Va, pt'[q][b] # NULL, pt'[q][b].w
        PROVE  Sole(q, b, pt[q][b].pa)'
    <3>1. CASE q = p /\ b = a
      BY <1>0, <1>2, <1>3, <2>1, <3>1 DEF Sole
    <3>2. CASE ~ (q = p /\ b = a)
      <4>1. pt'[q][b] = pt[q][b] /\ Sole(q, b, pt[q][b].pa) /\ Maps(q, b, pt[q][b].pa)
        BY <1>3, <2>2, <3>2, Zenon DEF IInv, OwnOK, WritableSole, Maps
      <4>. QED
        BY <1>0, <1>2, <2>1, <4>1 DEF Sole
    <3>. QED
      BY <3>1, <3>2, Zenon
  <2>3. \A q \in Proc : pc[q] = "own" => Sole(q, va[q], pa[q])'
    <3>1. \A q \in Proc : pc[q] = "own" => Sole(q, va[q], pa[q]) /\ pa[q] # r
      BY <1>2 DEF IInv, OwnOK, OwnSole, FaultOK, FaultAt, Faulting, Maps
    <3>. QED
      BY <1>0, <2>1, <3>1, Zenon DEF Sole
  <2>4. \A q \in Proc : pc[q] \in {"copy", "map"}
            => \A o \in Proc : \A b \in Va : ~ Maps(o, b, new[q])'
    BY <1>0, <1>2, <2>1, Zenon DEF IInv, OwnOK, NewSole
  <2>5. \A q \in Proc : pc[q] = "map" => mem'[new[q]] = mem'[pa[q]]
    BY <1>2, <1>4, <1>5, Zenon DEF IInv, OwnOK, NewCopied
  <2>. QED
    BY <1>0, <2>2, <2>3, <2>4, <2>5, Zenon
       DEF IInv, OwnOK, WritableSole, OwnSole, NewSole, NewCopied
<1>10. CountExact'
  <2>0. a \in 0 .. NVA + 1 /\ TypeOK /\ CountExact
    BY DEF CowConstants, Va, IInv
  <2>1. Va \subseteq 0 .. NVA + 1 /\ a # NVA /\ a # NVA + 1
    BY DEF CowConstants, Va
  <2>2. \A q \in Proc : \A b \in Va : Uncounted(q, b)' <=> Uncounted(q, b)
    BY <1>0, Zenon DEF Uncounted
  <2>3. ~ Uncounted(p, a)
    BY <1>0, NotChild, Zenon
  <2>4. ~ Ref(p, a, r) /\ Ref(p, a, r)'
    BY <1>3, <2>2, <2>3, <1>0, Zenon DEF Ref
  <2>5. \A s \in Page : \A q \in Proc : \A b \in 0 .. NVA + 1 :
          ~ (s = r /\ q = p /\ b = a) => (Ref(q, b, s)' <=> Ref(q, b, s))
    BY <1>3, <2>2, <1>0 DEF Ref
  <2>. QED
    BY <1>1a, <2>0, <2>4, <2>5, AddRef
<1>. QED
  BY <1>6, <1>7, <1>8, <1>9, <1>10, Zenon DEF IInv

LEMMA OwnIInv ==
  ASSUME CowConstants, Counting, Inv, NEW p \in Proc, cow_own(p)
  PROVE  Inv'
<1>. SUFFICES ASSUME IInv PROVE IInv'
  BY Zenon DEF Inv
<1>1. /\ pc[p] = "own" /\ UNCHANGED <<sz, cnt, mem, va, new, out, child>>
  BY Zenon DEF cow_own
<1>2. /\ va[p] \in Va /\ pt[p][va[p]] # NULL /\ pt[p][va[p]].pa = pa[p] /\ pa[p] \in Page
      /\ Sole(p, va[p], pa[p])
  BY <1>1, PteType DEF IInv, FaultOK, FaultAt, Faulting, OwnOK, OwnSole
<1>3. /\ pt' \in [Proc -> [Va -> PteOrNull]]
      /\ pt'[p][va[p]] # NULL /\ pt'[p][va[p]].pa = pa[p] /\ pt'[p][va[p]].w
      /\ \A q \in Proc : \A b \in Va : ~ (q = p /\ b = va[p]) => pt'[q][b] = pt[q][b]
  <2>. DEFINE e == [pt[p][va[p]] EXCEPT !.w = TRUE, !.f = FALSE]
  <2>1. pt[p][va[p]] \in Pte
    BY <1>2, PteType, Zenon DEF IInv
  <2>2. e \in PteOrNull /\ e # NULL /\ e.pa = pa[p] /\ e.w
    BY <1>2, <2>1, Zenon DEF CowConstants, PteOrNull, Pte
  <2>3. setpte(p, va[p], e)
    BY Zenon DEF cow_own
  <2>4. TypeOK
    BY Zenon DEF IInv
  <2>5. /\ pt' \in [Proc -> [Va -> PteOrNull]]
        /\ pt'[p][va[p]] = e
        /\ \A q \in Proc : \A b \in Va : ~ (q = p /\ b = va[p]) => pt'[q][b] = pt[q][b]
    <3>. HIDE DEF e
    <3>. QED
      BY <1>2, <2>2, <2>3, <2>4, SetPte, Zenon
  <2>. QED
    BY <2>2, <2>5, Zenon
<1>4. /\ pc' = [pc EXCEPT ![p] = IF out[p] = NULL THEN "user" ELSE "out"]
      /\ pa' = [pa EXCEPT ![p] = IF out[p] = NULL THEN NULL ELSE pa[p]]
  BY Zenon DEF cow_own, ret, goto
<1>5. /\ (out[p] = NULL /\ pc'[p] = "user") \/ (out[p] \in Val /\ pc'[p] = "out" /\ pa'[p] = pa[p])
      /\ \A q \in Proc \ {p} : pc'[q] = pc[q] /\ pa'[q] = pa[q]
  BY <1>4, Zenon DEF IInv, TypeOK
<1>6. TypeOK'
  BY <1>1, <1>3, <1>4, Zenon DEF IInv, TypeOK, Label
<1>7. FaultOK'
  <2>1. FaultAt(p)'
    BY <1>1, <1>2, <1>3, <1>5, Zenon DEF FaultAt, Faulting
  <2>2. \A q \in Proc : q # p => SameFault(q)
    BY <1>1, <1>3, <1>5, Zenon DEF SameFault
  <2>. QED
    BY <2>1, <2>2, FaultStep, Zenon DEF IInv
<1>8. TableOK'
  <2>1. TypeOK /\ TableOK
    BY Zenon DEF IInv
  <2>2. \A b \in Va : b >= sz[p] => pt'[p][b] = NULL
    BY <1>1, <1>2, <1>3, <2>1, Zenon DEF TableOK, BelowSize
  <2>. QED
    BY <1>1, <1>3, <1>5, <2>1, <2>2, TableStep, Zenon DEF Faulting
<1>9. OwnOK'
  <2>1. \A q \in Proc : \A b \in Va : \A s : Maps(q, b, s)' <=> Maps(q, b, s)
    BY <1>2, <1>3, Zenon DEF Maps
  <2>2. \A q \in Proc : pc'[q] \in {"own", "copy", "map", "drop"} =>
          q # p /\ pc'[q] = pc[q] /\ pa'[q] = pa[q]
    BY <1>5, Zenon
  <2>3. \A q \in Proc : \A b \in Va : \A s : Sole(q, b, s) => Sole(q, b, s)'
    BY <1>1, <2>1, <2>2, Zenon DEF Sole
  <2>4. \A q \in Proc : \A b \in Va : pt'[q][b] # NULL /\ pt'[q][b].w =>
          Sole(q, b, pt'[q][b].pa)
    BY <1>2, <1>3, Zenon DEF IInv, OwnOK, WritableSole
  <2>5. \A q \in Proc : pc'[q] = "own" => Sole(q, va[q], pa[q])'
    BY <1>1, <2>2, <2>3 DEF IInv, OwnOK, OwnSole, FaultOK, FaultAt, Faulting
  <2>6. \A q \in Proc : \A b \in Va : pt'[q][b] # NULL /\ pt'[q][b].w =>
          Sole(q, b, pt[q][b].pa)'
    BY <2>3, <2>4, Zenon
  <2>. QED
    BY <1>1, <2>1, <2>2, <2>5, <2>6
       DEF IInv, OwnOK, WritableSole, OwnSole, NewSole, NewCopied
<1>10. CountExact'
  <2>1. \A q \in Proc : \A b \in Va : Uncounted(q, b)' <=> Uncounted(q, b)
    BY <1>1, <1>5, Zenon DEF Uncounted
  <2>2. \A q \in Proc : \A b \in Va : /\ pt'[q][b] # NULL <=> pt[q][b] # NULL
                                      /\ pt'[q][b].pa = pt[q][b].pa
    BY <1>2, <1>3, Zenon
  <2>. QED
    BY <1>1, <1>5, <2>1, <2>2, SameRefs DEF IInv, Ref
<1>. QED
  BY <1>6, <1>7, <1>8, <1>9, <1>10, Zenon DEF IInv

\* cowalloc(): there is a page.
AllocPage(p, r) ==
  /\ pc[p] = "alloc" /\ kalloc(r)
  /\ new' = [new EXCEPT ![p] = r]
  /\ goto(p, "copy")
  /\ UNCHANGED <<sz, pt, mem, va, pa, out, child>>

LEMMA AllocIInv ==
  ASSUME CowConstants, Counting, Inv, NEW p \in Proc, NEW r \in Page, AllocPage(p, r)
  PROVE  Inv'
<1>. SUFFICES ASSUME IInv PROVE IInv'
  BY Zenon DEF Inv
<1>0. pc[p] = "alloc" /\ UNCHANGED <<sz, pt, mem, va, pa, out, child>>
  BY Zenon DEF AllocPage
<1>1. cnt[r] = 0 /\ cnt' = [cnt EXCEPT ![r] = cnt[r] + 1]
  BY DEF AllocPage, kalloc
<1>1a. cnt'[r] = cnt[r] + 1 /\ \A s \in Page \ {r} : cnt'[s] = cnt[s]
  BY <1>1, Zenon DEF IInv, TypeOK
<1>2. \A q \in Proc : /\ \A b \in Va : ~ Maps(q, b, r)
                      /\ pc[q] \in {"copy", "map"} => new[q] # r
                      /\ pc[q] = "drop" => pa[q] # r
  BY <1>1, FreePage, Zenon
<1>3. /\ pc'[p] = "copy" /\ \A q \in Proc \ {p} : pc'[q] = pc[q]
      /\ new'[p] = r /\ \A q \in Proc \ {p} : new'[q] = new[q]
  BY Zenon DEF AllocPage, goto, IInv, TypeOK
<1>4. TypeOK'
  BY <1>1 DEF AllocPage, goto, IInv, TypeOK, Label, Faulting
<1>5. FaultOK'
  BY <1>0, <1>3, FaultStep, Zenon DEF IInv, SameFault, Faulting
<1>6. TableOK'
  BY <1>0, <1>3, TableSame, Zenon DEF IInv, Faulting
<1>7. OwnOK'
  <2>1. \A q \in Proc : \A b \in Va : \A s : Maps(q, b, s)' <=> Maps(q, b, s)
    BY <1>0, Zenon DEF Maps
  <2>2. \A q \in Proc : \A b \in Va : \A s : s # r /\ Sole(q, b, s) => Sole(q, b, s)'
    BY <1>0, <1>3, <2>1 DEF Sole
  <2>3. \A q \in Proc : \A b \in Va : pt[q][b] # NULL /\ pt[q][b].w => Sole(q, b, pt[q][b].pa)'
    <3>1. \A q \in Proc : \A b \in Va : pt[q][b] # NULL => pt[q][b].pa # r
      BY <1>2, Zenon DEF Maps
    <3>2. \A q \in Proc : \A b \in Va : pt[q][b] # NULL /\ pt[q][b].w => Sole(q, b, pt[q][b].pa)
      BY Zenon DEF IInv, OwnOK, WritableSole
    <3>. QED
      BY <1>0, <1>3, <2>1, <3>1, <3>2 DEF Sole
  <2>4. \A q \in Proc : pc'[q] = "own" => Sole(q, va[q], pa[q])'
    BY <1>0, <1>2, <1>3, <2>2 DEF IInv, OwnOK, OwnSole, FaultOK, FaultAt, Faulting, Maps
  <2>5. \A q \in Proc : pc'[q] = "map" => mem[new'[q]] = mem[pa[q]]
    BY <1>3, Zenon DEF IInv, OwnOK, NewCopied
  <2>6. ASSUME NEW q \in Proc, pc'[q] \in {"copy", "map"}
        PROVE  /\ new'[q] \in Page
               /\ \A o \in Proc : /\ \A b \in Va : ~ Maps(o, b, new'[q])
                                  /\ pc'[o] \in {"copy", "map"} /\ new'[o] = new'[q] => o = q
                                  /\ pc'[o] = "drop" => pa[o] # new'[q]
    <3>1. CASE q = p
      BY <1>2, <1>3, <3>1, Zenon
    <3>2. CASE q # p
      BY <1>2, <1>3, <2>6 DEF IInv, OwnOK, NewSole
    <3>. QED
      BY <3>1, <3>2, Zenon
  <2>. QED
    BY <1>0, <2>1, <2>3, <2>4, <2>5, <2>6
       DEF OwnOK, WritableSole, OwnSole, NewSole, NewCopied
<1>8. CountExact'
  <2>0. TypeOK /\ CountExact
    BY Zenon DEF IInv
  <2>1. NVA \in 0 .. NVA + 1 /\ NVA \notin Va /\ NVA # NVA + 1
    BY DEF CowConstants, Va
  <2>2. \A q \in Proc : \A b \in Va : Uncounted(q, b)' <=> Uncounted(q, b)
    BY <1>0, <1>3, Zenon DEF Uncounted
  <2>3. ~ Ref(p, NVA, r) /\ Ref(p, NVA, r)'
    BY <1>0, <1>3, <2>1, Zenon DEF Ref
  <2>4. \A s \in Page : \A q \in Proc : \A b \in 0 .. NVA + 1 :
          ~ (s = r /\ q = p /\ b = NVA) => (Ref(q, b, s)' <=> Ref(q, b, s))
    BY <1>0, <1>3, <2>2 DEF Ref
  <2>. QED
    BY <1>1a, <2>0, <2>1, <2>3, <2>4, AddRef
<1>. QED
  BY <1>4, <1>5, <1>6, <1>7, <1>8, Zenon DEF IInv

\* A page fault, or cowalloc(), finds no memory.
LEMMA NoMemIInv ==
  ASSUME CowConstants, Counting, Inv, NEW p \in Proc, pc[p] \in {"user", "alloc"},
         NEW l \in {"exit", "user"}, goto(p, l), va' = [va EXCEPT ![p] = 0],
         pa' = [pa EXCEPT ![p] = NULL] \/ pa' = pa,
         out' = [out EXCEPT ![p] = NULL] \/ out' = out,
         UNCHANGED <<sz, pt, cnt, mem, new, child>>
  PROVE  Inv'
<1>. SUFFICES ASSUME IInv PROVE IInv'
  BY Zenon DEF Inv
<1>1. /\ pc'[p] = l /\ \A q \in Proc \ {p} : pc'[q] = pc[q]
      /\ va'[p] = 0 /\ \A q \in Proc \ {p} : va'[q] = va[q]
      /\ \A q \in Proc \ {p} : pa'[q] = pa[q] /\ out'[q] = out[q]
  BY Zenon DEF goto, IInv, TypeOK
<1>2. TypeOK'
  <2>1. pa' \in [Proc -> Page \cup {NULL}] /\ out' \in [Proc -> Val \cup {NULL}]
    BY Zenon DEF IInv, TypeOK
  <2>2. pc' \in [Proc -> Label] /\ va' \in [Proc -> 0 .. NVA]
    BY DEF CowConstants, goto, IInv, TypeOK, Label
  <2>. QED
    BY <2>1, <2>2, Zenon DEF IInv, TypeOK
<1>3. FaultOK'
  BY <1>1, FaultStep, Zenon DEF IInv, SameFault, Faulting
<1>4. TableOK'
  BY <1>1, TableSame, Zenon DEF IInv, Faulting
<1>5. OwnOK'
  BY <1>1, OwnStep DEF IInv, OwnOK, OwnSole, NewCopied
<1>6. CountExact'
  BY <1>1, RefsStep, Zenon DEF IInv
<1>. QED
  BY <1>2, <1>3, <1>4, <1>5, <1>6, Zenon DEF IInv

LEMMA CopyIInv ==
  ASSUME CowConstants, Counting, Inv, NEW p \in Proc, cow_copy(p)
  PROVE  Inv'
<1>. SUFFICES ASSUME IInv PROVE IInv'
  BY Zenon DEF Inv
<1>1. pc[p] = "copy" /\ goto(p, "map") /\ UNCHANGED <<sz, pt, cnt, va, pa, new, out, child>>
  BY Zenon DEF cow_copy
<1>2. pc'[p] = "map" /\ \A q \in Proc \ {p} : pc'[q] = pc[q]
  BY <1>1, Zenon DEF goto, IInv, TypeOK
<1>3. /\ new[p] \in Page /\ pa[p] \in Page /\ new[p] # pa[p]
      /\ \A q \in Proc \ {p} : pc[q] = "map" => /\ new[q] \in Page /\ new[q] # new[p]
                                               /\ pa[q] \in Page /\ pa[q] # new[p]
  BY <1>1, PteType DEF IInv, FaultOK, FaultAt, Faulting, OwnOK, NewSole, Maps
<1>4. mem' \in [Page -> Val \cup {JUNK}] /\ mem'[new[p]] = mem[pa[p]] /\ \A r \in Page \ {new[p]} : mem'[r] = mem[r]
  BY <1>3, Zenon DEF cow_copy, IInv, TypeOK
<1>5. TypeOK'
  BY <1>1, <1>4, Zenon DEF goto, IInv, TypeOK, Label, Faulting
<1>6. FaultOK'
  BY <1>1, <1>2, FaultStep, Zenon DEF IInv, SameFault, Faulting
<1>7. TableOK'
  BY <1>1, <1>2, TableSame, Zenon DEF IInv, Faulting
<1>8. OwnOK'
  <2>1. \A q \in Proc : pc'[q] = "map" => mem'[new[q]] = mem'[pa[q]]
    BY <1>2, <1>3, <1>4 DEF IInv, OwnOK, NewCopied
  <2>. QED
    BY <1>1, <1>2, <2>1, OwnStep, Zenon DEF IInv, OwnOK, OwnSole
<1>9. CountExact'
  BY <1>1, <1>2, RefsStep, Zenon DEF IInv
<1>. QED
  BY <1>5, <1>6, <1>7, <1>8, <1>9, Zenon DEF IInv

\* A reference moves from one place of a process to another.
LEMMA SwapRef ==
  ASSUME CowConstants, Counting, NEW r \in Page, NEW p \in Proc,
         NEW a \in 0 .. NVA + 1, NEW b \in 0 .. NVA + 1, a # b,
         Ref(p, a, r), ~ Ref(p, b, r), ~ Ref(p, a, r)', Ref(p, b, r)',
         \A q \in Proc : \A c \in 0 .. NVA + 1 :
           ~ (q = p /\ c = a) /\ ~ (q = p /\ c = b) => (Ref(q, c, r)' <=> Ref(q, c, r))
  PROVE  Cardinality(Refs(r)') = Cardinality(Refs(r))
<1>1. PICK S \in SUBSET Places : S = Refs(r) \ {<<p, a>>}
  BY RefsPlaces, Zenon
<1>2. /\ <<p, a>> \in Refs(r) /\ <<p, b>> \in Places \ S
      /\ Refs(r)' = S \cup {<<p, b>>}
  BY <1>1 DEF Refs, Places
<1>3. Cardinality(Refs(r) \ {<<p, a>>}) = Cardinality(Refs(r)) - 1 /\ Cardinality(Refs(r)) \in Nat
  BY <1>2, RefsPlaces, Zenon DEF Counting
<1>4. Cardinality(S \cup {<<p, b>>}) = Cardinality(S) + 1
  BY <1>2, Zenon DEF Counting
<1>. QED
  BY <1>1, <1>2, <1>3, <1>4

LEMMA MapIInv ==
  ASSUME CowConstants, Counting, Inv, NEW p \in Proc, cow_map(p)
  PROVE  Inv'
<1>. SUFFICES ASSUME IInv PROVE IInv'
  BY Zenon DEF Inv
<1>1. pc[p] = "map" /\ goto(p, "drop") /\ UNCHANGED <<sz, cnt, mem, va, pa, new, out, child>>
  BY Zenon DEF cow_map
<1>2. pc'[p] = "drop" /\ \A q \in Proc : q # p => pc'[q] = pc[q]
  BY <1>1, Zenon DEF goto, IInv, TypeOK
<1>3. /\ va[p] \in Va /\ new[p] \in Page /\ pa[p] \in Page /\ new[p] # pa[p]
      /\ pt[p][va[p]] # NULL /\ pt[p][va[p]].pa = pa[p] /\ Maps(p, va[p], pa[p])
  BY <1>1, PteType DEF IInv, FaultOK, FaultAt, Faulting, OwnOK, NewSole, Maps
<1>4. /\ pt' \in [Proc -> [Va -> PteOrNull]]
      /\ pt'[p][va[p]] # NULL /\ pt'[p][va[p]].pa = new[p] /\ pt'[p][va[p]].w
      /\ \A q \in Proc : \A b \in Va : ~ (q = p /\ b = va[p]) => pt'[q][b] = pt[q][b]
  BY <1>3, NewPte, SetPte DEF cow_map, IInv
<1>5. \A q \in Proc :
        /\ \A b \in Va : ~ Maps(q, b, new[p])
        /\ pc[q] \in {"copy", "map"} /\ new[q] = new[p] => q = p
        /\ pc[q] = "drop" => pa[q] # new[p]
  BY <1>1, Zenon DEF IInv, OwnOK, NewSole
<1>6. TypeOK'
  BY <1>1, <1>4, Zenon DEF goto, IInv, TypeOK, Label
<1>7. FaultOK'
  <2>1. FaultAt(p)'
    BY <1>1, <1>2, <1>3, <1>4, Zenon DEF FaultAt, Faulting
  <2>2. \A q \in Proc : q # p => SameFault(q)
    BY <1>1, <1>2, <1>4, Zenon DEF SameFault
  <2>. QED
    BY <2>1, <2>2, FaultStep, Zenon DEF IInv
<1>8. TableOK'
  <2>1. TypeOK /\ TableOK
    BY Zenon DEF IInv
  <2>2. \A b \in Va : b >= sz[p] => pt'[p][b] = NULL
    BY <1>1, <1>3, <1>4, <2>1, Zenon DEF TableOK, BelowSize
  <2>. QED
    BY <1>1, <1>2, <1>4, <2>1, <2>2, TableStep, Zenon DEF Faulting
<1>9. OwnOK'
  <2>1. \A q \in Proc : \A b \in Va : \A s :
          Maps(q, b, s)' <=> IF q = p /\ b = va[p] THEN s = new[p] ELSE Maps(q, b, s)
    BY <1>4, Zenon DEF Maps
  <2>2. ASSUME NEW q \in Proc, NEW b \in Va, NEW s, Sole(q, b, s), s # pa[p], s # new[p]
        PROVE  Sole(q, b, s)'
    BY <1>1, <1>2, <2>1, <2>2, Zenon DEF Sole
  <2>3. ASSUME NEW q \in Proc, NEW b \in Va, pt'[q][b] # NULL, pt'[q][b].w
        PROVE  Sole(q, b, pt[q][b].pa)'
    <3>1. CASE q = p /\ b = va[p]
      <4>1. Sole(p, va[p], new[p])'
        BY <1>1, <1>2, <1>3, <1>5, <2>1, Zenon DEF Sole
      <4>. QED
        BY <1>1, <1>4, <3>1, <4>1, Zenon
    <3>2. CASE ~ (q = p /\ b = va[p])
      <4>1. pt'[q][b] = pt[q][b] /\ Sole(q, b, pt[q][b].pa) /\ Maps(q, b, pt[q][b].pa)
        BY <1>4, <2>3, <3>2, Zenon DEF IInv, OwnOK, WritableSole, Maps
      <4>2. pt[q][b].pa # pa[p] /\ pt[q][b].pa # new[p]
        BY <1>3, <1>5, <3>2, <4>1, Zenon DEF Sole
      <4>. QED
        BY <1>1, <1>2, <2>1, <4>1, <4>2 DEF Sole
    <3>. QED
      BY <3>1, <3>2, Zenon
  <2>4. ASSUME NEW q \in Proc, pc'[q] = "own"
        PROVE  Sole(q, va[q], pa[q])'
    <3>1. q # p /\ va[q] \in Va /\ Sole(q, va[q], pa[q]) /\ Maps(q, va[q], pa[q])
      BY <1>2, <2>4, Zenon DEF IInv, OwnOK, OwnSole, FaultOK, FaultAt, Faulting, Maps
    <3>2. pa[q] # pa[p] /\ pa[q] # new[p]
      BY <1>3, <1>5, <3>1, Zenon DEF Sole
    <3>. QED
      BY <1>1, <1>2, <2>1, <3>1, <3>2, Zenon DEF Sole
  <2>5. ASSUME NEW q \in Proc, pc'[q] \in {"copy", "map"}
        PROVE  /\ new[q] \in Page
               /\ \A o \in Proc : /\ \A b \in Va : ~ Maps(o, b, new[q])'
                                  /\ pc'[o] \in {"copy", "map"} /\ new[o] = new[q] => o = q
                                  /\ pc'[o] = "drop" => pa[o] # new[q]
               /\ pc'[q] = "map" => mem[new[q]] = mem[pa[q]]
    <3>1. /\ q # p /\ pc[q] = pc'[q] /\ new[q] \in Page /\ new[q] # new[p]
          /\ \A o \in Proc : /\ \A b \in Va : ~ Maps(o, b, new[q])
                             /\ pc[o] \in {"copy", "map"} /\ new[o] = new[q] => o = q
                             /\ pc[o] = "drop" => pa[o] # new[q]
          /\ pc[q] = "map" => mem[new[q]] = mem[pa[q]]
      BY <1>2, <1>5, <2>5, Zenon DEF IInv, OwnOK, NewSole, NewCopied
    <3>. QED
      BY <1>1, <1>2, <1>3, <2>1, <3>1
  <2>. QED
    BY <1>1, <2>3, <2>4, <2>5, Zenon DEF OwnOK, WritableSole, OwnSole, NewSole, NewCopied
<1>10. CountExact'
  <2>. PICK a \in Va, n \in Page, r \in Page : a = va[p] /\ n = new[p] /\ r = pa[p]
    BY <1>3, Zenon
  <2>0. /\ a \in 0 .. NVA + 1 /\ NVA \in 0 .. NVA + 1 /\ NVA + 1 \in 0 .. NVA + 1
        /\ a # NVA /\ a # NVA + 1 /\ NVA # NVA + 1 /\ NVA \notin Va /\ NVA + 1 \notin Va
    BY DEF CowConstants, Va
  <2>1. \A q \in Proc : \A b \in Va : Uncounted(q, b)' <=> Uncounted(q, b)
    BY <1>1, <1>2, Zenon DEF Uncounted
  <2>2. \A b : ~ Uncounted(p, b)
    BY <1>1, NotChild, Zenon
  <2>3. \A s \in Page : \A q \in Proc : \A c \in 0 .. NVA + 1 :
          ~ (q = p /\ c \in {a, NVA, NVA + 1}) => (Ref(q, c, s)' <=> Ref(q, c, s))
    BY <1>1, <1>2, <1>4, <2>1 DEF Ref
  <2>4. \A s \in Page : /\ Ref(p, a, s) <=> s = r
                        /\ Ref(p, NVA, s) <=> s = n
                        /\ ~ Ref(p, NVA + 1, s)
    BY <1>1, <1>3, <2>0, <2>2, Zenon DEF Ref
  <2>5. \A s \in Page : /\ Ref(p, a, s)' <=> s = n
                        /\ ~ Ref(p, NVA, s)'
                        /\ Ref(p, NVA + 1, s)' <=> s = r
    BY <1>1, <1>2, <1>4, <2>0, <2>1, <2>2, Zenon DEF Ref
  <2>6. Cardinality(Refs(r)') = Cardinality(Refs(r))
    <3>1. Ref(p, a, r) /\ ~ Ref(p, NVA + 1, r) /\ ~ Ref(p, a, r)' /\ Ref(p, NVA + 1, r)'
      BY <1>3, <2>4, <2>5, Zenon
    <3>2. \A q \in Proc : \A c \in 0 .. NVA + 1 :
            ~ (q = p /\ c = a) /\ ~ (q = p /\ c = NVA + 1) => (Ref(q, c, r)' <=> Ref(q, c, r))
      BY <1>3, <2>3, <2>4, <2>5, Zenon
    <3>. QED
      BY <2>0, <3>1, <3>2, SwapRef
  <2>7. Cardinality(Refs(n)') = Cardinality(Refs(n))
    <3>1. Ref(p, NVA, n) /\ ~ Ref(p, a, n) /\ ~ Ref(p, NVA, n)' /\ Ref(p, a, n)'
      BY <1>3, <2>4, <2>5, Zenon
    <3>2. \A q \in Proc : \A c \in 0 .. NVA + 1 :
            ~ (q = p /\ c = NVA) /\ ~ (q = p /\ c = a) => (Ref(q, c, n)' <=> Ref(q, c, n))
      BY <1>3, <2>3, <2>4, <2>5, Zenon
    <3>. QED
      BY <2>0, <3>1, <3>2, SwapRef
  <2>8. \A s \in Page : s # r /\ s # n => Refs(s)' = Refs(s)
    BY <2>3, <2>4, <2>5 DEF Refs
  <2>. QED
    BY <1>1, <2>6, <2>7, <2>8, Zenon DEF IInv, CountExact
<1>. QED
  BY <1>6, <1>7, <1>8, <1>9, <1>10, Zenon DEF IInv

LEMMA DropIInv ==
  ASSUME CowConstants, Counting, Inv, NEW p \in Proc, cow_drop(p)
  PROVE  Inv'
<1>. SUFFICES ASSUME IInv PROVE IInv'
  BY Zenon DEF Inv
<1>1. pc[p] = "drop" /\ kfree(pa[p]) /\ UNCHANGED <<sz, pt, va, out, child>>
  BY Zenon DEF cow_drop
<1>2. /\ pc' = [pc EXCEPT ![p] = IF out[p] = NULL THEN "user" ELSE "out"]
      /\ pa' = [pa EXCEPT ![p] = IF out[p] = NULL THEN NULL ELSE new[p]]
      /\ new' = [new EXCEPT ![p] = NULL]
  BY Zenon DEF cow_drop, ret, goto
<1>3. /\ (out[p] = NULL /\ pc'[p] = "user") \/ (out[p] \in Val /\ pc'[p] = "out" /\ pa'[p] = new[p])
      /\ \A q \in Proc : q # p => pc'[q] = pc[q] /\ pa'[q] = pa[q] /\ new'[q] = new[q]
  BY <1>2, Zenon DEF IInv, TypeOK
<1>4. /\ va[p] \in Va /\ pa[p] \in Page
      /\ pt[p][va[p]] # NULL /\ pt[p][va[p]].w /\ pt[p][va[p]].pa = new[p]
  BY <1>1, Zenon DEF IInv, FaultOK, FaultAt
<1>5. NVA + 1 \in 0 .. NVA + 1 /\ NVA + 1 \notin Va /\ NVA + 1 # NVA
  <2>1. NVA \in Nat
    BY Zenon DEF CowConstants
  <2>. QED
    BY <2>1 DEF Va
<1>6. Ref(p, NVA + 1, pa[p])
  BY <1>1, Zenon DEF Ref
<1>7. /\ mem' \in [Page -> Val \cup {JUNK}] /\ cnt' \in [Page -> Int]
      /\ \A q \in Proc : pc[q] = "map" => mem'[new[q]] = mem'[pa[q]]
  BY <1>1, <1>4, <1>5, <1>6, KfreeMem, Zenon
<1>8. TypeOK'
  BY <1>1, <1>2, <1>7, Zenon DEF IInv, TypeOK, Label
<1>9. FaultOK'
  <2>1. FaultAt(p)'
    BY <1>1, <1>3, <1>4, Zenon DEF FaultAt, Faulting
  <2>2. \A q \in Proc : q # p => SameFault(q)
    BY <1>1, <1>3, Zenon DEF SameFault
  <2>. QED
    BY <2>1, <2>2, FaultStep, Zenon DEF IInv
<1>10. TableOK'
  <2>1. TypeOK /\ TableOK
    BY Zenon DEF IInv
  <2>2. \A b \in Va : b >= sz[p] => pt'[p][b] = NULL
    BY <1>1, <2>1, Zenon DEF TableOK, BelowSize
  <2>. QED
    BY <1>1, <1>3, <2>1, <2>2, TableStep, Zenon
<1>11. OwnOK'
  BY <1>1, <1>3, <1>7, OwnStep, Zenon DEF IInv, OwnOK, OwnSole
<1>12. CountExact'
  <2>. PICK r \in Page : r = pa[p]
    BY <1>4, Zenon
  <2>1. cnt'[r] = cnt[r] - 1 /\ \A s \in Page \ {r} : cnt'[s] = cnt[s]
    BY <1>1, Zenon DEF kfree, IInv, TypeOK
  <2>2. \A q \in Proc : \A b \in Va : Uncounted(q, b)' <=> Uncounted(q, b)
    BY <1>1, <1>3, Zenon DEF Uncounted
  <2>3. ~ Ref(p, NVA + 1, r)'
    BY <1>3, <1>5, Zenon DEF Ref
  <2>4. \A s \in Page : \A q \in Proc : \A b \in 0 .. NVA + 1 :
          ~ (s = r /\ q = p /\ b = NVA + 1) => (Ref(q, b, s)' <=> Ref(q, b, s))
    BY <1>1, <1>3, <2>2 DEF Ref
  <2>5. TypeOK /\ CountExact
    BY Zenon DEF IInv
  <2>. QED
    BY <1>5, <1>6, <2>1, <2>3, <2>4, <2>5, DropRef
<1>. QED
  BY <1>8, <1>9, <1>10, <1>11, <1>12, Zenon DEF IInv
=============================================================================
