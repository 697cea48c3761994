---------------------------- MODULE CowRefinement ---------------------------
(***************************************************************************)
(* Proofs about user memory (Cow.tla), continued: fork() and exit(), the   *)
(* theorems, and that Cow implements memory which every process has to     *)
(* itself (PrivateMemory.tla).                                             *)
(***************************************************************************)
EXTENDS CowProofs

\* uvmcopy(): a page that is not there is skipped.
LEMMA SkipIInv ==
  ASSUME CowConstants, Counting, Inv, NEW p \in Proc, uvmcopy(p), pt[p][va[p]] = NULL
  PROVE  Inv'
<1>. SUFFICES ASSUME IInv PROVE IInv'
  BY Zenon DEF Inv
<1>1. /\ pc[p] = "fork" /\ va[p] < sz[p] /\ va' = [va EXCEPT ![p] = va[p] + 1]
      /\ UNCHANGED <<sz, pt, cnt, mem, pc, pa, new, out, child>>
  BY Zenon DEF uvmcopy
<1>2. va[p] \in Nat /\ sz[p] \in 0 .. NVA /\ NVA \in Nat
  BY DEF CowConstants, IInv, TypeOK
<1>3. va[p] + 1 \in 0 .. NVA /\ va[p] \in Va
  BY <1>1, <1>2 DEF Va
<1>4. va'[p] = va[p] + 1 /\ \A q \in Proc : q # p => va'[q] = va[q]
  BY <1>1, Zenon DEF IInv, TypeOK
<1>5. TypeOK'
  BY <1>1, <1>3, Zenon DEF IInv, TypeOK
<1>6. FaultOK'
  BY <1>1, <1>4, FaultStep, Zenon DEF IInv, SameFault, Faulting
<1>7. TableOK'
  <2>. DEFINE c == child[p]
  <2>1. /\ c \in Proc /\ pt[c][va[p]] = pt[p][va[p]]
        /\ \A a \in Va : a < va[p] => pt[c][a] = pt[p][a]
        /\ \A a \in Va : a > va[p] => pt[c][a] = NULL
    BY <1>1, <1>3, Zenon DEF IInv, TableOK, Copied, ToCopy, Copying
  <2>2. \A a \in Va : a \in Int
    BY DEF Va
  <2>3. /\ va'[p] <= sz[p]
        /\ \A a \in Va : a < va'[p] => pt[c][a] = pt[p][a]
        /\ \A a \in Va : a >= va'[p] => pt[c][a] = NULL
    BY <1>1, <1>2, <2>1, <2>2
  <2>4. \A a \in Va : a > va'[p] => a >= va'[p]
    BY <1>2, <1>4, <2>2
  <2>5. va'[p] >= va'[p]
    BY <1>2, <1>4
  <2>. QED
    BY <1>1, <1>4, <2>3, <2>4, <2>5
       DEF IInv, TableOK, BelowSize, NoSize, Cleared, Copied, ToCopy, Shared,
           OneParent, HasParent, HasChild, Copying
<1>8. OwnOK'
  BY <1>1, <1>4, OwnStep DEF IInv, OwnOK, OwnSole, NewCopied
<1>9. CountExact'
  BY <1>1, <1>4, RefsStep DEF IInv
<1>. QED
  BY <1>5, <1>6, <1>7, <1>8, <1>9, Zenon DEF IInv

\* The PTE that uvmcopy() leaves in the parent.
LEMMA SharedPte ==
  ASSUME CowConstants, NEW e \in PteOrNull, e # NULL
  PROVE  /\ shared(e) \in PteOrNull /\ shared(e) # NULL
         /\ shared(e).pa = e.pa /\ ~ shared(e).w /\ shared(e).f
<1>1. e \in Pte /\ (e.f <=> ~ e.w)
  BY Zenon DEF PteOrNull
<1>2. CASE e.w
  <2>1. shared(e) = [e EXCEPT !.w = FALSE, !.f = TRUE]
    BY <1>2, Zenon DEF shared
  <2>2. shared(e) \in Pte /\ shared(e).pa = e.pa /\ shared(e).w = FALSE /\ shared(e).f = TRUE
    BY <1>1, <2>1, Zenon DEF Pte
  <2>. QED
    BY <2>2, Zenon DEF CowConstants, PteOrNull
<1>3. CASE ~ e.w
  BY <1>1, <1>3, Zenon DEF shared
<1>. QED
  BY <1>2, <1>3, Zenon

\* uvmcopy() makes the parent's page copy-on-write, in the parent and perhaps in the child.
LEMMA ShareOwn ==
  ASSUME CowConstants, Counting, Inv, NEW p \in Proc, pc[p] = "fork",
         NEW c \in Proc, pc[c] = "new",
         NEW a \in Va, pt[p][a] # NULL,
         UNCHANGED <<va, mem, pa, new, out>>,
         pc'[p] \in {"addref", "unwind"}, pc'[c] \in {"new", "exit"},
         \A q \in Proc : q # p /\ q # c => pc'[q] = pc[q],
         pt'[p][a] # NULL, pt'[p][a].pa = pt[p][a].pa, ~ pt'[p][a].w,
         pt'[c][a] # NULL => pt'[c][a].pa = pt[p][a].pa /\ ~ pt'[c][a].w,
         \A q \in Proc : \A b \in Va :
           ~ (q = p /\ b = a) /\ ~ (q = c /\ b = a) => pt'[q][b] = pt[q][b]
  PROVE  FaultOK' /\ OwnOK'
<1>. SUFFICES ASSUME IInv
             PROVE  FaultOK' /\ OwnOK'
  BY Zenon DEF Inv
<1>1. \A q \in Proc : pc[q] \in Faulting \cup {"drop", "out"} \/ pc'[q] \in Faulting \cup {"drop", "out"} =>
        /\ q # p /\ q # c /\ pc'[q] = pc[q]
        /\ \A b \in Va : pt'[q][b] = pt[q][b]
  BY Zenon DEF Faulting
<1>2. FaultOK'
  BY <1>1 DEF IInv, FaultOK, FaultAt
<1>3. \A q \in Proc : \A b \in Va : \A s :
        Maps(q, b, s)' => Maps(q, b, s) \/ (s = pt[p][a].pa /\ q = c /\ b = a)
  BY Zenon DEF Maps
<1>4. Maps(p, a, pt[p][a].pa)
  BY Zenon DEF Maps
<1>5. ASSUME NEW q \in Proc, NEW b \in Va, pt'[q][b] # NULL, pt'[q][b].w
      PROVE  Sole(q, b, pt[q][b].pa)'
  <2>1. ~ (q = p /\ b = a) /\ ~ (q = c /\ b = a) /\ pt'[q][b] = pt[q][b]
    BY <1>5, Zenon
  <2>2. Sole(q, b, pt[q][b].pa)
    BY <1>5, Zenon DEF IInv, OwnOK, WritableSole
  <2>3. pt[q][b].pa # pt[p][a].pa
    BY <1>4, <2>1, <2>2, Zenon DEF Sole
  <2>. QED
    BY <1>3, <2>1, <2>2, <2>3 DEF Sole
<1>6. ASSUME NEW q \in Proc, pc'[q] = "own"
      PROVE  Sole(q, va[q], pa[q])'
  <2>1. q # p /\ Sole(q, va[q], pa[q])
    BY <1>6, Zenon DEF IInv, OwnOK, OwnSole
  <2>2. pa[q] # pt[p][a].pa
    BY <1>4, <2>1, Zenon DEF Sole
  <2>. QED
    BY <1>3, <2>1, <2>2 DEF Sole
<1>7. ASSUME NEW q \in Proc, pc'[q] \in {"copy", "map"}
      PROVE  /\ new[q] \in Page
             /\ \A o \in Proc : /\ \A b \in Va : ~ Maps(o, b, new[q])'
                                /\ pc'[o] \in {"copy", "map"} /\ new[o] = new[q] => o = q
                                /\ pc'[o] = "drop" => pa[o] # new[q]
             /\ pc'[q] = "map" => mem[new[q]] = mem[pa[q]]
  <2>1. /\ pc'[q] = pc[q] /\ new[q] \in Page
        /\ \A o \in Proc : /\ \A b \in Va : ~ Maps(o, b, new[q])
                           /\ pc[o] \in {"copy", "map"} /\ new[o] = new[q] => o = q
                           /\ pc[o] = "drop" => pa[o] # new[q]
        /\ pc[q] = "map" => mem[new[q]] = mem[pa[q]]
    BY <1>7, Zenon DEF IInv, OwnOK, NewSole, NewCopied
  <2>2. new[q] # pt[p][a].pa
    BY <1>4, <2>1, Zenon
  <2>3. new'[q] = new[q]
    BY Zenon
  <2>4. \A o \in Proc : \A b \in Va : ~ Maps(o, b, new[q])'
    BY <1>3, <2>1, <2>2, Zenon
  <2>. QED
    BY <2>1, <2>4, Zenon
<1>8. OwnOK'
  BY <1>5, <1>6, <1>7, Zenon DEF OwnOK, WritableSole, OwnSole, NewSole, NewCopied
<1>. QED
  BY <1>2, <1>8, Zenon

\* uvmcopy(): a page goes into the child's table.
SharePage(p) ==
  /\ pc[p] = "fork" /\ va[p] < sz[p] /\ pt[p][va[p]] # NULL
  /\ pt' = [pt EXCEPT ![p][va[p]] = shared(pt[p][va[p]]), ![child[p]][va[p]] = shared(pt[p][va[p]])]
  /\ goto(p, "addref")
  /\ UNCHANGED <<va, sz, cnt, mem, pa, new, out, child>>

LEMMA ShareIInv ==
  ASSUME CowConstants, Counting, Inv, NEW p \in Proc, SharePage(p)
  PROVE  Inv'
<1>. SUFFICES ASSUME IInv PROVE IInv'
  BY Zenon DEF Inv
<1>1. /\ pc[p] = "fork" /\ va[p] < sz[p] /\ pt[p][va[p]] # NULL
      /\ UNCHANGED <<va, sz, cnt, mem, pa, new, out, child>>
  BY Zenon DEF SharePage
<1>2. va[p] \in Va
  BY <1>1 DEF CowConstants, IInv, TypeOK, Va
<1>3. PICK a \in Va, c \in Proc : a = va[p] /\ c = child[p]
  BY <1>1, <1>2, Zenon DEF IInv, TableOK, Copied, Copying
<1>4. pc[c] = "new" /\ c # p /\ pt[c][a] = NULL
  BY <1>1, <1>3, Zenon DEF IInv, TableOK, Copied, ToCopy, Copying
<1>5. pc'[p] = "addref" /\ \A q \in Proc : q # p => pc'[q] = pc[q]
  BY Zenon DEF SharePage, goto, IInv, TypeOK
<1>6. /\ pt' \in [Proc -> [Va -> PteOrNull]]
      /\ pt'[p][a] # NULL /\ pt'[p][a].pa = pt[p][a].pa /\ ~ pt'[p][a].w /\ pt'[p][a].f
      /\ pt'[c][a] = pt'[p][a]
      /\ \A q \in Proc : \A b \in Va :
           ~ (q = p /\ b = a) /\ ~ (q = c /\ b = a) => pt'[q][b] = pt[q][b]
  <2>1. pt[p][a] \in PteOrNull /\ pt[p][a] # NULL
    BY <1>1, <1>3, Zenon DEF IInv, TypeOK
  <2>2. PICK e \in PteOrNull : e = shared(pt[p][a])
    BY <2>1, SharedPte, Zenon
  <2>3. e # NULL /\ e.pa = pt[p][a].pa /\ ~ e.w /\ e.f
    BY <2>1, <2>2, SharedPte, Zenon
  <2>4. pt' = [pt EXCEPT ![p][a] = e, ![c][a] = e] /\ pt \in [Proc -> [Va -> PteOrNull]]
    BY <1>3, <2>2, Zenon DEF SharePage, IInv, TypeOK
  <2>5. /\ pt' \in [Proc -> [Va -> PteOrNull]] /\ pt'[p][a] = e /\ pt'[c][a] = e
        /\ \A q \in Proc : \A b \in Va :
             ~ (q = p /\ b = a) /\ ~ (q = c /\ b = a) => pt'[q][b] = pt[q][b]
    BY <1>4, <2>4, Zenon
  <2>. QED
    BY <2>3, <2>5, Zenon
<1>7. TypeOK'
  <2>1. pc' \in [Proc -> Label]
    BY Zenon DEF SharePage, goto, IInv, TypeOK, Label, Copying
  <2>. QED
    BY <1>1, <1>6, <2>1, Zenon DEF IInv, TypeOK
<1>8. FaultOK' /\ OwnOK'
  BY <1>1, <1>3, <1>4, <1>5, <1>6, ShareOwn
<1>9. TableOK'
  <2>1. \A q \in Proc : q # p /\ q # c => pc'[q] = pc[q] /\ \A b \in Va : pt'[q][b] = pt[q][b]
    BY <1>5, <1>6, Zenon
  <2>2. \A q \in Proc : pc[q] \in Copying /\ q # p =>
          /\ child[q] \in Proc /\ child[q] # p /\ child[q] # c /\ q # c
    BY <1>1, <1>3, Zenon DEF IInv, TableOK, Copied, OneParent, Copying
  <2>3. \A b \in Va : b # a => pt'[p][b] = pt[p][b] /\ pt'[c][b] = pt[c][b]
    BY <1>6, Zenon
  <2>4. a \in Int /\ sz[p] \in Int /\ a < sz[p] /\ \A b \in Va : b \in Int
    BY <1>1, <1>3 DEF IInv, TypeOK, Va
  <2>5. \A b \in Va : b >= sz[p] => pt'[p][b] = NULL
    BY <1>1, <2>3, <2>4 DEF IInv, TableOK, BelowSize, HasChild
  <2>6. /\ \A b \in Va : b < a => pt'[c][b] = pt'[p][b]
        /\ \A b \in Va : b > a => pt'[c][b] = NULL
    BY <1>1, <1>3, <2>3 DEF IInv, TableOK, Copied, Copying
  <2>7. \A q \in Proc : pc'[q] \in Copying => pc[q] \in Copying
    BY <1>1, <1>5, Zenon DEF Copying
  <2>8. \A q \in Proc : pc'[q] \in Copying =>
          /\ child[q] \in Proc /\ pc'[child[q]] = "new" /\ va[q] <= sz[q]
          /\ \A b \in Va : b < va[q] => pt'[child[q]][b] = pt'[q][b]
          /\ \A b \in Va : b > va[q] => pt'[child[q]][b] = NULL
    <3>1. /\ child[p] \in Proc /\ pc'[child[p]] = "new" /\ va[p] <= sz[p]
          /\ \A b \in Va : b < va[p] => pt'[child[p]][b] = pt'[p][b]
          /\ \A b \in Va : b > va[p] => pt'[child[p]][b] = NULL
      BY <1>3, <1>4, <1>5, <2>4, <2>6
    <3>. QED
      BY <2>1, <2>2, <2>7, <3>1 DEF IInv, TableOK, Copied
  <2>9. \A q \in Proc : pc'[q] \notin {"new", "exit"} => \A b \in Va : b >= sz[q]
            => pt'[q][b] = NULL
    BY <1>4, <1>5, <2>1, <2>5 DEF IInv, TableOK, BelowSize
  <2>10. \A q \in Proc : pc'[q] = "exit" => \A b \in Va : b < va[q] => pt'[q][b] = NULL
    BY <1>4, <1>5, <2>1 DEF IInv, TableOK, Cleared
  <2>11. \A q \in Proc : pc'[q] = "fork" /\ va[q] \in Va => pt'[child[q]][va[q]] = NULL
    BY <1>5, <2>1, <2>2 DEF IInv, TableOK, ToCopy, Copying
  <2>12. \A q \in Proc : pc'[q] = "addref" =>
           /\ va[q] < sz[q] /\ pt'[q][va[q]] # NULL /\ pt'[q][va[q]].f
           /\ pt'[child[q]][va[q]] = pt'[q][va[q]]
    <3>1. \A q \in Proc : pc[q] = "addref" => va[q] \in Va
      BY DEF CowConstants, IInv, TableOK, Shared, TypeOK, Va
    <3>2. \A q \in Proc : q # p /\ pc'[q] = "addref" =>
            /\ pc[q] = "addref" /\ va[q] \in Va
            /\ pt'[q][va[q]] = pt[q][va[q]] /\ pt'[child[q]][va[q]] = pt[child[q]][va[q]]
      BY <1>5, <2>1, <2>2, <3>1 DEF Copying
    <3>. QED
      BY <1>1, <1>3, <1>6, <3>2 DEF IInv, TableOK, Shared
  <2>13. \A q \in Proc : pc'[q] = "new" => \E o \in Proc : pc'[o] \in Copying /\ child[o] = q
    <3>1. \A q \in Proc : pc[q] \in Copying => pc'[q] \in Copying
      BY <1>5, Zenon DEF Copying
    <3>2. \A q \in Proc : pc'[q] = "new" => pc[q] = "new"
      BY <1>5, Zenon
    <3>. QED
      BY <3>1, <3>2, Zenon DEF IInv, TableOK, HasParent
  <2>14. /\ \A q \in Proc : pc'[q] \in {"unused", "new"} => va[q] = 0 /\ sz[q] = 0
         /\ \A q \in Proc : pc'[q] = "unwind" => child[q] \in Proc
    BY <1>5, Zenon DEF IInv, TableOK, NoSize, HasChild
  <2>15. \A q, o \in Proc : pc'[q] \in Copying /\ pc'[o] \in Copying /\ child[q] = child[o] => q = o
    BY <2>7, Zenon DEF IInv, TableOK, OneParent
  <2>16. BelowSize' /\ NoSize' /\ Cleared' /\ HasChild'
    BY <1>1, <2>9, <2>10, <2>14, Zenon DEF BelowSize, NoSize, Cleared, HasChild
  <2>17. Copied' /\ ToCopy' /\ Shared'
    <3>1. Copied'
      BY <1>1, <2>8, Zenon DEF Copied
    <3>2. ToCopy'
      BY <1>1, <2>11, Zenon DEF ToCopy
    <3>3. Shared'
      BY <1>1, <2>12, Zenon DEF Shared
    <3>. QED
      BY <3>1, <3>2, <3>3, Zenon
  <2>18. OneParent' /\ HasParent'
    BY <1>1, <2>13, <2>15, Zenon DEF OneParent, HasParent
  <2>. QED
    BY <2>16, <2>17, <2>18, Zenon DEF TableOK
<1>10. CountExact'
  <2>1. \A q \in Proc : \A b \in Va :
          Uncounted(q, b)' <=> Uncounted(q, b) \/ (q = c /\ b = a)
    BY <1>1, <1>3, <1>5, Zenon DEF Uncounted
  <2>2. \A q \in Proc : \A b \in Va : ~ (q = c /\ b = a) =>
          /\ pt'[q][b] # NULL <=> pt[q][b] # NULL
          /\ pt'[q][b].pa = pt[q][b].pa
    BY <1>1, <1>3, <1>6
  <2>3. \A q \in Proc : pc[q] \in {"copy", "map", "drop"} \/ pc'[q] \in {"copy", "map", "drop"} => pc'[q] = pc[q]
    BY <1>1, <1>5, Zenon
  <2>4. \A r \in Page : \A q \in Proc : \A b \in 0 .. NVA + 1 : Ref(q, b, r)' <=> Ref(q, b, r)
    BY <1>1, <1>4, <2>1, <2>2, <2>3 DEF Ref
  <2>. QED
    BY <1>1, <2>4, SameRefs, Zenon DEF IInv
<1>. QED
  BY <1>7, <1>8, <1>9, <1>10, Zenon DEF IInv

\* uvmcopy(): there is no memory for the child's page table.
ShareFails(p) ==
  /\ pc[p] = "fork" /\ va[p] < sz[p] /\ pt[p][va[p]] # NULL
  /\ setpte(p, va[p], shared(pt[p][va[p]]))
  /\ pc' = [pc EXCEPT ![p] = "unwind", ![child[p]] = "exit"]
  /\ UNCHANGED <<va, sz, cnt, mem, pa, new, out, child>>

LEMMA ShareFailsIInv ==
  ASSUME CowConstants, Counting, Inv, NEW p \in Proc, ShareFails(p)
  PROVE  Inv'
<1>. SUFFICES ASSUME IInv PROVE IInv'
  BY Zenon DEF Inv
<1>1. /\ pc[p] = "fork" /\ va[p] < sz[p] /\ pt[p][va[p]] # NULL
      /\ UNCHANGED <<va, sz, cnt, mem, pa, new, out, child>>
  BY Zenon DEF ShareFails
<1>2. va[p] \in Va
  BY <1>1 DEF CowConstants, IInv, TypeOK, Va
<1>3. PICK a \in Va, c \in Proc : a = va[p] /\ c = child[p]
  BY <1>1, <1>2, Zenon DEF IInv, TableOK, Copied, Copying
<1>4. pc[c] = "new" /\ c # p /\ pt[c][a] = NULL /\ va[c] = 0 /\ sz[c] = 0
  BY <1>1, <1>3, Zenon DEF IInv, TableOK, NoSize, Copied, ToCopy, Copying
<1>5. /\ pc'[p] = "unwind" /\ pc'[c] = "exit"
      /\ \A q \in Proc : q # p /\ q # c => pc'[q] = pc[q]
  BY <1>3 DEF ShareFails, IInv, TypeOK
<1>6. /\ pt' \in [Proc -> [Va -> PteOrNull]]
      /\ pt'[p][a] # NULL /\ pt'[p][a].pa = pt[p][a].pa /\ ~ pt'[p][a].w /\ pt'[p][a].f
      /\ \A q \in Proc : \A b \in Va : ~ (q = p /\ b = a) => pt'[q][b] = pt[q][b]
  <2>1. pt[p][a] \in PteOrNull /\ pt[p][a] # NULL
    BY <1>1, <1>3, Zenon DEF IInv, TypeOK
  <2>2. PICK e \in PteOrNull : e = shared(pt[p][a])
    BY <2>1, SharedPte, Zenon
  <2>3. e # NULL /\ e.pa = pt[p][a].pa /\ ~ e.w /\ e.f
    BY <2>1, <2>2, SharedPte, Zenon
  <2>4. setpte(p, a, e) /\ TypeOK
    BY <1>3, <2>2, Zenon DEF ShareFails, IInv
  <2>. QED
    BY <2>3, <2>4, SetPte
<1>7. TypeOK'
  <2>1. pc' \in [Proc -> Label]
    BY Zenon DEF ShareFails, IInv, TypeOK, Label
  <2>. QED
    BY <1>1, <1>6, <2>1, Zenon DEF IInv, TypeOK
<1>8. FaultOK' /\ OwnOK'
  BY <1>1, <1>3, <1>4, <1>5, <1>6, ShareOwn
<1>9. TableOK'
  <2>1. \A q \in Proc : q # p => \A b \in Va : pt'[q][b] = pt[q][b]
    BY <1>6, Zenon
  <2>2. \A q \in Proc : pc'[q] \in Copying =>
          /\ pc[q] = pc'[q] /\ q # p /\ q # c
          /\ child[q] \in Proc /\ child[q] # p /\ child[q] # c /\ pc'[child[q]] = pc[child[q]]
    <3>1. \A q \in Proc : pc'[q] \in Copying => pc[q] = pc'[q] /\ q # p /\ q # c
      BY <1>5, Zenon DEF Copying
    <3>2. \A q \in Proc : pc'[q] \in Copying
              => child[q] \in Proc /\ child[q] # p /\ child[q] # c
      BY <1>1, <1>3, <3>1, Zenon DEF IInv, TableOK, Copied, OneParent, Copying
    <3>. QED
      BY <1>5, <3>1, <3>2, Zenon
  <2>3. \A b \in Va : b >= sz[p] => pt'[p][b] = NULL
    <3>1. a \in Int /\ sz[p] \in Int /\ a < sz[p] /\ \A b \in Va : b \in Int
      BY <1>1, <1>3 DEF IInv, TypeOK, Va
    <3>. QED
      <4>1. \A b \in Va : b >= sz[p] => b # a
        BY <3>1
      <4>2. \A b \in Va : b >= sz[p] => pt[p][b] = NULL
        BY <1>1, Zenon DEF IInv, TableOK, BelowSize
      <4>. QED
        BY <1>6, <4>1, <4>2, Zenon
  <2>4. \A q \in Proc : pc'[q] \in Copying =>
          /\ child[q] \in Proc /\ pc'[child[q]] = "new" /\ va[q] <= sz[q]
          /\ \A b \in Va : b < va[q] => pt'[child[q]][b] = pt'[q][b]
          /\ \A b \in Va : b > va[q] => pt'[child[q]][b] = NULL
    BY <2>1, <2>2 DEF IInv, TableOK, Copied
  <2>5. \A q \in Proc : pc'[q] \notin {"new", "exit"} => \A b \in Va : b >= sz[q]
            => pt'[q][b] = NULL
    BY <1>5, <2>1, <2>3 DEF IInv, TableOK, BelowSize
  <2>6. \A q \in Proc : pc'[q] = "exit" => \A b \in Va : b < va[q] => pt'[q][b] = NULL
    <3>1. \A b \in Va : ~ b < va[c]
      BY <1>4 DEF Va
    <3>. QED
      BY <1>5, <2>1, <3>1 DEF IInv, TableOK, Cleared
  <2>7. \A q \in Proc : pc'[q] = "fork" /\ va[q] \in Va => pt'[child[q]][va[q]] = NULL
    BY <2>1, <2>2, Zenon DEF IInv, TableOK, ToCopy, Copying
  <2>8. \A q \in Proc : pc'[q] = "addref" =>
           /\ va[q] < sz[q] /\ pt'[q][va[q]] # NULL /\ pt'[q][va[q]].f
           /\ pt'[child[q]][va[q]] = pt'[q][va[q]]
    <3>1. \A q \in Proc : pc[q] = "addref" => va[q] \in Va
      BY DEF CowConstants, IInv, TableOK, Shared, TypeOK, Va
    <3>. QED
      BY <2>1, <2>2, <3>1 DEF IInv, TableOK, Shared, Copying
  <2>9. \A q \in Proc : pc'[q] = "new" => \E o \in Proc : pc'[o] \in Copying /\ child[o] = q
    <3>1. \A q \in Proc : pc'[q] = "new" => pc[q] = "new" /\ q # c
      BY <1>5, Zenon
    <3>2. \A o \in Proc : pc[o] \in Copying /\ child[o] # c => pc'[o] \in Copying
      BY <1>3, <1>4, <1>5, Zenon DEF Copying
    <3>. QED
      BY <3>1, <3>2, Zenon DEF IInv, TableOK, HasParent
  <2>10. /\ \A q \in Proc : pc'[q] \in {"unused", "new"} => va[q] = 0 /\ sz[q] = 0
         /\ \A q \in Proc : pc'[q] = "unwind" => child[q] \in Proc
    BY <1>3, <1>5, Zenon DEF IInv, TableOK, NoSize, HasChild
  <2>11. \A q, o \in Proc : pc'[q] \in Copying /\ pc'[o] \in Copying /\ child[q] = child[o] => q = o
    BY <2>2, Zenon DEF IInv, TableOK, OneParent
  <2>12. BelowSize' /\ NoSize' /\ Cleared' /\ HasChild'
    BY <1>1, <2>5, <2>6, <2>10, Zenon DEF BelowSize, NoSize, Cleared, HasChild
  <2>13. Copied' /\ ToCopy' /\ Shared'
    <3>1. Copied'
      BY <1>1, <2>4, Zenon DEF Copied
    <3>2. ToCopy'
      BY <1>1, <2>7, Zenon DEF ToCopy
    <3>3. Shared'
      BY <1>1, <2>8, Zenon DEF Shared
    <3>. QED
      BY <3>1, <3>2, <3>3, Zenon
  <2>14. OneParent' /\ HasParent'
    BY <1>1, <2>9, <2>11, Zenon DEF OneParent, HasParent
  <2>. QED
    BY <2>12, <2>13, <2>14, Zenon DEF TableOK
<1>10. CountExact'
  <2>1. \A q \in Proc : \A b \in Va : Uncounted(q, b)' <=> Uncounted(q, b)
    BY <1>1, <1>4, <1>5, Zenon DEF Uncounted
  <2>2. \A q \in Proc : \A b \in Va :
          /\ pt'[q][b] # NULL <=> pt[q][b] # NULL
          /\ pt'[q][b].pa = pt[q][b].pa
    BY <1>1, <1>3, <1>6
  <2>3. \A q \in Proc : pc[q] \in {"copy", "map", "drop"} \/ pc'[q] \in {"copy", "map", "drop"} => pc'[q] = pc[q]
    BY <1>1, <1>4, <1>5, Zenon
  <2>4. \A r \in Page : \A q \in Proc : \A b \in 0 .. NVA + 1 : Ref(q, b, r)' <=> Ref(q, b, r)
    BY <1>1, <2>1, <2>2, <2>3 DEF Ref
  <2>. QED
    BY <1>1, <2>4, SameRefs, Zenon DEF IInv
<1>. QED
  BY <1>7, <1>8, <1>9, <1>10, Zenon DEF IInv

LEMMA AddrefIInv ==
  ASSUME CowConstants, Counting, Inv, NEW p \in Proc, uvmcopy_addref(p)
  PROVE  Inv'
<1>. SUFFICES ASSUME IInv PROVE IInv'
  BY Zenon DEF Inv
<1>1. /\ pc[p] = "addref" /\ cnt' = [cnt EXCEPT ![pt[p][va[p]].pa] = @ + 1]
      /\ va' = [va EXCEPT ![p] = va[p] + 1] /\ pc' = [pc EXCEPT ![p] = "fork"]
      /\ UNCHANGED <<sz, pt, mem, pa, new, out, child>>
  BY Zenon DEF uvmcopy_addref, goto
<1>2. /\ va[p] \in Nat /\ va[p] < sz[p] /\ sz[p] \in 0 .. NVA /\ NVA \in Nat
      /\ pt[p][va[p]] # NULL /\ pt[child[p]][va[p]] = pt[p][va[p]]
      /\ child[p] \in Proc /\ pc[child[p]] = "new"
  BY <1>1 DEF CowConstants, IInv, TypeOK, TableOK, Copied, Shared, Copying
<1>3. va[p] \in Va /\ va[p] + 1 \in 0 .. NVA
  BY <1>2 DEF Va
<1>4. PICK a \in Va, c \in Proc, r \in Page : a = va[p] /\ c = child[p] /\ r = pt[p][a].pa
  BY <1>2, <1>3, PteType, Zenon DEF IInv
<1>5. /\ va'[p] = a + 1 /\ \A q \in Proc : q # p => va'[q] = va[q]
      /\ pc'[p] = "fork" /\ \A q \in Proc : q # p => pc'[q] = pc[q]
      /\ cnt'[r] = cnt[r] + 1 /\ \A s \in Page \ {r} : cnt'[s] = cnt[s]
  BY <1>1, <1>4, Zenon DEF IInv, TypeOK
<1>6. TypeOK'
  <2>1. cnt' \in [Page -> Int]
    BY <1>1, <1>4 DEF IInv, TypeOK
  <2>2. pc' \in [Proc -> Label] /\ va' \in [Proc -> 0 .. NVA]
    BY <1>1, <1>3, Zenon DEF IInv, TypeOK, Label, Copying
  <2>. QED
    BY <1>1, <2>1, <2>2, Zenon DEF IInv, TypeOK
<1>7. FaultOK'
  BY <1>1, <1>5, FaultStep, Zenon DEF IInv, SameFault, Faulting
<1>8. TableOK'
  <2>1. \A b \in Va : b \in Int
    BY DEF CowConstants, Va
  <2>2. /\ \A b \in Va : b < a => pt[c][b] = pt[p][b]
        /\ \A b \in Va : b > a => pt[c][b] = NULL
    BY <1>1, <1>4, Zenon DEF IInv, TableOK, Copied, Copying
  <2>3. /\ va'[p] <= sz[p]
        /\ \A b \in Va : b < va'[p] => pt[c][b] = pt[p][b]
        /\ \A b \in Va : b >= va'[p] => pt[c][b] = NULL
    BY <1>2, <1>4, <1>5, <2>1, <2>2
  <2>4. \A b \in Va : b > va'[p] => b >= va'[p]
    BY <1>5, <2>1
  <2>5. va'[p] >= va'[p]
    BY <1>5, <2>1
  <2>6. \A q \in Proc : pc'[q] \in Copying <=> pc[q] \in Copying
    BY <1>1 DEF Copying
  <2>7. \A q \in Proc : pc'[q] \in Copying =>
          /\ child[q] \in Proc /\ pc'[child[q]] = "new" /\ va'[q] <= sz[q]
          /\ \A b \in Va : b < va'[q] => pt[child[q]][b] = pt[q][b]
          /\ \A b \in Va : b > va'[q] => pt[child[q]][b] = NULL
    <3>1. \A q \in Proc : pc[q] = "new" => pc'[q] = "new"
      BY <1>1
    <3>. QED
      BY <1>4, <1>5, <2>3, <2>4, <2>6, <3>1 DEF IInv, TableOK, Copied
  <2>8. \A q \in Proc : pc'[q] = "fork" /\ va'[q] \in Va => pt[child[q]][va'[q]] = NULL
    BY <1>4, <1>5, <2>3, <2>5 DEF IInv, TableOK, NoSize, Cleared, ToCopy
  <2>9. \A q \in Proc : pc'[q] = "new" => \E o \in Proc : pc'[o] \in Copying /\ child[o] = q
    BY <1>5, <2>6, Zenon DEF IInv, TableOK, HasParent
  <2>10. \A q, o \in Proc : pc'[q] \in Copying /\ pc'[o] \in Copying /\ child[q] = child[o] => q = o
    BY <2>6, Zenon DEF IInv, TableOK, OneParent
  <2>11. \A q \in Proc : pc'[q] \notin {"new", "exit"} => \A b \in Va : b >= sz[q]
             => pt[q][b] = NULL
    BY <1>1, <1>5, Zenon DEF IInv, TableOK, BelowSize
  <2>12. \A q \in Proc : /\ pc'[q] \in {"unused", "new"} => va'[q] = 0 /\ sz[q] = 0
                         /\ pc'[q] = "exit" => \A b \in Va : b < va'[q] => pt[q][b] = NULL
                         /\ pc'[q] = "unwind" => child[q] \in Proc
    BY <1>1, <1>5 DEF IInv, TableOK, NoSize, Cleared, HasChild
  <2>13. \A q \in Proc : pc'[q] = "addref" =>
           /\ va'[q] < sz[q] /\ pt[q][va'[q]] # NULL /\ pt[q][va'[q]].f
           /\ pt[child[q]][va'[q]] = pt[q][va'[q]]
    BY <1>5 DEF IInv, TableOK, Shared
  <2>14. BelowSize' /\ NoSize' /\ Cleared' /\ HasChild'
    BY <1>1, <2>11, <2>12, Zenon DEF BelowSize, NoSize, Cleared, HasChild
  <2>15. Copied' /\ ToCopy' /\ Shared'
    <3>1. Copied'
      BY <1>1, <2>7, Zenon DEF Copied
    <3>2. ToCopy'
      BY <1>1, <2>8, Zenon DEF ToCopy
    <3>3. Shared'
      BY <1>1, <2>13, Zenon DEF Shared
    <3>. QED
      BY <3>1, <3>2, <3>3, Zenon
  <2>16. OneParent' /\ HasParent'
    BY <1>1, <2>9, <2>10, Zenon DEF OneParent, HasParent
  <2>. QED
    BY <2>14, <2>15, <2>16, Zenon DEF TableOK
<1>9. OwnOK'
  BY <1>1, <1>5, OwnStep DEF IInv, OwnOK, OwnSole, NewCopied
<1>10. CountExact'
  <2>1. \A q \in Proc : \A b \in Va :
          Uncounted(q, b) <=> Uncounted(q, b)' \/ (q = c /\ b = a)
    BY <1>1, <1>4, <1>5 DEF Uncounted
  <2>2. ~ Uncounted(c, a)'
    BY <1>1, <1>4, <1>5 DEF Uncounted, IInv, TableOK, Copied, OneParent, Copying
  <2>3. a \in 0 .. NVA + 1 /\ a # NVA /\ a # NVA + 1 /\ TypeOK /\ CountExact
    BY DEF CowConstants, Va, IInv
  <2>4. ~ Ref(c, a, r) /\ Ref(c, a, r)'
    BY <1>1, <1>2, <1>4, <2>1, <2>2, <2>3, Zenon DEF Ref
  <2>5. \A q \in Proc : pc[q] \in {"copy", "map", "drop"} \/ pc'[q] \in {"copy", "map", "drop"} => pc'[q] = pc[q]
    BY <1>1
  <2>6. \A s \in Page : \A q \in Proc : \A b \in 0 .. NVA + 1 :
          ~ (s = r /\ q = c /\ b = a) => (Ref(q, b, s)' <=> Ref(q, b, s))
    BY <1>1, <1>2, <1>4, <2>1 DEF Ref
  <2>. QED
    BY <1>5, <2>3, <2>4, <2>6, AddRef
<1>. QED
  BY <1>6, <1>7, <1>8, <1>9, <1>10, Zenon DEF IInv

\* uvmunmap() of one page, for sbrk() and for a process that is gone.
LEMMA Unmap ==
  ASSUME CowConstants, Counting, Inv, NEW p \in Proc, pc[p] \in {"user", "exit"}, NEW a \in Va,
         pt[p][a] # NULL, kfree(pt[p][a].pa), setpte(p, a, NULL),
         UNCHANGED <<pc, pa, new, out, child>>,
         \A q \in Proc : q # p => va'[q] = va[q]
  PROVE  /\ pt' \in [Proc -> [Va -> PteOrNull]] /\ pt'[p][a] = NULL
         /\ \A q \in Proc : \A b \in Va : ~ (q = p /\ b = a) => pt'[q][b] = pt[q][b]
         /\ cnt' \in [Page -> Int] /\ mem' \in [Page -> Val \cup {JUNK}]
         /\ \A q \in Proc : \A b \in Va : pt[q][b] # NULL /\ ~ (q = p /\ b = a)
              => mem'[pt[q][b].pa] = mem[pt[q][b].pa]
         /\ FaultOK' /\ OwnOK' /\ CountExact'
<1>. SUFFICES ASSUME IInv
             PROVE  /\ pt' \in [Proc -> [Va -> PteOrNull]] /\ pt'[p][a] = NULL
                    /\ \A q \in Proc : \A b \in Va : ~ (q = p /\ b = a) => pt'[q][b] = pt[q][b]
                    /\ cnt' \in [Page -> Int] /\ mem' \in [Page -> Val \cup {JUNK}]
                    /\ \A q \in Proc : \A b \in Va : pt[q][b] # NULL /\ ~ (q = p /\ b = a)
                         => mem'[pt[q][b].pa] = mem[pt[q][b].pa]
                    /\ FaultOK' /\ OwnOK' /\ CountExact'
  BY Zenon DEF Inv
<1>0. TypeOK /\ CountExact
  BY Zenon DEF IInv
<1>1. PICK r \in Page : r = pt[p][a].pa
  BY <1>0, PteType, Zenon
<1>2. /\ pt' \in [Proc -> [Va -> PteOrNull]] /\ pt'[p][a] = NULL
      /\ \A q \in Proc : \A b \in Va : ~ (q = p /\ b = a) => pt'[q][b] = pt[q][b]
  <2>1. NULL \in PteOrNull
    BY Zenon DEF PteOrNull
  <2>. QED
    BY <1>0, <2>1, SetPte
<1>3. a \in 0 .. NVA + 1 /\ a # NVA /\ a # NVA + 1
  BY DEF CowConstants, Va
<1>4. \A b : ~ Uncounted(p, b)
  BY NotChild, Zenon
<1>5. Ref(p, a, r)
  BY <1>1, <1>4, Zenon DEF Ref
<1>6. kfree(r)
  BY <1>1, Zenon
<1>7. /\ cnt' \in [Page -> Int] /\ mem' \in [Page -> Val \cup {JUNK}]
      /\ \A q \in Proc : \A b \in Va : pt[q][b] # NULL /\ ~ (q = p /\ b = a)
           => mem'[pt[q][b].pa] = mem[pt[q][b].pa]
      /\ \A q \in Proc : pc[q] = "map" => mem'[new[q]] = mem'[pa[q]]
  BY <1>3, <1>5, <1>6, KfreeMem
<1>8. FaultOK'
  <2>1. FaultAt(p)'
    BY Zenon DEF FaultAt, Faulting
  <2>2. \A q \in Proc : q # p => SameFault(q)
    BY <1>2, Zenon DEF SameFault
  <2>. QED
    BY <2>1, <2>2, FaultStep, Zenon DEF IInv
<1>9. OwnOK'
  <2>1. \A q \in Proc : \A b \in Va : \A s : Maps(q, b, s)' => Maps(q, b, s)
    BY <1>2, Zenon DEF Maps
  <2>2. ASSUME NEW q \in Proc, NEW b \in Va, pt'[q][b] # NULL, pt'[q][b].w
        PROVE  Sole(q, b, pt[q][b].pa)'
    <3>1. pt'[q][b] = pt[q][b]
      BY <1>2, <2>2, Zenon
    <3>2. Sole(q, b, pt[q][b].pa)
      BY <2>2, <3>1, Zenon DEF IInv, OwnOK, WritableSole
    <3>. QED
      BY <2>1, <3>1, <3>2 DEF Sole
  <2>3. ASSUME NEW q \in Proc, pc'[q] = "own"
        PROVE  Sole(q, va[q], pa[q])'
    <3>1. q # p /\ Sole(q, va[q], pa[q])
      BY <2>3, Zenon DEF IInv, OwnOK, OwnSole
    <3>. QED
      BY <2>1, <3>1, Zenon DEF Sole
  <2>4. ASSUME NEW q \in Proc, pc'[q] \in {"copy", "map"}
        PROVE  /\ new[q] \in Page
               /\ \A o \in Proc : /\ \A b \in Va : ~ Maps(o, b, new[q])'
                                  /\ pc'[o] \in {"copy", "map"} /\ new[o] = new[q] => o = q
                                  /\ pc'[o] = "drop" => pa[o] # new[q]
    <3>1. /\ new[q] \in Page
          /\ \A o \in Proc : /\ \A b \in Va : ~ Maps(o, b, new[q])
                             /\ pc[o] \in {"copy", "map"} /\ new[o] = new[q] => o = q
                             /\ pc[o] = "drop" => pa[o] # new[q]
      BY <2>4, Zenon DEF IInv, OwnOK, NewSole
    <3>2. \A o \in Proc : \A b \in Va : ~ Maps(o, b, new[q])'
      BY <1>2, <3>1 DEF Maps
    <3>. QED
      BY <3>1, <3>2, Zenon
  <2>. QED
    BY <1>7, <2>2, <2>3, <2>4, Zenon DEF OwnOK, WritableSole, OwnSole, NewSole, NewCopied
<1>10. CountExact'
  <2>1. cnt'[r] = cnt[r] - 1 /\ \A s \in Page \ {r} : cnt'[s] = cnt[s]
    BY <1>0, <1>6, Zenon DEF kfree, TypeOK
  <2>2. \A q \in Proc : \A b \in Va : Uncounted(q, b)' <=> Uncounted(q, b)
    BY Zenon DEF Uncounted
  <2>3. ~ Ref(p, a, r)'
    BY <1>2, Zenon DEF Ref
  <2>4. \A s \in Page : \A q \in Proc : \A b \in 0 .. NVA + 1 :
          ~ (s = r /\ q = p /\ b = a) => (Ref(q, b, s)' <=> Ref(q, b, s))
    BY <1>1, <1>2, <2>2 DEF Ref
  <2>. QED
    BY <1>0, <1>3, <1>5, <2>1, <2>3, <2>4, DropRef
<1>. QED
  BY <1>2, <1>7, <1>8, <1>9, <1>10, Zenon

LEMMA SbrkIInv ==
  ASSUME CowConstants, Counting, Inv, NEW p \in Proc, sbrk(p)
  PROVE  Inv'
<1>. SUFFICES ASSUME IInv PROVE IInv'
  BY Zenon DEF Inv
<1>1. pc[p] = "user" /\ UNCHANGED <<pc, va, pa, new, out, child>>
  BY Zenon DEF sbrk
<1>2. sz[p] \in 0 .. NVA /\ NVA \in Nat /\ \A b \in Va : b \in Int
  BY DEF CowConstants, IInv, TypeOK, Va
<1>3. \A q \in Proc : pc[q] \in {"unused", "new", "exit", "fork", "addref"} => q # p
  BY <1>1, Zenon
<1>4. \A q \in Proc : pc[q] \in Copying => child[q] \in Proc /\ child[q] # p /\ q # p
  BY <1>1, Zenon DEF IInv, TableOK, Copied, Copying
<1>5. ASSUME NEW n \in 0 .. NVA, sz' = [sz EXCEPT ![p] = n],
             \A q \in Proc : \A b \in Va : q # p => pt'[q][b] = pt[q][b],
             \A b \in Va : b >= n => pt'[p][b] = NULL
      PROVE  TableOK'
  <2>1. sz'[p] = n /\ \A q \in Proc : q # p => sz'[q] = sz[q]
    BY <1>5, Zenon DEF IInv, TypeOK
  <2>2. \A q \in Proc : pc[q] \notin {"new", "exit"} => \A b \in Va : b >= sz'[q]
            => pt'[q][b] = NULL
    BY <1>5, <2>1 DEF IInv, TableOK, BelowSize
  <2>3. \A q \in Proc : pc[q] \in Copying =>
          /\ child[q] \in Proc /\ pc[child[q]] = "new" /\ va[q] <= sz'[q]
          /\ \A b \in Va : b < va[q] => pt'[child[q]][b] = pt'[q][b]
          /\ \A b \in Va : b > va[q] => pt'[child[q]][b] = NULL
    BY <1>4, <1>5 DEF IInv, TableOK, Copied
  <2>4. \A q \in Proc : pc[q] = "addref" =>
           /\ va[q] < sz'[q] /\ pt'[q][va[q]] # NULL /\ pt'[q][va[q]].f
           /\ pt'[child[q]][va[q]] = pt'[q][va[q]]
    <3>1. \A q \in Proc : pc[q] = "addref" => va[q] \in Va
      BY DEF CowConstants, IInv, TableOK, Shared, TypeOK, Va
    <3>. QED
      BY <1>4, <1>5, <3>1 DEF IInv, TableOK, Shared, Copying
  <2>5. \A q \in Proc : pc[q] = "fork" /\ va[q] \in Va => pt'[child[q]][va[q]] = NULL
    BY <1>4, <1>5, Zenon DEF IInv, TableOK, ToCopy, Copying
  <2>6. \A q \in Proc : pc[q] = "exit" => \A b \in Va : b < va[q] => pt'[q][b] = NULL
    BY <1>3, <1>5, Zenon DEF IInv, TableOK, Cleared
  <2>7. \A q \in Proc : pc[q] \in {"unused", "new"} => va[q] = 0 /\ sz'[q] = 0
    BY <1>3, <2>1, Zenon DEF IInv, TableOK, NoSize
  <2>8. BelowSize' /\ NoSize' /\ Cleared'
    BY <1>1, <2>2, <2>6, <2>7, Zenon DEF BelowSize, NoSize, Cleared
  <2>9. Copied' /\ ToCopy' /\ Shared'
    <3>1. Copied'
      BY <1>1, <2>3, Zenon DEF Copied
    <3>2. ToCopy'
      BY <1>1, <2>5, Zenon DEF ToCopy
    <3>3. Shared'
      BY <1>1, <2>4, Zenon DEF Shared
    <3>. QED
      BY <3>1, <3>2, <3>3, Zenon
  <2>10. OneParent' /\ HasParent' /\ HasChild'
    BY <1>1, Zenon DEF IInv, TableOK, OneParent, HasParent, HasChild
  <2>. QED
    BY <2>8, <2>9, <2>10, Zenon DEF TableOK
<1>6. ASSUME NEW n \in 0 .. NVA, sz' = [sz EXCEPT ![p] = n], UNCHANGED <<pt, cnt, mem>>,
             \A b \in Va : b >= n => pt[p][b] = NULL
      PROVE  IInv'
  <2>1. TypeOK'
    BY <1>1, <1>6, Zenon DEF IInv, TypeOK
  <2>2. FaultOK'
    BY <1>1, <1>6, Zenon DEF IInv, FaultOK, FaultAt
  <2>3. TableOK'
    BY <1>5, <1>6, Zenon
  <2>4. OwnOK'
    BY <1>1, <1>6, OwnStep DEF IInv, OwnOK, OwnSole, NewCopied
  <2>5. CountExact'
    BY <1>1, <1>6, RefsStep DEF IInv
  <2>. QED
    BY <2>1, <2>2, <2>3, <2>4, <2>5, Zenon DEF IInv
<1>7. \A b \in Va : b >= sz[p] => pt[p][b] = NULL
  BY <1>1, Zenon DEF IInv, TableOK, BelowSize
<1>8. CASE sz[p] < NVA /\ sz' = [sz EXCEPT ![p] = sz[p] + 1] /\ UNCHANGED <<pt, cnt, mem>>
  <2>1. sz[p] + 1 \in 0 .. NVA /\ \A b \in Va : b >= sz[p] + 1 => pt[p][b] = NULL
    BY <1>2, <1>7, <1>8
  <2>. QED
    BY <1>6, <1>8, <2>1, Zenon
<1>9. CASE /\ sz[p] > 1 /\ sz' = [sz EXCEPT ![p] = sz[p] - 1]
           /\ IF pt[p][sz[p] - 1] = NULL THEN UNCHANGED <<pt, cnt, mem>>
              ELSE kfree(pt[p][sz[p] - 1].pa) /\ setpte(p, sz[p] - 1, NULL)
  <2>1. PICK a \in Va : a = sz[p] - 1
    BY <1>2, <1>9 DEF Va
  <2>2. a \in 0 .. NVA /\ \A b \in Va : b >= a /\ b # a => pt[p][b] = NULL
    BY <1>2, <1>7, <1>9, <2>1
  <2>3. CASE pt[p][a] = NULL /\ UNCHANGED <<pt, cnt, mem>>
    BY <1>6, <1>9, <2>1, <2>2, <2>3, Zenon
  <2>4. CASE pt[p][a] # NULL /\ kfree(pt[p][a].pa) /\ setpte(p, a, NULL)
    <3>1. /\ pt' \in [Proc -> [Va -> PteOrNull]] /\ pt'[p][a] = NULL
          /\ \A q \in Proc : \A b \in Va : ~ (q = p /\ b = a) => pt'[q][b] = pt[q][b]
          /\ cnt' \in [Page -> Int] /\ mem' \in [Page -> Val \cup {JUNK}]
          /\ FaultOK' /\ OwnOK' /\ CountExact'
      BY <1>1, <2>4, Unmap, Zenon
    <3>2. TypeOK'
      BY <1>1, <1>9, <2>1, <2>2, <3>1, Zenon DEF IInv, TypeOK
    <3>3. TableOK'
      <4>1. \A b \in Va : b >= a => pt'[p][b] = NULL
        <5>1. \A b \in Va : b # a => pt'[p][b] = pt[p][b]
          BY <3>1, Zenon
        <5>. QED
          BY <2>2, <3>1, <5>1, Zenon
      <4>. QED
        BY <1>5, <1>9, <2>1, <2>2, <3>1, <4>1, Zenon
    <3>. QED
      BY <3>1, <3>2, <3>3, Zenon DEF IInv
  <2>. QED
    BY <1>9, <2>1, <2>3, <2>4, Zenon
<1>. QED
  BY <1>8, <1>9, Zenon DEF sbrk

LEMMA UnmapIInv ==
  ASSUME CowConstants, Counting, Inv, NEW p \in Proc, uvmunmap(p)
  PROVE  Inv'
<1>. SUFFICES ASSUME IInv PROVE IInv'
  BY Zenon DEF Inv
<1>1. pc[p] = "exit" /\ UNCHANGED <<pa, new, out, child>>
  BY Zenon DEF uvmunmap
<1>2. va[p] \in 0 .. NVA /\ NVA \in Nat /\ \A b \in Va : b \in Int
  BY DEF CowConstants, IInv, TypeOK, Va
<1>3. \A b \in Va : b < va[p] => pt[p][b] = NULL
  BY <1>1, Zenon DEF IInv, TableOK, Cleared
<1>4. \A q \in Proc : pc[q] \in Copying => child[q] \in Proc /\ child[q] # p /\ q # p
  BY <1>1, Zenon DEF IInv, TableOK, Copied, Copying
<1>5. ASSUME UNCHANGED <<pc, sz>>, va' = [va EXCEPT ![p] = va[p] + 1],
             \A q \in Proc : \A b \in Va : q # p => pt'[q][b] = pt[q][b],
             \A b \in Va : b < va[p] + 1 => pt'[p][b] = NULL
      PROVE  TableOK'
  <2>1. va'[p] = va[p] + 1 /\ \A q \in Proc : q # p => va'[q] = va[q]
    BY <1>5, Zenon DEF IInv, TypeOK
  <2>2. \A q \in Proc : pc[q] \notin {"new", "exit"} => \A b \in Va : b >= sz[q]
            => pt'[q][b] = NULL
    BY <1>1, <1>5, Zenon DEF IInv, TableOK, BelowSize
  <2>3. \A q \in Proc : pc[q] \in Copying =>
          /\ child[q] \in Proc /\ pc[child[q]] = "new" /\ va'[q] <= sz[q]
          /\ \A b \in Va : b < va'[q] => pt'[child[q]][b] = pt'[q][b]
          /\ \A b \in Va : b > va'[q] => pt'[child[q]][b] = NULL
    BY <1>4, <1>5 DEF IInv, TableOK, Copied
  <2>4. \A q \in Proc : pc[q] = "addref" =>
           /\ va'[q] < sz[q] /\ pt'[q][va'[q]] # NULL /\ pt'[q][va'[q]].f
           /\ pt'[child[q]][va'[q]] = pt'[q][va'[q]]
    <3>1. \A q \in Proc : pc[q] = "addref" => va[q] \in Va
      BY DEF CowConstants, IInv, TableOK, Shared, TypeOK, Va
    <3>. QED
      BY <1>4, <1>5, <3>1 DEF IInv, TableOK, Shared, Copying
  <2>5. \A q \in Proc : pc[q] = "fork" /\ va'[q] \in Va => pt'[child[q]][va'[q]] = NULL
    BY <1>4, <1>5 DEF IInv, TableOK, ToCopy, Copying
  <2>6. \A q \in Proc : pc[q] = "exit" => \A b \in Va : b < va'[q] => pt'[q][b] = NULL
    BY <1>5, <2>1 DEF IInv, TableOK, Cleared
  <2>7. \A q \in Proc : pc[q] \in {"unused", "new"} => va'[q] = 0 /\ sz[q] = 0
    BY <1>1, <2>1, Zenon DEF IInv, TableOK, NoSize
  <2>8. BelowSize' /\ NoSize' /\ Cleared'
    BY <1>5, <2>2, <2>6, <2>7, Zenon DEF BelowSize, NoSize, Cleared
  <2>9. Copied' /\ ToCopy' /\ Shared'
    <3>1. Copied'
      BY <1>1, <1>5, <2>3, Zenon DEF Copied
    <3>2. ToCopy'
      BY <1>1, <1>5, <2>5, Zenon DEF ToCopy
    <3>3. Shared'
      BY <1>1, <1>5, <2>4, Zenon DEF Shared
    <3>. QED
      BY <3>1, <3>2, <3>3, Zenon
  <2>10. OneParent' /\ HasParent' /\ HasChild'
    BY <1>1, <1>5, Zenon DEF IInv, TableOK, OneParent, HasParent, HasChild
  <2>. QED
    BY <2>8, <2>9, <2>10, Zenon DEF TableOK
<1>6. CASE va[p] < NVA /\ va' = [va EXCEPT ![p] = va[p] + 1] /\ UNCHANGED <<pc, sz>>
  <2>1. PICK a \in Va : a = va[p]
    BY <1>2, <1>6 DEF Va
  <2>2. a + 1 \in 0 .. NVA /\ \A b \in Va : b < a + 1 /\ b # a => pt[p][b] = NULL
    BY <1>2, <1>3, <1>6, <2>1
  <2>3. va'[p] = a + 1 /\ \A q \in Proc : q # p => va'[q] = va[q]
    BY <1>6, <2>1, Zenon DEF IInv, TypeOK
  <2>4. CASE pt[p][a] = NULL /\ UNCHANGED <<pt, cnt, mem>>
    <3>1. TypeOK'
      BY <1>1, <1>6, <2>1, <2>2, <2>4, Zenon DEF IInv, TypeOK
    <3>2. FaultOK'
      BY <1>1, <1>6, <2>3, <2>4, FaultStep, Zenon DEF IInv, SameFault, Faulting
    <3>3. TableOK'
      BY <1>5, <1>6, <2>1, <2>2, <2>4, Zenon
    <3>4. OwnOK'
      BY <1>1, <1>6, <2>3, <2>4, OwnStep DEF IInv, OwnOK, OwnSole, NewCopied
    <3>5. CountExact'
      BY <1>1, <1>6, <2>3, <2>4, RefsStep DEF IInv
    <3>. QED
      BY <3>1, <3>2, <3>3, <3>4, <3>5, Zenon DEF IInv
  <2>5. CASE pt[p][a] # NULL /\ kfree(pt[p][a].pa) /\ setpte(p, a, NULL)
    <3>1. /\ pt' \in [Proc -> [Va -> PteOrNull]] /\ pt'[p][a] = NULL
          /\ \A q \in Proc : \A b \in Va : ~ (q = p /\ b = a) => pt'[q][b] = pt[q][b]
          /\ cnt' \in [Page -> Int] /\ mem' \in [Page -> Val \cup {JUNK}]
          /\ FaultOK' /\ OwnOK' /\ CountExact'
      BY <1>1, <1>6, <2>5, Unmap
    <3>2. TypeOK'
      BY <1>1, <1>6, <2>1, <2>2, <3>1, Zenon DEF IInv, TypeOK
    <3>3. TableOK'
      <4>1. \A b \in Va : b < a + 1 => pt'[p][b] = NULL
        BY <2>2, <3>1
      <4>. QED
        BY <1>5, <1>6, <2>1, <3>1, <4>1, Zenon
    <3>. QED
      BY <3>1, <3>2, <3>3, Zenon DEF IInv
  <2>. QED
    BY <1>6, <2>1, <2>4, <2>5, Zenon DEF uvmunmap
<1>7. CASE /\ ~ va[p] < NVA /\ goto(p, "unused") /\ sz' = [sz EXCEPT ![p] = 0]
           /\ va' = [va EXCEPT ![p] = 0] /\ UNCHANGED <<pt, cnt, mem>>
  <2>1. /\ pc'[p] = "unused" /\ sz'[p] = 0 /\ va'[p] = 0
        /\ \A q \in Proc : q # p => pc'[q] = pc[q] /\ sz'[q] = sz[q] /\ va'[q] = va[q]
    BY <1>7, Zenon DEF goto, IInv, TypeOK
  <2>2. \A b \in Va : pt[p][b] = NULL
    BY <1>2, <1>3, <1>7 DEF Va
  <2>3. TypeOK'
    <3>1. 0 \in 0 .. NVA /\ "unused" \in Label
      BY <1>2 DEF Label
    <3>. QED
      BY <1>1, <1>7, <3>1, Zenon DEF goto, IInv, TypeOK
  <2>4. FaultOK'
    BY <1>1, <1>7, <2>1, FaultStep, Zenon DEF IInv, SameFault, Faulting
  <2>5. TableOK'
    <3>1. \A q \in Proc : pc'[q] \in Copying <=> pc[q] \in Copying
      BY <1>1, <2>1, Zenon DEF Copying
    <3>2. \A q \in Proc : pc'[q] \in Copying =>
            /\ q # p /\ child[q] \in Proc /\ child[q] # p /\ pc'[child[q]] = "new"
            /\ sz'[q] = sz[q] /\ va'[q] = va[q] /\ pc'[q] = pc[q]
      BY <1>4, <2>1, <3>1, Zenon DEF IInv, TableOK, Copied
    <3>3. \A q \in Proc : pc'[q] = "new" => \E o \in Proc : pc'[o] \in Copying /\ child[o] = q
      BY <2>1, <3>1, Zenon DEF IInv, TableOK, HasParent
    <3>4. BelowSize' /\ NoSize' /\ Cleared' /\ HasChild'
      BY <1>1, <1>7, <2>1, <2>2, Zenon
         DEF IInv, TableOK, BelowSize, NoSize, Cleared, HasChild
    <3>5. Copied' /\ ToCopy' /\ Shared'
      <4>1. Copied'
        BY <1>1, <1>7, <3>2, Zenon DEF IInv, TableOK, Copied
      <4>2. ToCopy'
        BY <1>1, <1>7, <3>2 DEF IInv, TableOK, ToCopy, Copying
      <4>3. Shared'
        BY <1>1, <1>7, <3>2 DEF IInv, TableOK, Shared, Copying
      <4>. QED
        BY <4>1, <4>2, <4>3, Zenon
    <3>6. OneParent' /\ HasParent'
      BY <1>1, <3>1, <3>3, Zenon DEF IInv, TableOK, OneParent, HasParent
    <3>. QED
      BY <3>4, <3>5, <3>6, Zenon DEF TableOK
  <2>6. OwnOK'
    BY <1>1, <1>7, <2>1, OwnStep DEF IInv, OwnOK, OwnSole, NewCopied
  <2>7. CountExact'
    BY <1>1, <1>7, <2>1, RefsStep DEF IInv
  <2>. QED
    BY <2>3, <2>4, <2>5, <2>6, <2>7, Zenon DEF IInv
<1>. QED
  BY <1>6, <1>7, Zenon DEF uvmunmap

LEMMA NextIInv ==
  ASSUME CowConstants, Counting, Inv, [Next]_vars
  PROVE  Inv'
<1>1. CASE UNCHANGED vars
  <2>. SUFFICES ASSUME IInv PROVE IInv'
    BY Zenon DEF Inv
  <2>0. UNCHANGED <<sz, pt, cnt, mem, pc, va, pa, new, out, child>>
    BY <1>1, Zenon DEF vars
  <2>1. CountExact'
    BY <2>0, RefsStep, Zenon DEF IInv
  <2>2. TypeOK'
    BY <2>0, Zenon DEF IInv, TypeOK
  <2>3. FaultOK'
    BY <2>0, FaultStep, Zenon DEF IInv, SameFault
  <2>4. BelowSize' /\ NoSize' /\ Cleared' /\ HasChild'
    BY <2>0, Zenon DEF IInv, TableOK, BelowSize, NoSize, Cleared, HasChild
  <2>5. Copied' /\ ToCopy' /\ Shared'
    <3>1. Copied'
      BY <2>0, Zenon DEF IInv, TableOK, Copied
    <3>2. ToCopy'
      BY <2>0, Zenon DEF IInv, TableOK, ToCopy
    <3>3. Shared'
      BY <2>0, Zenon DEF IInv, TableOK, Shared
    <3>. QED
      BY <3>1, <3>2, <3>3, Zenon
  <2>6. OneParent' /\ HasParent'
    BY <2>0, Zenon DEF IInv, TableOK, OneParent, HasParent
  <2>7. OwnOK'
    BY <2>0, OwnStep, Zenon DEF IInv, OwnOK, OwnSole, NewCopied
  <2>. QED
    BY <2>1, <2>2, <2>3, <2>4, <2>5, <2>6, <2>7, Zenon DEF IInv, TableOK
<1>2. ASSUME NEW p \in Proc, NEW a \in Va, lazy(p, a)
      PROVE  Inv'
  <2>1. (\E r \in Page : LazyPage(p, a, r)) \/
        (/\ pc[p] = "user" /\ goto(p, "exit") /\ va' = [va EXCEPT ![p] = 0]
         /\ UNCHANGED <<cnt, mem, pt, sz, pa, new, out, child>>)
    BY <1>2, Zenon DEF lazy, LazyPage
  <2>. QED
    BY <2>1, LazyIInv, NoMemIInv, Zenon
<1>3. ASSUME NEW p \in Proc, cow_alloc(p)
      PROVE  Inv'
  <2>1. (\E r \in Page : AllocPage(p, r)) \/
        (/\ pc[p] = "alloc" /\ goto(p, IF out[p] = NULL THEN "exit" ELSE "user")
         /\ va' = [va EXCEPT ![p] = 0]
         /\ pa' = [pa EXCEPT ![p] = NULL] /\ out' = [out EXCEPT ![p] = NULL]
         /\ UNCHANGED <<cnt, new, sz, pt, mem, child>>)
    BY <1>3, Zenon DEF cow_alloc, AllocPage
  <2>2. CASE out[p] = NULL
    BY <2>1, AllocIInv, NoMemIInv, Zenon
  <2>3. CASE out[p] # NULL
    BY <2>1, AllocIInv, NoMemIInv, Zenon
  <2>. QED
    BY <2>2, <2>3, Zenon
<1>4. ASSUME NEW p \in Proc, uvmcopy(p)
      PROVE  Inv'
  <2>1. CASE pt[p][va[p]] = NULL
    BY <1>4, <2>1, SkipIInv, Zenon
  <2>2. CASE pt[p][va[p]] # NULL
    <3>1. SharePage(p) \/ ShareFails(p)
      BY <1>4, <2>2, Zenon DEF uvmcopy, SharePage, ShareFails
    <3>. QED
      BY <3>1, ShareIInv, ShareFailsIInv, Zenon
  <2>. QED
    BY <2>1, <2>2, Zenon
<1>. QED
  BY <1>1, <1>2, <1>3, <1>4, StoreIInv, CopyoutIInv, CowpageIInv, WriteIInv, CheckIInv,
     OwnIInv, CopyIInv, MapIInv, DropIInv, ForkIInv, AddrefIInv, ForkDoneIInv,
     ForkFailIInv, SbrkIInv, ExitIInv, UnmapIInv, Zenon DEF Next

-----------------------------------------------------------------------------
(* Theorems.                                                               *)

INSTANCE FiniteSetTheorems

\* Sets of references are finite.
LEMMA CountingHolds ==
  ASSUME CowConstants PROVE Counting
<1>1. IsFiniteSet(0 .. NVA + 1)
  BY FS_Interval DEF CowConstants
<1>2. IsFiniteSet(Places)
  BY <1>1, FS_Product, Zenon DEF CowConstants, Places
<1>3. ASSUME NEW S \in SUBSET Places
      PROVE  /\ IsFiniteSet(S) /\ Cardinality(S) \in Nat
             /\ Cardinality(S) = 0 => S = {}
             /\ Cardinality(S) = 1 => \E h \in Places : S = {h}
  <2>1. IsFiniteSet(S)
    BY <1>2, FS_Subset, Zenon
  <2>2. Cardinality(S) \in Nat /\ (Cardinality(S) = 0 => S = {})
    BY <2>1, FS_CardinalityType, FS_EmptySet, Zenon
  <2>3. Cardinality(S) = 1 => \E h : S = {h}
    BY <2>1, FS_Singleton, Zenon
  <2>. QED
    BY <2>1, <2>2, <2>3, Zenon
<1>4. \A S \in SUBSET Places : \A h \in Places \ S : Cardinality(S \cup {h}) = Cardinality(S) + 1
  BY <1>3, FS_AddElement, Zenon
<1>5. \A S \in SUBSET Places : \A h \in S : Cardinality(S \ {h}) = Cardinality(S) - 1
  BY <1>3, FS_RemoveElement, Zenon
<1>6. Cardinality({}) = 0
  BY FS_EmptySet, Zenon
<1>. QED
  BY <1>3, <1>4, <1>5, <1>6, Zenon DEF Counting

LEMMA Invariance == Spec => []Inv
<1>1. Init => Inv
  BY CowAssumption, InitIInv, CountingHolds, Zenon
<1>2. Inv /\ [Next]_vars => Inv'
  BY CowAssumption, NextIInv, CountingHolds, Zenon
<1>. QED
  BY <1>1, <1>2, PTL DEF Spec

\* The count that kalloc(), kfree() and kaddrefcnt() keep of a page is the number of page
\* table entries that map it and of the references that cowalloc() and uvmcopy() are about
\* to make or to drop, with any number of processes and pages: kfree() frees a page with
\* its last reference and no sooner.
THEOREM CountsSafe == Spec => []CountExact
<1>1. Inv => CountExact
  BY Zenon DEF Inv, IInv
<1>. QED
  BY <1>1, Invariance, PTL

\* A page that has PTE_W in a page table is in no other page table, and nowhere else in
\* that one, though cowalloc() reads the count of a page without ref.lock and acts on it.
THEOREM PrivateSafe == Spec => []WritableIsPrivate
<1>1. Inv => WritableIsPrivate
  <2>1. Inv => TypeOK /\ WritableSole
    BY Zenon DEF Inv, IInv, OwnOK
  <2>. QED
    BY <2>1 DEF WritableSole, Sole, Maps, WritableIsPrivate
<1>. QED
  BY <1>1, Invariance, PTL

-----------------------------------------------------------------------------
(* Refinement of PrivateMemory.                                            *)

Alive(p) == pc[p] \notin {"unused", "new", "exit"}
Cell(p, a) == IF pt[p][a] = NULL THEN 0 ELSE mem[pt[p][a].pa]

\* What space is, in these terms.
LEMMA SpaceType ==
  ASSUME CowConstants, TypeOK
  PROVE  /\ space = [p \in Proc |-> IF Alive(p) THEN [a \in Va |-> Cell(p, a)] ELSE NULL]
         /\ \A p \in Proc : Alive(p) => /\ space[p] = [a \in Va |-> Cell(p, a)]
                                        /\ space[p] # NULL
         /\ \A p \in Proc : ~ Alive(p) => space[p] = NULL
<1>1. space = [p \in Proc |-> IF Alive(p) THEN [a \in Va |-> Cell(p, a)] ELSE NULL]
  BY Zenon DEF space, Alive, Cell
<1>2. \A p \in Proc : \A a \in Va : Cell(p, a) \in Val \cup {JUNK}
  BY PteType, Zenon DEF CowConstants, TypeOK, Cell
<1>3. \A p \in Proc : [a \in Va |-> Cell(p, a)] \in [Va -> Val \cup {JUNK}]
  BY <1>2, Zenon
<1>. QED
  BY <1>1, <1>3, Zenon DEF CowConstants

LEMMA SpacePrime ==
  space' = [p \in Proc |-> IF Alive(p)' THEN [a \in Va |-> Cell(p, a)'] ELSE NULL]
<1>. QED
  BY Zenon DEF space, Alive, Cell

\* A step that no process sees.
LEMMA Stutter ==
  ASSUME \A q \in Proc : Alive(q)' <=> Alive(q),
         \A q \in Proc : \A b \in Va : Alive(q) => Cell(q, b)' = Cell(q, b)
  PROVE  space' = space
<1>1. space = [p \in Proc |-> IF Alive(p) THEN [a \in Va |-> Cell(p, a)] ELSE NULL]
  BY Zenon DEF space, Alive, Cell
<1>2. \A q \in Proc : Alive(q) => [b \in Va |-> Cell(q, b)'] = [b \in Va |-> Cell(q, b)]
  BY Zenon
<1>. QED
  BY <1>1, SpacePrime, Zenon

\* A store by process p.
LEMMA OneCell ==
  ASSUME CowConstants, TypeOK, NEW p \in Proc, NEW a \in Va, NEW v, Alive(p),
         \A q \in Proc : Alive(q)' <=> Alive(q),
         Cell(p, a)' = v,
         \A q \in Proc : \A b \in Va : Alive(q) /\ ~ (q = p /\ b = a)
             => Cell(q, b)' = Cell(q, b)
  PROVE  Private!Store(p, a, v)
<1>1. space[p] # NULL /\ space[p] = [b \in Va |-> Cell(p, b)]
  BY SpaceType, Zenon
<1>2. [b \in Va |-> Cell(p, b)'] = [space[p] EXCEPT ![a] = v]
  BY <1>1, Zenon
<1>3. \A q \in Proc : q # p /\ Alive(q)
          => [b \in Va |-> Cell(q, b)'] = [b \in Va |-> Cell(q, b)]
  BY Zenon
<1>4. \A q \in Proc : q # p => space'[q] = space[q]
  BY SpaceType, SpacePrime
<1>5. space'[p] = [space[p] EXCEPT ![a] = v]
  BY <1>2, SpacePrime, Zenon
<1>6. space' = [space EXCEPT ![p] = [space[p] EXCEPT ![a] = v]]
  BY <1>4, <1>5, SpaceType, SpacePrime, Zenon
<1>. QED
  BY <1>1, <1>6, Zenon DEF Private!Store

\* Process p is gone.
LEMMA Gone ==
  ASSUME CowConstants, TypeOK, NEW p \in Proc, Alive(p), ~ Alive(p)',
         \A q \in Proc : q # p => (Alive(q)' <=> Alive(q)),
         \A q \in Proc : \A b \in Va : Alive(q) => Cell(q, b)' = Cell(q, b)
  PROVE  Private!Exit(p)
<1>1. space[p] # NULL /\ space'[p] = NULL
  BY SpaceType, SpacePrime, Zenon
<1>2. \A q \in Proc : Alive(q) => [b \in Va |-> Cell(q, b)'] = [b \in Va |-> Cell(q, b)]
  BY Zenon
<1>3. \A q \in Proc : q # p => space'[q] = space[q]
  BY SpaceType, SpacePrime
<1>4. space' = [space EXCEPT ![p] = NULL]
  BY <1>1, <1>3, SpaceType, SpacePrime, Zenon
<1>. QED
  BY <1>1, <1>4, Zenon DEF Private!Exit

\* Process c starts with what process p sees.
LEMMA Forked ==
  ASSUME CowConstants, TypeOK, NEW p \in Proc, NEW c \in Proc, Alive(p), ~ Alive(c), Alive(c)',
         \A q \in Proc : q # c => (Alive(q)' <=> Alive(q)),
         \A q \in Proc : \A b \in Va : Alive(q) => Cell(q, b)' = Cell(q, b),
         \A b \in Va : Cell(c, b)' = Cell(p, b)
  PROVE  Private!Fork(p, c)
<1>1. space[p] # NULL /\ space[c] = NULL /\ space[p] = [b \in Va |-> Cell(p, b)]
  BY SpaceType, Zenon
<1>2. \A q \in Proc : Alive(q) => [b \in Va |-> Cell(q, b)'] = [b \in Va |-> Cell(q, b)]
  BY Zenon
<1>3. [b \in Va |-> Cell(c, b)'] = [b \in Va |-> Cell(p, b)]
  BY Zenon
<1>4. \A q \in Proc : q # c => space'[q] = space[q]
  BY SpaceType, SpacePrime
<1>5. space'[c] = space[p]
  BY <1>1, SpacePrime, Zenon
<1>6. space' = [space EXCEPT ![c] = space[p]]
  BY <1>4, <1>5, SpaceType, SpacePrime, Zenon
<1>. QED
  BY <1>1, <1>6, Zenon DEF Private!Fork

\* What follows for every action is which of these steps it is.
LEMMA StoreStep ==
  ASSUME CowConstants, Inv, NEW p \in Proc, NEW a \in Va, NEW v \in Val, store(p, a, v)
  PROVE  Private!Store(p, a, v)
<1>. SUFFICES ASSUME IInv
             PROVE  Private!Store(p, a, v)
  BY Zenon DEF Inv
<1>1. /\ pc[p] = "user" /\ pt[p][a] # NULL /\ pt[p][a].w /\ mem' = [mem EXCEPT ![pt[p][a].pa] = v]
      /\ UNCHANGED <<pt, pc>> /\ TypeOK
  BY Zenon DEF store, IInv
<1>2. pt[p][a].pa \in Page /\ \A q \in Proc : \A b \in Va : pt[q][b] # NULL
          => pt[q][b].pa \in Page
  BY <1>1, PteType, Zenon
<1>3. \A q \in Proc : \A b \in Va : pt[q][b] # NULL /\ ~ (q = p /\ b = a)
          => pt[q][b].pa # pt[p][a].pa
  BY <1>1 DEF IInv, OwnOK, WritableSole, Sole, Maps
<1>4. mem'[pt[p][a].pa] = v /\ \A r \in Page : r # pt[p][a].pa => mem'[r] = mem[r]
  BY <1>1, <1>2, Zenon DEF TypeOK
<1>5. Alive(p) /\ \A q \in Proc : Alive(q)' <=> Alive(q)
  BY <1>1, Zenon DEF Alive
<1>6. /\ Cell(p, a)' = v
      /\ \A q \in Proc : \A b \in Va : ~ (q = p /\ b = a) => Cell(q, b)' = Cell(q, b)
  BY <1>1, <1>3, <1>4 DEF Cell
<1>. QED
  BY <1>1, <1>5, <1>6, OneCell, Zenon

LEMMA WriteStep ==
  ASSUME CowConstants, Inv, NEW p \in Proc, copyout_write(p)
  PROVE  \E a \in Va, v \in Val : Private!Store(p, a, v)
<1>. SUFFICES ASSUME IInv
             PROVE  \E a \in Va, v \in Val : Private!Store(p, a, v)
  BY Zenon DEF Inv
<1>1. /\ pc[p] = "out" /\ mem' = [mem EXCEPT ![pa[p]] = out[p]] /\ goto(p, "user")
      /\ UNCHANGED pt /\ TypeOK
  BY Zenon DEF copyout_write, IInv
<1>2. PICK a \in Va, v \in Val : pt[p][a] # NULL /\ pt[p][a].w /\ pt[p][a].pa = pa[p] /\ v = out[p]
  BY <1>1, Zenon DEF IInv, FaultOK, FaultAt
<1>3. pt[p][a].pa \in Page /\ \A q \in Proc : \A b \in Va : pt[q][b] # NULL
          => pt[q][b].pa \in Page
  BY <1>1, <1>2, PteType, Zenon
<1>4. \A q \in Proc : \A b \in Va : pt[q][b] # NULL /\ ~ (q = p /\ b = a)
          => pt[q][b].pa # pt[p][a].pa
  BY <1>2 DEF IInv, OwnOK, WritableSole, Sole, Maps
<1>5. mem'[pt[p][a].pa] = v /\ \A r \in Page : r # pt[p][a].pa => mem'[r] = mem[r]
  BY <1>1, <1>2, <1>3, Zenon DEF TypeOK
<1>6. Alive(p) /\ \A q \in Proc : Alive(q)' <=> Alive(q)
  BY <1>1 DEF Alive, goto
<1>7. /\ Cell(p, a)' = v
      /\ \A q \in Proc : \A b \in Va : ~ (q = p /\ b = a) => Cell(q, b)' = Cell(q, b)
  BY <1>1, <1>2, <1>4, <1>5 DEF Cell
<1>8. Private!Store(p, a, v)
  BY <1>1, <1>6, <1>7, OneCell, Zenon
<1>. QED
  BY <1>8, Zenon

LEMMA LazyStep ==
  ASSUME CowConstants, Inv, NEW p \in Proc, NEW a \in Va, NEW r \in Page, LazyPage(p, a, r)
  PROVE  space' = space
<1>. SUFFICES ASSUME IInv
             PROVE  space' = space
  BY Zenon DEF Inv
<1>1. pt[p][a] = NULL /\ UNCHANGED pc /\ cnt[r] = 0 /\ TypeOK
  BY Zenon DEF LazyPage, kalloc, IInv
<1>2. \A q \in Proc : \A b \in Va : pt[q][b] # NULL => pt[q][b].pa # r /\ pt[q][b].pa \in Page
  BY <1>1, CountingHolds, FreePage, PteType DEF Maps
<1>3. /\ pt'[p][a] # NULL /\ pt'[p][a].pa = r
      /\ \A q \in Proc : \A b \in Va : ~ (q = p /\ b = a) => pt'[q][b] = pt[q][b]
  BY <1>1, NewPte, SetPte DEF LazyPage
<1>4. mem'[r] = 0 /\ \A s \in Page : s # r => mem'[s] = mem[s]
  BY <1>1, Zenon DEF LazyPage, TypeOK
<1>5. \A q \in Proc : \A b \in Va : Cell(q, b)' = Cell(q, b)
  BY <1>1, <1>2, <1>3, <1>4 DEF Cell
<1>6. \A q \in Proc : Alive(q)' <=> Alive(q)
  BY <1>1, Zenon DEF Alive
<1>. QED
  BY <1>5, <1>6, Stutter, Zenon

\* Steps that change neither a page table nor memory.
LEMMA QuietStep ==
  ASSUME UNCHANGED <<pt, mem>>, \A q \in Proc : Alive(q)' <=> Alive(q)
  PROVE  space' = space
<1>1. \A q \in Proc : \A b \in Va : Cell(q, b)' = Cell(q, b)
  BY Zenon DEF Cell
<1>. QED
  BY <1>1, Stutter, Zenon

LEMMA GoneStep ==
  ASSUME CowConstants, Inv, NEW p \in Proc, pc[p] \in {"user", "alloc"},
         goto(p, "exit"), UNCHANGED <<pt, mem>>
  PROVE  Private!Exit(p)
<1>. SUFFICES ASSUME IInv
             PROVE  Private!Exit(p)
  BY Zenon DEF Inv
<1>1. pc'[p] = "exit" /\ \A q \in Proc : q # p => pc'[q] = pc[q]
  BY Zenon DEF goto, IInv, TypeOK
<1>2. Alive(p) /\ ~ Alive(p)' /\ \A q \in Proc : q # p => (Alive(q)' <=> Alive(q))
  BY <1>1, Zenon DEF Alive
<1>3. \A q \in Proc : \A b \in Va : Cell(q, b)' = Cell(q, b)
  BY Zenon DEF Cell
<1>4. TypeOK
  BY Zenon DEF IInv
<1>. QED
  BY <1>2, <1>3, <1>4, Gone, Zenon

LEMMA OwnedStep ==
  ASSUME CowConstants, Inv, NEW p \in Proc, cow_own(p)
  PROVE  space' = space
<1>. SUFFICES ASSUME IInv
             PROVE  space' = space
  BY Zenon DEF Inv
<1>1. /\ pc[p] = "own" /\ TypeOK /\ UNCHANGED mem
      /\ va[p] \in Va /\ pt[p][va[p]] # NULL
  BY Zenon DEF cow_own, IInv, FaultOK, FaultAt, Faulting
<1>2. PICK a \in Va : a = va[p]
  BY <1>1, Zenon
<1>3. pt[p][a] \in Pte
  BY <1>1, <1>2, PteType, Zenon
<1>4. PICK e \in PteOrNull : e = [pt[p][a] EXCEPT !.w = TRUE, !.f = FALSE]
  BY <1>3, Zenon DEF PteOrNull, Pte
<1>5. e # NULL /\ e.pa = pt[p][a].pa
  BY <1>3, <1>4, Zenon DEF CowConstants, Pte
<1>6. setpte(p, a, e)
  BY <1>2, <1>4, Zenon DEF cow_own
<1>7. pt'[p][a] = e /\ \A q \in Proc : \A b \in Va : ~ (q = p /\ b = a) => pt'[q][b] = pt[q][b]
  BY <1>1, <1>6, SetPte
<1>8. \A q \in Proc : \A b \in Va : Cell(q, b)' = Cell(q, b)
  BY <1>1, <1>2, <1>5, <1>7, Zenon DEF Cell
<1>9. \A q \in Proc : Alive(q)' <=> Alive(q)
  BY DEF cow_own, ret, goto, Alive
<1>. QED
  BY <1>8, <1>9, Stutter, Zenon

LEMMA CopyStep ==
  ASSUME CowConstants, Inv, NEW p \in Proc, cow_copy(p)
  PROVE  space' = space
<1>. SUFFICES ASSUME IInv
             PROVE  space' = space
  BY Zenon DEF Inv
<1>1. /\ pc[p] = "copy" /\ TypeOK /\ UNCHANGED pt /\ goto(p, "map")
      /\ mem' = [mem EXCEPT ![new[p]] = mem[pa[p]]]
  BY Zenon DEF cow_copy, IInv
<1>2. new[p] \in Page /\ \A q \in Proc : \A b \in Va : pt[q][b] # NULL => pt[q][b].pa # new[p]
  BY <1>1, Zenon DEF IInv, OwnOK, NewSole, Maps
<1>3. \A q \in Proc : \A b \in Va : pt[q][b] # NULL => mem'[pt[q][b].pa] = mem[pt[q][b].pa]
  BY <1>1, <1>2
<1>4. \A q \in Proc : \A b \in Va : Cell(q, b)' = Cell(q, b)
  BY <1>1, <1>3, Zenon DEF Cell
<1>5. \A q \in Proc : Alive(q)' <=> Alive(q)
  BY <1>1 DEF goto, Alive
<1>. QED
  BY <1>4, <1>5, Stutter, Zenon

LEMMA MapStep ==
  ASSUME CowConstants, Inv, NEW p \in Proc, cow_map(p)
  PROVE  space' = space
<1>. SUFFICES ASSUME IInv
             PROVE  space' = space
  BY Zenon DEF Inv
<1>1. /\ pc[p] = "map" /\ TypeOK /\ UNCHANGED mem /\ goto(p, "drop")
      /\ mem[new[p]] = mem[pa[p]]
  BY Zenon DEF cow_map, IInv, OwnOK, NewCopied
<1>2. PICK a \in Va, n \in Page : a = va[p] /\ n = new[p] /\ pt[p][a] # NULL /\ pt[p][a].pa = pa[p]
  BY <1>1, Zenon DEF IInv, FaultOK, FaultAt, Faulting, OwnOK, NewSole
<1>3. /\ pt'[p][a] # NULL /\ pt'[p][a].pa = n
      /\ \A q \in Proc : \A b \in Va : ~ (q = p /\ b = a) => pt'[q][b] = pt[q][b]
  BY <1>1, <1>2, NewPte, SetPte DEF cow_map
<1>4. \A q \in Proc : \A b \in Va : Cell(q, b)' = Cell(q, b)
  BY <1>1, <1>2, <1>3, Zenon DEF Cell
<1>5. \A q \in Proc : Alive(q)' <=> Alive(q)
  BY <1>1 DEF goto, Alive
<1>. QED
  BY <1>4, <1>5, Stutter, Zenon

LEMMA DropStep ==
  ASSUME CowConstants, Inv, NEW p \in Proc, cow_drop(p)
  PROVE  space' = space
<1>. SUFFICES ASSUME IInv
             PROVE  space' = space
  BY Zenon DEF Inv
<1>1. pc[p] = "drop" /\ TypeOK /\ UNCHANGED pt /\ kfree(pa[p]) /\ ret(p, new[p])
  BY Zenon DEF cow_drop, IInv
<1>2. PICK r \in Page : r = pa[p]
  BY <1>1, Zenon DEF IInv, FaultOK, FaultAt
<1>3. NVA + 1 \in 0 .. NVA + 1 /\ NVA + 1 \notin Va
  BY DEF CowConstants, Va
<1>4. Ref(p, NVA + 1, r) /\ kfree(r)
  BY <1>1, <1>2, Zenon DEF Ref
<1>5. \A q \in Proc : \A b \in Va : pt[q][b] # NULL /\ ~ (q = p /\ b = NVA + 1)
        => mem'[pt[q][b].pa] = mem[pt[q][b].pa]
  BY <1>1, <1>3, <1>4, CountingHolds, KfreeMem, Zenon
<1>6. \A q \in Proc : \A b \in Va : Cell(q, b)' = Cell(q, b)
  BY <1>1, <1>3, <1>5, Zenon DEF Cell
<1>7. \A q \in Proc : Alive(q)' <=> Alive(q)
  <2>1. pc'[p] \in {"user", "out"} /\ \A q \in Proc : q # p => pc'[q] = pc[q]
    BY <1>1, Zenon DEF ret, goto, TypeOK
  <2>. QED
    BY <1>1, <2>1, Zenon DEF Alive
<1>. QED
  BY <1>6, <1>7, Stutter, Zenon

LEMMA CopyingStep ==
  ASSUME CowConstants, Inv, NEW p \in Proc, uvmcopy(p)
  PROVE  space' = space
<1>. SUFFICES ASSUME IInv
             PROVE  space' = space
  BY Zenon DEF Inv
<1>1. pc[p] = "fork" /\ va[p] < sz[p] /\ TypeOK /\ UNCHANGED mem
  BY Zenon DEF uvmcopy, IInv
<1>2. PICK a \in Va, c \in Proc : a = va[p] /\ c = child[p] /\ pc[c] = "new"
  BY <1>1 DEF CowConstants, IInv, TypeOK, TableOK, Copied, Copying, Va
<1>3. CASE pt[p][a] = NULL
  BY <1>2, <1>3, QuietStep, Zenon DEF uvmcopy, Alive
<1>4. CASE pt[p][a] # NULL
  <2>1. PICK e \in PteOrNull : e = shared(pt[p][a]) /\ e # NULL /\ e.pa = pt[p][a].pa
    BY <1>1, <1>4, SharedPte, Zenon DEF TypeOK
  <2>2. /\ pt' = [pt EXCEPT ![p][a] = e, ![c][a] = e] \/ pt' = [pt EXCEPT ![p][a] = e]
        /\ goto(p, "addref") \/ pc' = [pc EXCEPT ![p] = "unwind", ![c] = "exit"]
    BY <1>2, <1>4, <2>1, Zenon DEF uvmcopy, setpte
  <2>3. pt'[p][a] = e /\ \A q \in Proc : \A b \in Va : q # c /\ ~ (q = p /\ b = a)
            => pt'[q][b] = pt[q][b]
    BY <1>1, <2>2 DEF TypeOK
  <2>4. \A q \in Proc : \A b \in Va : q # c => Cell(q, b)' = Cell(q, b)
    BY <1>1, <1>4, <2>1, <2>3, Zenon DEF Cell
  <2>5. \A q \in Proc : Alive(q)' <=> Alive(q)
    BY <1>1, <1>2, <2>2, Zenon DEF goto, Alive, TypeOK
  <2>6. ~ Alive(c)
    BY <1>2, Zenon DEF Alive
  <2>. QED
    BY <2>4, <2>5, <2>6, Stutter, Zenon
<1>. QED
  BY <1>3, <1>4, Zenon

LEMMA ForkDoneStep ==
  ASSUME CowConstants, Inv, NEW p \in Proc, fork_done(p)
  PROVE  \E q \in Proc : Private!Fork(p, q)
<1>. SUFFICES ASSUME IInv
             PROVE  \E q \in Proc : Private!Fork(p, q)
  BY Zenon DEF Inv
<1>1. /\ pc[p] = "fork" /\ va[p] = sz[p] /\ UNCHANGED <<pt, mem>> /\ TypeOK
      /\ pc' = [pc EXCEPT ![p] = "user", ![child[p]] = "user"]
  BY Zenon DEF fork_done, IInv
<1>2. PICK c \in Proc : c = child[p] /\ pc[c] = "new"
  BY <1>1, Zenon DEF IInv, TableOK, Copied, Copying
<1>3. \A b \in Va : pt[c][b] = pt[p][b]
  <2>1. sz[p] \in Int /\ \A b \in Va : b \in Int
    BY <1>1 DEF TypeOK, Va
  <2>2. /\ \A b \in Va : b < sz[p] => pt[c][b] = pt[p][b]
        /\ \A b \in Va : b > sz[p] => pt[c][b] = NULL
        /\ sz[p] \in Va => pt[c][sz[p]] = NULL
        /\ \A b \in Va : b >= sz[p] => pt[p][b] = NULL
    BY <1>1, <1>2, Zenon DEF IInv, TableOK, BelowSize, Copied, ToCopy, Copying
  <2>3. \A b \in Va : b < sz[p] \/ (b > sz[p] /\ b >= sz[p]) \/ (b = sz[p] /\ b >= sz[p])
    BY <2>1
  <2>. QED
    BY <2>2, <2>3, Zenon
<1>4. /\ Alive(p) /\ ~ Alive(c) /\ Alive(c)'
      /\ \A q \in Proc : q # c => (Alive(q)' <=> Alive(q))
  BY <1>1, <1>2, Zenon DEF Alive, TypeOK
<1>5. /\ \A q \in Proc : \A b \in Va : Cell(q, b)' = Cell(q, b)
      /\ \A b \in Va : Cell(c, b)' = Cell(p, b)
  BY <1>1, <1>3, Zenon DEF Cell
<1>6. Private!Fork(p, c)
  BY <1>1, <1>4, <1>5, Forked, Zenon
<1>. QED
  BY <1>6, Zenon

\* A page that is given back reads as 0.
LEMMA SbrkStep ==
  ASSUME CowConstants, Inv, NEW p \in Proc, sbrk(p)
  PROVE  space' = space \/ \E a \in Va : Private!Discard(p, a)
<1>. SUFFICES ASSUME IInv
             PROVE  space' = space \/ \E a \in Va : Private!Discard(p, a)
  BY Zenon DEF Inv
<1>1. pc[p] = "user" /\ TypeOK /\ UNCHANGED <<pc, va, pa, new, out, child>>
  BY Zenon DEF sbrk, IInv
<1>2. Alive(p) /\ \A q \in Proc : Alive(q)' <=> Alive(q)
  BY <1>1, Zenon DEF Alive
<1>3. CASE UNCHANGED <<pt, mem>>
  BY <1>2, <1>3, QuietStep, Zenon
<1>4. CASE /\ sz[p] > 1 /\ pt[p][sz[p] - 1] # NULL
           /\ kfree(pt[p][sz[p] - 1].pa) /\ setpte(p, sz[p] - 1, NULL)
  <2>1. PICK a \in Va : a = sz[p] - 1
    BY <1>1, <1>4 DEF CowConstants, TypeOK, Va
  <2>2. pt[p][a] # NULL /\ kfree(pt[p][a].pa) /\ setpte(p, a, NULL)
    BY <1>4, <2>1, Zenon
  <2>3. /\ pt'[p][a] = NULL
        /\ \A q \in Proc : \A b \in Va : ~ (q = p /\ b = a) => pt'[q][b] = pt[q][b]
        /\ \A q \in Proc : \A b \in Va : pt[q][b] # NULL /\ ~ (q = p /\ b = a)
             => mem'[pt[q][b].pa] = mem[pt[q][b].pa]
    BY <1>1, <2>2, CountingHolds, Unmap
  <2>4. /\ Cell(p, a)' = 0
        /\ \A q \in Proc : \A b \in Va : ~ (q = p /\ b = a) => Cell(q, b)' = Cell(q, b)
    BY <2>3 DEF Cell
  <2>5. Private!Store(p, a, 0)
    BY <1>1, <1>2, <2>4, OneCell, Zenon
  <2>. QED
    BY <2>5, Zenon DEF Private!Discard
<1>. QED
  BY <1>3, <1>4, Zenon DEF sbrk

LEMMA UnmapStep ==
  ASSUME CowConstants, Inv, NEW p \in Proc, uvmunmap(p)
  PROVE  space' = space
<1>. SUFFICES ASSUME IInv
             PROVE  space' = space
  BY Zenon DEF Inv
<1>1. pc[p] = "exit" /\ TypeOK /\ UNCHANGED <<pa, new, out, child>>
  BY Zenon DEF uvmunmap, IInv
<1>2. ~ Alive(p) /\ \A q \in Proc : Alive(q)' <=> Alive(q)
  BY <1>1, Zenon DEF uvmunmap, goto, Alive, TypeOK
<1>3. CASE UNCHANGED <<pt, mem>>
  BY <1>2, <1>3, QuietStep, Zenon
<1>4. CASE /\ va[p] < NVA /\ va' = [va EXCEPT ![p] = va[p] + 1] /\ UNCHANGED pc
           /\ pt[p][va[p]] # NULL /\ kfree(pt[p][va[p]].pa) /\ setpte(p, va[p], NULL)
  <2>1. PICK a \in Va : a = va[p]
    BY <1>1, <1>4 DEF CowConstants, TypeOK, Va
  <2>2. /\ pt[p][a] # NULL /\ kfree(pt[p][a].pa) /\ setpte(p, a, NULL)
        /\ \A q \in Proc : q # p => va'[q] = va[q]
    BY <1>4, <2>1
  <2>3. /\ \A q \in Proc : \A b \in Va : ~ (q = p /\ b = a) => pt'[q][b] = pt[q][b]
        /\ \A q \in Proc : \A b \in Va : pt[q][b] # NULL /\ ~ (q = p /\ b = a)
             => mem'[pt[q][b].pa] = mem[pt[q][b].pa]
    BY <1>1, <1>4, <2>2, CountingHolds, Unmap
  <2>4. \A q \in Proc : \A b \in Va : q # p => Cell(q, b)' = Cell(q, b)
    BY <2>3 DEF Cell
  <2>. QED
    BY <1>2, <2>4, Stutter, Zenon
<1>. QED
  BY <1>3, <1>4, Zenon DEF uvmunmap

LEMMA InitRefines ==
  ASSUME CowConstants PROVE Init => Private!Init
<1>. SUFFICES ASSUME Init PROVE Private!Init
  BY Zenon
<1>1. PICK p \in Proc : pc = [q \in Proc |-> IF q = p THEN "user" ELSE "unused"]
  BY Zenon DEF Init
<1>2. \A q \in Proc : Alive(q) <=> q = p
  BY <1>1, Zenon DEF Alive
<1>3. \A q \in Proc : \A b \in Va : Cell(q, b) = 0
  BY Zenon DEF Init, Cell
<1>4. \A q \in Proc : [b \in Va |-> Cell(q, b)] = [b \in Va |-> 0]
  BY <1>3, Zenon
<1>5. space = [q \in Proc |-> IF Alive(q) THEN [b \in Va |-> Cell(q, b)] ELSE NULL]
  BY Zenon DEF space, Alive, Cell
<1>6. space = [q \in Proc |-> IF q = p THEN [b \in Va |-> 0] ELSE NULL]
  BY <1>2, <1>4, <1>5, Zenon
<1>. QED
  BY <1>6, Zenon DEF Private!Init

LEMMA NextRefines ==
  ASSUME CowConstants, Inv, [Next]_vars
  PROVE  [Private!Next]_space
<1>. SUFFICES ASSUME IInv
             PROVE  [Private!Next]_space
  BY Zenon DEF Inv
<1>0. TypeOK
  BY Zenon DEF IInv
<1>1. ASSUME NEW p \in Proc, NEW a \in Va, lazy(p, a)
      PROVE  space' = space \/ Private!Exit(p)
  <2>1. (\E r \in Page : LazyPage(p, a, r)) \/
        (pc[p] = "user" /\ goto(p, "exit") /\ UNCHANGED <<pt, mem>>)
    BY <1>1, Zenon DEF lazy, LazyPage
  <2>. QED
    BY <2>1, LazyStep, GoneStep, Zenon
<1>2. ASSUME NEW p \in Proc, cow_alloc(p)
      PROVE  space' = space \/ Private!Exit(p)
  <2>1. pc[p] = "alloc" /\ UNCHANGED <<pt, mem>> /\ (goto(p, "copy") \/ goto(p, "user") \/ goto(p, "exit"))
    BY <1>2, Zenon DEF cow_alloc
  <2>2. CASE goto(p, "exit")
    BY <2>1, <2>2, GoneStep, Zenon
  <2>3. CASE goto(p, "copy") \/ goto(p, "user")
    <3>1. \A q \in Proc : Alive(q)' <=> Alive(q)
      BY <1>0, <2>1, <2>3, Zenon DEF goto, Alive, TypeOK
    <3>. QED
      BY <2>1, <3>1, QuietStep, Zenon
  <2>. QED
    BY <2>1, <2>2, <2>3, Zenon
<1>3. ASSUME NEW p \in Proc, cow_check(p) \/ fork_fail(p) \/ uvmcopy_addref(p)
      PROVE  space' = space
  <2>1. UNCHANGED <<pt, mem>> /\ \A q \in Proc : Alive(q)' <=> Alive(q)
    BY <1>0, <1>3, Zenon DEF cow_check, fork_fail, uvmcopy_addref, goto, Alive, TypeOK
  <2>. QED
    BY <2>1, QuietStep, Zenon
<1>4. ASSUME NEW p \in Proc, NEW a \in Va, NEW v, copyout(p, a, v) \/ cowpage(p, a, v)
      PROVE  space' = space
  <2>1. UNCHANGED <<pt, mem>> /\ \A q \in Proc : Alive(q)' <=> Alive(q)
    BY <1>0, <1>4 DEF copyout, cowpage, goto, Alive, TypeOK
  <2>. QED
    BY <2>1, QuietStep, Zenon
<1>5. ASSUME NEW p \in Proc, NEW q \in Proc, fork(p, q)
      PROVE  space' = space
  <2>1. UNCHANGED <<pt, mem>> /\ \A o \in Proc : Alive(o)' <=> Alive(o)
    BY <1>0, <1>5, Zenon DEF fork, Alive, TypeOK
  <2>. QED
    BY <2>1, QuietStep, Zenon
<1>6. ASSUME NEW p \in Proc, exit(p)
      PROVE  Private!Exit(p)
  BY <1>6, GoneStep, Zenon DEF exit
<1>7. \/ space' = space
      \/ \E p \in Proc : \/ \E a \in Va, v \in Val : Private!Store(p, a, v)
                         \/ \E a \in Va : Private!Discard(p, a)
                         \/ \E q \in Proc : Private!Fork(p, q)
                         \/ Private!Exit(p)
  <2>1. CASE UNCHANGED vars
    BY <2>1, Zenon DEF vars, space
  <2>2. CASE Next
    <3>1. PICK p \in Proc :
            \/ \E a \in Va, v \in Val : store(p, a, v) \/ copyout(p, a, v)
            \/ \E a \in Va : lazy(p, a) \/ \E v \in Val \cup {NULL} : cowpage(p, a, v)
            \/ copyout_write(p)
            \/ cow_check(p) \/ cow_own(p) \/ cow_alloc(p) \/ cow_copy(p) \/ cow_map(p) \/ cow_drop(p)
            \/ \E q \in Proc : fork(p, q)
            \/ uvmcopy(p) \/ uvmcopy_addref(p) \/ fork_done(p) \/ fork_fail(p)
            \/ sbrk(p) \/ exit(p) \/ uvmunmap(p)
      BY <2>2, Zenon DEF Next
    <3>. QED
      BY <3>1, <1>1, <1>2, <1>3, <1>4, <1>5, <1>6, StoreStep, WriteStep, OwnedStep,
         CopyStep, MapStep, DropStep, CopyingStep, ForkDoneStep, SbrkStep, UnmapStep, Zenon
  <2>. QED
    BY <2>1, <2>2, Zenon
<1>. QED
  BY <1>7, Zenon DEF Private!Next

\* Copy-on-write and lazy allocation are invisible: with any number of processes and pages,
\* every behaviour of the page tables, of usertrap(), of cowalloc(), uvmcopy(), copyout()
\* and uvmunmap() is one of memory that every process has to itself.
THEOREM CowImplements == Spec => ImplementsPrivateMemory
<1>1. Init => Private!Init
  BY CowAssumption, InitRefines, Zenon
<1>2. Inv /\ [Next]_vars => [Private!Next]_space
  BY CowAssumption, NextRefines, Zenon
<1>. QED
  BY <1>1, <1>2, Invariance, PTL DEF Spec, ImplementsPrivateMemory, Private!Spec
=============================================================================
