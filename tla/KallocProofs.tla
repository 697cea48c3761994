---------------------------- MODULE KallocProofs ----------------------------
(***************************************************************************)
(* Proofs about Kalloc.tla for any number of harts and pages.              *)
(*                                                                         *)
(* OnePlace and CountExact are inductive together with the types: what a   *)
(* step does to a page depends on its count, and CountExact ties the count *)
(* to the references that OnePlace is about.                               *)
(***************************************************************************)
EXTENDS Kalloc, TLAPS

Inv == TypeOK /\ OnePlace /\ CountExact

\* After kinit() every page is on the list of hart 0 and nobody owns one.
LEMMA InitInv == Init => Inv
  <1> SUFFICES ASSUME Init PROVE Inv
    OBVIOUS
  <1>1. 0 \in CPU
    BY KallocConstants DEF CPU
  <1>2. TypeOK
    BY <1>1, KallocConstants DEF Init, TypeOK, CPU
  <1>3. OnePlace
    BY <1>1 DEF Init, OnePlace
  <1>4. CountExact
    BY DEF Init, CountExact
  <1> QED
    BY <1>2, <1>3, <1>4 DEF Inv

\* A page that kalloc() takes from a list was on this list only and nobody owned
\* it; afterwards the caller does, with a count of 1.
LEMMA TakeInv ==
  ASSUME Inv, NEW i \in CPU, NEW r \in freelist[i], take(i, r), UNCHANGED freeing
  PROVE  /\ freelist' \in [CPU -> SUBSET Page]
         /\ cnt' \in [Page -> Nat] /\ refs' \in [Page -> Nat]
         /\ OnePlace' /\ CountExact'
  <1>1. r \in Page
    BY DEF Inv, TypeOK
  <1>2. /\ freelist' \in [CPU -> SUBSET Page]
        /\ cnt' \in [Page -> Nat] /\ refs' \in [Page -> Nat]
    BY <1>1 DEF Inv, TypeOK, take
  <1>3. CountExact'
    BY <1>1 DEF Inv, TypeOK, CountExact, take
  <1>4. ASSUME NEW q \in Page
        PROVE  OnePlace!(q)'
    <2>1. CASE q = r
      BY <1>1, <2>1 DEF Inv, TypeOK, OnePlace, take
    <2>2. CASE q # r
      BY <1>1, <2>2 DEF Inv, TypeOK, OnePlace, take
    <2> QED
      BY <2>1, <2>2
  <1>5. OnePlace'
    BY <1>4 DEF OnePlace
  <1> QED
    BY <1>2, <1>3, <1>5

\* One step of one hart keeps the invariant.
LEMMA StepInv == ASSUME Inv, NEW c \in CPU, Step(c) PROVE Inv'
  <1> USE DEF Inv
  <1>1. CASE kalloc(c)
    <2>1. CASE \E r \in freelist[c] : take(c, r) /\ UNCHANGED <<klock, freeing, pc, antid>>
      <3>1. PICK r \in freelist[c] : take(c, r) /\ UNCHANGED <<klock, freeing, pc, antid>>
        BY <2>1
      <3> QED
        BY <1>1, <3>1, TakeInv DEF kalloc, TypeOK
    <2>2. CASE /\ klock' = [klock EXCEPT ![c] = c]
               /\ pc' = [pc EXCEPT ![c] = "steal"]
               /\ antid' = [antid EXCEPT ![c] = 0]
               /\ UNCHANGED <<freelist, cnt, refs, freeing>>
      <3>1. TypeOK'
        BY <1>1, <2>2, KallocConstants DEF kalloc, TypeOK, CPU
      <3> QED
        BY <2>2, <3>1 DEF OnePlace, CountExact
    <2> QED
      BY <1>1, <2>1, <2>2 DEF kalloc
  <1>2. CASE kalloc_steal(c)
    <2>1. CASE /\ antid[c] # c /\ antid[c] # NCPU
               /\ \E r \in freelist[antid[c]] : take(antid[c], r)
               /\ klock' = [klock EXCEPT ![c] = NULL]
               /\ pc' = [pc EXCEPT ![c] = "idle"]
               /\ UNCHANGED antid
      <3>1. antid[c] \in CPU
        BY <2>1, KallocConstants DEF TypeOK, CPU
      <3>2. PICK r \in freelist[antid[c]] : take(antid[c], r)
        BY <2>1
      <3>3. UNCHANGED <<freeing, fbi, fbp>>
        BY <1>2 DEF kalloc_steal
      <3> QED
        BY <2>1, <3>1, <3>2, <3>3, TakeInv DEF TypeOK
    <2>2. CASE /\ antid[c] # NCPU
               /\ antid' = [antid EXCEPT ![c] = @ + 1]
               /\ UNCHANGED <<freelist, klock, cnt, refs, pc>>
      <3>1. antid' \in [CPU -> 0 .. NCPU]
        BY <2>2, KallocConstants DEF TypeOK
      <3> QED
        BY <1>2, <2>2, <3>1 DEF kalloc_steal, TypeOK, OnePlace, CountExact
    <2>3. CASE /\ klock' = [klock EXCEPT ![c] = NULL]
               /\ pc' = [pc EXCEPT ![c] = "idle"]
               /\ UNCHANGED <<freelist, cnt, refs, antid>>
      BY <1>2, <2>3 DEF kalloc_steal, TypeOK, OnePlace, CountExact
    <2> QED
      BY <1>2, <2>1, <2>2, <2>3 DEF kalloc_steal
  <1>3. ASSUME NEW r \in Page, kaddrefcnt(c, r) PROVE Inv'
    <2>1. refs[r] \in Nat /\ refs[r] > 0
      BY <1>3 DEF kaddrefcnt, TypeOK
    <2>2. TypeOK'
      BY <1>3 DEF kaddrefcnt, TypeOK
    <2>3. CountExact'
      BY <1>3 DEF kaddrefcnt, TypeOK, CountExact
    <2>4. ASSUME NEW q \in Page
          PROVE  OnePlace!(q)'
      <3>1. freelist' = freelist /\ freeing' = freeing
        BY <1>3 DEF kaddrefcnt
      <3>2. refs'[q] = IF q = r THEN refs[r] + 1 ELSE refs[q]
        BY <1>3 DEF kaddrefcnt, TypeOK
      <3>3. refs'[q] = 0 <=> refs[q] = 0
        BY <2>1, <3>2 DEF TypeOK
      <3>4. refs'[q] > 0 <=> refs[q] > 0
        BY <2>1, <3>2 DEF TypeOK
      <3> QED
        BY <3>1, <3>3, <3>4 DEF OnePlace
    <2>5. OnePlace'
      BY <2>4 DEF OnePlace
    <2> QED
      BY <2>2, <2>3, <2>5
  <1>4. ASSUME NEW r \in Page, kfree(c, r) PROVE Inv'
    <2>1. refs[r] \in Nat /\ refs[r] > 0 /\ cnt[r] = refs[r]
      BY <1>4 DEF kfree, TypeOK, CountExact
    <2>2. /\ cnt' = [cnt EXCEPT ![r] = @ - 1]
          /\ refs' = [refs EXCEPT ![r] = @ - 1]
          /\ UNCHANGED <<freelist, klock, pc, antid, fbi, fbp>>
      BY <1>4 DEF kfree
    <2>3. freeing' = IF cnt'[r] = 0 THEN [freeing EXCEPT ![r] = @ + 1] ELSE freeing
      BY <1>4 DEF kfree
    <2>4. cnt' \in [Page -> Nat] /\ refs' \in [Page -> Nat]
      BY <2>1, <2>2 DEF TypeOK
    <2>5. TypeOK'
      BY <2>2, <2>3, <2>4 DEF TypeOK
    <2>6. CountExact'
      BY <2>1, <2>2 DEF TypeOK, CountExact
    <2>7. ASSUME NEW q \in Page
          PROVE  OnePlace!(q)'
      <3>1. CASE q # r
        <4>1. refs'[q] = refs[q] /\ freeing'[q] = freeing[q] /\ freelist' = freelist
          BY <2>2, <2>3, <3>1 DEF TypeOK
        <4> QED
          BY <4>1 DEF OnePlace
      <3>2. CASE q = r
        <4>1. freeing[r] = 0 /\ \A d \in CPU : r \notin freelist[d]
          BY <2>1 DEF OnePlace
        <4>2. refs'[r] = refs[r] - 1 /\ cnt'[r] = refs[r] - 1
          BY <2>1, <2>2 DEF TypeOK
        <4>3. freeing'[r] = IF refs[r] = 1 THEN 1 ELSE 0
          BY <2>1, <2>3, <4>1, <4>2 DEF TypeOK
        <4> QED
          BY <2>1, <2>2, <3>2, <4>1, <4>2, <4>3 DEF OnePlace
      <3> QED
        BY <3>1, <3>2
    <2>8. OnePlace'
      BY <2>7 DEF OnePlace
    <2> QED
      BY <2>5, <2>6, <2>8
  <1>5. ASSUME NEW r \in Page, kfree_push(c, r) PROVE Inv'
    <2>1. freeing[r] = 1 /\ refs[r] = 0 /\ \A d \in CPU : r \notin freelist[d]
      BY <1>5 DEF kfree_push, TypeOK, OnePlace
    <2>2. /\ freelist' = [freelist EXCEPT ![c] = @ \cup {r}]
          /\ freeing' = [freeing EXCEPT ![r] = @ - 1]
          /\ UNCHANGED <<klock, cnt, refs, pc, antid, fbi, fbp>>
      BY <1>5 DEF kfree_push
    <2>3. TypeOK'
      BY <2>1, <2>2 DEF TypeOK
    <2>4. CountExact'
      BY <2>2 DEF CountExact
    <2>5. ASSUME NEW q \in Page
          PROVE  OnePlace!(q)'
      <3>1. CASE q = r
        BY <2>1, <2>2, <3>1 DEF TypeOK, OnePlace
      <3>2. CASE q # r
        <4>1. freeing'[q] = freeing[q] /\ refs' = refs
          BY <2>2, <3>2 DEF TypeOK
        <4>2. \A d \in CPU : q \in freelist'[d] <=> q \in freelist[d]
          BY <2>2, <3>2 DEF TypeOK
        <4> QED
          BY <4>1, <4>2 DEF OnePlace
      <3> QED
        BY <3>1, <3>2
    <2>6. OnePlace'
      BY <2>5 DEF OnePlace
    <2> QED
      BY <2>3, <2>4, <2>6
  <1>6. ASSUME NEW i \in CPU, NEW r \in Page, freebytes_head(c, i, r) PROVE Inv'
    BY <1>6 DEF freebytes_head, alloc, TypeOK, OnePlace, CountExact
  <1>7. CASE freebytes_walk(c)
    <2>1. 0 \in CPU
      BY KallocConstants DEF CPU
    <2> QED
      BY <1>7, <2>1 DEF freebytes_walk, alloc, TypeOK, OnePlace, CountExact
  <1> QED
    BY <1>1, <1>2, <1>3, <1>4, <1>5, <1>6, <1>7 DEF Step

\* No page of the allocator of kalloc.c is ever lost, handed out twice or freed
\* while it is owned, and ref.cnt is the number of references that exist, for any
\* number of harts and pages.
THEOREM KallocSafe == Spec => [](TypeOK /\ OnePlace /\ CountExact)
  <1>1. Init => Inv
    BY InitInv
  <1>2. Inv /\ [Next]_vars => Inv'
    <2> SUFFICES ASSUME Inv, [Next]_vars PROVE Inv'
      OBVIOUS
    <2>1. CASE Next
      BY <2>1, StepInv DEF Next
    <2>2. CASE UNCHANGED vars
      BY <2>2 DEF vars, alloc, Inv, TypeOK, OnePlace, CountExact
    <2> QED
      BY <2>1, <2>2
  <1>3. Inv => TypeOK /\ OnePlace /\ CountExact
    BY DEF Inv
  <1> QED
    BY <1>1, <1>2, <1>3, PTL DEF Spec
=============================================================================
