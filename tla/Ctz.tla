-------------------------------- MODULE Ctz ---------------------------------
(***************************************************************************)
(* ctz64() of kernel/proc/sched_o1.c: the de Bruijn computation of the     *)
(* lowest 1 bit of runq_bitmap.  RunQueue.tla uses its definition; here    *)
(* the table and the constant are compared with it.  A uint64 is the set   *)
(* of its 1 bits.                                                          *)
(***************************************************************************)
EXTENDS Integers, Sequences, FiniteSetsExt

Bit == 0 .. 63

tbl == <<0,  1,  48, 2,  57, 49, 28, 3,  61, 58, 50, 42, 38, 29, 17, 4,
         62, 55, 59, 36, 53, 51, 43, 22, 45, 39, 33, 30, 24, 18, 12, 5,
         63, 47, 56, 27, 60, 41, 37, 16, 54, 35, 52, 21, 44, 32, 23, 11,
         46, 26, 40, 15, 34, 20, 31, 10, 25, 14, 19, 9,  13, 8,  7,  6>>

\* 0x03f79d71b4cb0a89, most significant digit first.
deBruijn == <<0, 3, 15, 7, 9, 13, 7, 1, 11, 4, 12, 11, 0, 10, 8, 9>>

\* Bit j of the constant; the bits shifted in from the right are 0.
deBruijnBit(j) == IF j < 0 THEN 0 ELSE (deBruijn[16 - (j \div 4)] \div 2^(j % 4)) % 2

\* Two's complement: invert, and add one (the carry runs through low zeros of x).
Neg(x) == {j \in Bit : (j \notin x) # (\A l \in 0 .. j - 1 : l \notin x)}

\* x & -x is 0 or a power of two, so the product is the constant shifted left
\* and the index is the six bits then on top.
ctz64_lookup(x) ==
  LET low == x \cap Neg(x)
      idx == IF low = {} THEN 0
             ELSE LET k == CHOOSE k \in low : TRUE
                  IN  MapThenSumSet(LAMBDA j : deBruijnBit(58 - k + j) * 2^j, 0 .. 5)
  IN  tbl[idx + 1]

\* The lookup is the position of the lowest 1 bit, for every position and with
\* any second bit above it; on 0 it is in range.
ASSUME CtzIsLowestBit ==
  /\ \A i, j \in Bit : ctz64_lookup({i, j}) = Min({i, j})
  /\ ctz64_lookup(Bit) = 0
  /\ ctz64_lookup({}) \in Bit
=============================================================================
