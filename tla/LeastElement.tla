---------------------------- MODULE LeastElement ----------------------------
(***************************************************************************)
(* The least element of a set of naturals: the code looks for the first    *)
(* slot, or the first level, that will do; and the proofs about data of    *)
(* any length, as what FlattenSeq glues together, take the least length    *)
(* that is an exception.                                                   *)
(***************************************************************************)
EXTENDS Integers, SequencesExt, WellFoundedInduction, TLAPS

(* A set of naturals that is not empty has a least element, which Min is.  *)
LEMMA MinIsLeast ==
  ASSUME NEW S \in SUBSET Nat, S # {}
  PROVE  Min(S) \in S /\ \A j \in S : Min(S) <= j /\ ~ (j < Min(S))
<1> DEFINE R == {ss \in Nat \X Nat : ss[1] < ss[2]}
<1>1. IsWellFoundedOn(R, Nat)
  BY NatLessThanWellFounded DEF OpToRel
<1> HIDE DEF R
<1>2. PICK x \in S : \A y \in S : ~ (<<y, x>> \in R)
  BY <1>1, WFMin
<1>3. ASSUME NEW y \in S
      PROVE  x <= y
  <2>1. y \in Nat /\ x \in Nat
    OBVIOUS
  <2>2. ~ (<<y, x>> \in R)
    BY <1>2
  <2>3. ~ (y < x)
    BY <2>1, <2>2 DEF R
  <2> QED
    BY <2>1, <2>3
<1>4. ASSUME NEW m \in S, NEW j \in S, m <= j
      PROVE  ~ (j < m)
  <2>1. m \in Nat /\ j \in Nat
    OBVIOUS
  <2> QED
    BY <1>4, <2>1
<1>5. Min(S) \in S /\ \A y \in S : Min(S) <= y
  BY <1>3 DEF Min
<1> QED
  BY <1>4, <1>5

-----------------------------------------------------------------------------
(* FlattenSeq, which glues the sequences of a sequence together.           *)

(* The recursive function that FlattenSeq chooses exists.                  *)
LEMMA FlattenDefined ==
  ASSUME NEW s, NEW N \in Nat
  PROVE  \E g : g = [i \in 1 .. N |-> IF i = 1 THEN s[i] ELSE g[i-1] \o s[i]]
<1> DEFINE Flattens(g, n) ==
             g = [i \in 1 .. n |-> IF i = 1 THEN s[i] ELSE g[i-1] \o s[i]]
           Bad == {n \in Nat : ~ \E g : Flattens(g, n)}
<1>1. SUFFICES ASSUME Bad # {}
               PROVE  FALSE
  OBVIOUS
<1>2. PICK n \in Bad : \A m \in Bad : n <= m
  BY <1>1, MinIsLeast
<1>3. n # 0
  <2>1. Flattens([i \in 1 .. 0 |-> {}], 0)
    OBVIOUS
  <2> QED
    BY <2>1
<1>4. PICK g : Flattens(g, n - 1)
  <2>1. n - 1 \in Nat /\ ~ (n <= n - 1)
    BY <1>3
  <2> HIDE DEF Flattens
  <2> QED
    BY <1>2, <2>1
<1> DEFINE h == [i \in 1 .. n |->
                   IF i = n THEN (IF n = 1 THEN s[1] ELSE g[n - 1] \o s[n]) ELSE g[i]]
<1>5. ASSUME NEW i \in 1 .. n
      PROVE  h[i] = IF i = 1 THEN s[i] ELSE h[i-1] \o s[i]
  <2>1. CASE i = n
    BY <1>3, <2>1
  <2>2. CASE i # n
    <3>1. i \in 1 .. n - 1 /\ h[i] = g[i]
      BY <1>3, <2>2
    <3>2. g[i] = IF i = 1 THEN s[i] ELSE g[i-1] \o s[i]
      BY <1>4, <3>1
    <3>3. i # 1 => h[i-1] = g[i-1]
      BY <1>3, <2>2
    <3> QED
      BY <3>1, <3>2, <3>3
  <2> QED
    BY <2>1, <2>2
<1>6. Flattens(h, n)
  BY <1>5
<1> HIDE DEF Flattens
<1> QED
  BY <1>2, <1>6

(* What it chooses.                                                        *)
LEMMA FlattenUnfold ==
  ASSUME NEW s, Len(s) \in Nat, Len(s) # 0
  PROVE  \E g : /\ FlattenSeq(s) = g[Len(s)]
                /\ g = [i \in 1 .. Len(s) |-> IF i = 1 THEN s[i] ELSE g[i-1] \o s[i]]
<1> DEFINE N == Len(s)
<1>1. \E g : g = [i \in 1 .. N |-> IF i = 1 THEN s[i] ELSE g[i-1] \o s[i]]
  BY FlattenDefined
<1> QED
  BY <1>1 DEF FlattenSeq
=============================================================================
