---------------------------- MODULE SetInduction ----------------------------
(***************************************************************************)
(* Induction and recursion over the naturals with the property, or the     *)
(* step, given as a set: what the proofs of this project use for lists     *)
(* that are walked element by element.                                     *)
(***************************************************************************)
EXTENDS FiniteSetTheorems, TLAPS

(* Numbers are well founded because finite sets are under inclusion.       *)
LEMMA LeastNumber ==
  ASSUME NEW B \in SUBSET Nat, B # {}
  PROVE  \E m \in B : \A k \in B : m <= k
<1> DEFINE Below == {1..m : m \in B}
<1>1. Below \subseteq FiniteSubsetsOf(Nat) /\ Below # {}
  <2>1. ASSUME NEW m \in B PROVE 1..m \in SUBSET Nat /\ IsFiniteSet(1..m)
    BY FS_Interval
  <2> QED
    BY <2>1 DEF FiniteSubsetsOf
<1>2. PICK x \in Below : \A y \in Below : <<y, x>> \notin StrictSubsetOrdering(Nat)
  <2> HIDE DEF Below
  <2> QED BY <1>1, WFMin, FS_StrictSubsetOrderingWellFounded
<1>3. PICK m \in B : x = 1..m
  OBVIOUS
<1>4. ASSUME NEW k \in B, k < m PROVE FALSE
  <2>1. 1..k \subseteq 1..m /\ m \in (1..m) \ (1..k)
    BY <1>4
  <2>2. <<1..k, 1..m>> \in StrictSubsetOrdering(Nat)
    BY <2>1 DEF StrictSubsetOrdering
  <2> QED
    BY <1>2, <1>3, <2>2
<1> QED
  BY <1>4

(* Induction: G is the set of the numbers that have the property.          *)
LEMMA Induction ==
  ASSUME NEW G, 0 \in G, \A n \in Nat : n \in G => n + 1 \in G
  PROVE  Nat \subseteq G
<1> SUFFICES ASSUME Nat \ G # {} PROVE FALSE
  OBVIOUS
<1>1. PICK m \in Nat \ G : \A k \in Nat \ G : m <= k
  BY LeastNumber
<1>2. m - 1 \in Nat /\ m - 1 \in G
  BY <1>1
<1> QED
  BY <1>2

(* What the first value is in and no step leads out of.                    *)
LEMMA WalkStays ==
  ASSUME NEW T, NEW n \in Nat, NEW w, w[0] \in T, \A i \in 1..n : w[i - 1] \in T => w[i] \in T
  PROVE  \A i \in 0..n : w[i] \in T
<1> DEFINE G == {k \in Nat : k <= n => w[k] \in T}
<1>1. 0 \in G
  OBVIOUS
<1>2. ASSUME NEW k \in Nat, k \in G PROVE k + 1 \in G
  BY <1>2
<1>3. Nat \subseteq G
  <2> HIDE DEF G
  <2> QED BY <1>1, <1>2, Induction
<1> QED
  BY <1>3

\* w begins with base, and `step' leads from each value to the next.
IsWalk(w, base, n, step) == w[0] = base /\ \A i \in 1..n : w[i] = step[<<w[i - 1], i>>]

(* Whatever the step, n steps can be walked.                               *)
LEMMA WalkExists ==
  ASSUME NEW S, NEW base \in S, NEW n \in Nat, NEW step \in [S \X (1..n) -> S]
  PROVE  \E w \in [0..n -> S] : IsWalk(w, base, n, step)
<1> USE DEF IsWalk
<1> DEFINE Is(w, k) == w[0] = base /\ \A i \in 1..k : w[i] = step[<<w[i - 1], i>>]
           G == {k \in Nat : k <= n => \E w \in [0..k -> S] : Is(w, k)}
<1>1. 0 \in G
  <2>1. [i \in 0..0 |-> base] \in [0..0 -> S] /\ Is([i \in 0..0 |-> base], 0)
    OBVIOUS
  <2> QED
    BY <2>1
<1>2. ASSUME NEW k \in Nat, k \in G PROVE k + 1 \in G
  <2> SUFFICES ASSUME k + 1 <= n PROVE \E w \in [0..(k + 1) -> S] : Is(w, k + 1)
    OBVIOUS
  <2>1. PICK w \in [0..k -> S] : Is(w, k)
    BY <1>2
  <2> DEFINE v == [i \in 0..(k + 1) |-> IF i <= k THEN w[i] ELSE step[<<w[k], k + 1>>]]
  <2>2. v \in [0..(k + 1) -> S]
    OBVIOUS
  <2>3. v[0] = base
    BY <2>1
  <2>4. \A i \in 1..k : v[i] = w[i] /\ v[i - 1] = w[i - 1]
    OBVIOUS
  <2>5. v[k + 1] = step[<<v[k], k + 1>>]
    <3>1. k \in 0..(k + 1) /\ k + 1 \in 0..(k + 1) /\ ~(k + 1 <= k)
      OBVIOUS
    <3>2. v[k] = w[k] /\ v[k + 1] = step[<<w[k], k + 1>>]
      BY <3>1
    <3> QED
      BY <3>2
  <2>6. Is(v, k + 1)
    <3>1. ASSUME NEW i \in 1..(k + 1) PROVE v[i] = step[<<v[i - 1], i>>]
      <4>1. CASE i \in 1..k
        BY <2>1, <2>4, <4>1
      <4>2. CASE i = k + 1
        BY <2>5, <4>2
      <4> QED
        BY <4>1, <4>2
    <3> QED
      BY <2>3, <3>1
  <2> QED
    BY <2>2, <2>6
<1>3. n \in G
  <2> HIDE DEF G
  <2> QED BY <1>1, <1>2, Induction
<1> QED
  BY <1>3
=============================================================================
