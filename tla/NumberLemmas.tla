---------------------------- MODULE NumberLemmas ----------------------------
(***************************************************************************)
(* Sets of ids and offsets have a smallest element, and a greatest one     *)
(* where they are bounded: what the proofs know of Min, Max and of the     *)
(* last row of a batch.                                                    *)
(***************************************************************************)
EXTENDS Integers, FiniteSetTheorems, WellFoundedInduction, TLAPS

\* The intervals 0 .. x have a minimal one under strict inclusion.
LEMMA SmallestExists ==
  ASSUME NEW T \in SUBSET Nat, T # {}
  PROVE  \E x \in T : \A y \in T : x <= y
<1> DEFINE I == {0 .. x : x \in T}
<1>1. I \subseteq FiniteSubsetsOf(Nat) /\ I # {}
  <2>1. ASSUME NEW x \in T  PROVE 0 .. x \in FiniteSubsetsOf(Nat)
    BY FS_Interval DEF FiniteSubsetsOf
  <2> QED  BY <2>1
<1>2. IsWellFoundedOn(StrictSubsetOrdering(Nat), FiniteSubsetsOf(Nat))
  BY FS_StrictSubsetOrderingWellFounded
<1>3. PICK m \in I : \A i \in I : <<i, m>> \notin StrictSubsetOrdering(Nat)
  <2> HIDE DEF I
  <2> QED  BY <1>1, <1>2, WFMin
<1>4. PICK x \in T : m = 0 .. x
  OBVIOUS
<1>5. ASSUME NEW y \in T, y < x  PROVE FALSE
  <2> DEFINE i == 0 .. y
  <2>1. i \in I
    OBVIOUS
  <2>2. i \subseteq m /\ i # m
    BY <1>4, <1>5
  <2>3. i \in SUBSET Nat /\ m \in SUBSET Nat
    BY <1>4
  <2> HIDE DEF i, I
  <2>4. <<i, m>> \in StrictSubsetOrdering(Nat)
    BY <2>2, <2>3 DEF StrictSubsetOrdering
  <2> QED  BY <1>3, <2>1, <2>4
<1> QED  BY <1>5

\* The distances to the bound have a smallest one.
LEMMA GreatestExists ==
  ASSUME NEW b \in Nat, NEW T \in SUBSET (0 .. b), T # {}
  PROVE  \E x \in T : \A y \in T : y <= x
<1> DEFINE D == {b - x : x \in T}
<1>1. D \in SUBSET Nat /\ D # {}
  <2>1. ASSUME NEW x \in T  PROVE b - x \in Nat
    <3>1. x \in 0 .. b
      OBVIOUS
    <3> QED  BY <3>1
  <2>2. D \subseteq Nat
    BY <2>1
  <2> QED  BY <2>2
<1>2. PICK d \in D : \A e \in D : d <= e
  <2> HIDE DEF D
  <2> QED  BY <1>1, SmallestExists
<1>3. PICK x \in T : d = b - x
  OBVIOUS
<1>4. ASSUME NEW y \in T  PROVE y <= x
  <2>1. b - y \in D
    OBVIOUS
  <2>2. b - x <= b - y
    BY <1>2, <1>3, <2>1
  <2> QED  BY <2>2
<1> QED  BY <1>4

=============================================================================
