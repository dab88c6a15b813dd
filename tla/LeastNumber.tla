---------------------------- MODULE LeastNumber ----------------------------
(* A fact of arithmetic that the proofs of Sockets and Rings share. *)
EXTENDS Integers, FiniteSetTheorems, WellFoundedInduction, TLAPS

\* A set of natural numbers has a least element.
LEMMA LeastExists ==
    ASSUME NEW S \in SUBSET Nat, S # {}
    PROVE  \E least \in S : \A j \in S : least <= j
<1> DEFINE Upto == {0 .. i : i \in S}
<1>1. Upto \subseteq FiniteSubsetsOf(Nat) /\ Upto # {}
  <2>1. ASSUME NEW i \in S PROVE 0 .. i \in FiniteSubsetsOf(Nat)
    <3>1. i \in Int /\ 0 .. i \in SUBSET Nat
      OBVIOUS
    <3>2. IsFiniteSet(0 .. i)
      BY <3>1, FS_Interval
    <3> QED
      BY <3>1, <3>2 DEF FiniteSubsetsOf
  <2> QED
    BY <2>1
<1>2. PICK x \in Upto : \A y \in Upto : <<y, x>> \notin StrictSubsetOrdering(Nat)
  <2> HIDE DEF Upto
  <2> QED
    BY <1>1, FS_StrictSubsetOrderingWellFounded, WFMin
<1>3. PICK i \in S : x = 0 .. i
  BY <1>2
<1>4. ASSUME NEW j \in S PROVE i <= j
  <2>1. <<0 .. j, 0 .. i>> \notin StrictSubsetOrdering(Nat)
    BY <1>2, <1>3
  <2>2. CASE j < i
    <3>1. 0 .. j \subseteq 0 .. i /\ i \notin 0 .. j /\ i \in 0 .. i
      BY <2>2
    <3>2. 0 .. j \in SUBSET Nat /\ 0 .. i \in SUBSET Nat
      OBVIOUS
    <3> QED
      BY <2>1, <3>1, <3>2 DEF StrictSubsetOrdering
  <2> QED
    BY <2>2
<1> QED
  BY <1>4
=============================================================================
