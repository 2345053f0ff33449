------------------------------- MODULE Least --------------------------------
(***************************************************************************)
(* Numbers are well ordered: the one consequence the proofs about searches *)
(* need.                                                                   *)
(***************************************************************************)
EXTENDS Naturals, FiniteSets, FiniteSetTheorems, TLAPS

(* A set of numbers that is not empty has a least one. *)
LEMMA Lowest ==
    ASSUME NEW T \in SUBSET Nat, T # {}
    PROVE  \E x \in T : \A y \in T : x <= y
  <1> DEFINE U == {1..n : n \in T}
             R_ == StrictSubsetOrdering(Nat)
  <1>1. IsWellFoundedOn(R_, FiniteSubsetsOf(Nat))
    BY FS_StrictSubsetOrderingWellFounded
  <1>2. U \subseteq FiniteSubsetsOf(Nat)
    <2> SUFFICES ASSUME NEW n \in T PROVE 1..n \in FiniteSubsetsOf(Nat)
      OBVIOUS
    <2>1. n \in Int /\ 1 \in Int
      OBVIOUS
    <2>2. IsFiniteSet(1..n) /\ 1..n \subseteq Nat
      BY <2>1, FS_Interval
    <2> QED
      BY <2>2 DEF FiniteSubsetsOf
  <1>3. \E s \in U : \A t \in U : ~(<<t, s>> \in R_)
    <2>1. U # {}
      OBVIOUS
    <2> HIDE DEF U, R_
    <2> QED
      BY <1>1, <1>2, <2>1, WFMin
  <1>4. PICK x \in T : \A y \in T : ~(<<1..y, 1..x>> \in R_)
    BY <1>3
  <1>5. ASSUME NEW y \in T, y < x PROVE FALSE
    <2>1. x \in 1..x /\ x \notin 1..y /\ 1..y \subseteq 1..x
      BY <1>5
    <2>2. 1..y # 1..x /\ 1..y \in SUBSET Nat /\ 1..x \in SUBSET Nat
      BY <2>1
    <2>3. <<1..y, 1..x>> \in R_
      BY <2>1, <2>2, Zenon DEF StrictSubsetOrdering
    <2> QED
      BY <1>4, <2>3
  <1> QED
    BY <1>5
=============================================================================
