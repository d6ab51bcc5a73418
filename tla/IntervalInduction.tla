-------------------------- MODULE IntervalInduction ---------------------------
(***************************************************************************)
(* Induction over numbers, stated with sets: a property is the set of the  *)
(* numbers that have it, so that no fact here takes an operator.           *)
(***************************************************************************)
EXTENDS Integers, FiniteSets, FiniteSetTheorems, WellFoundedInduction, TLAPS

\* A non-empty set of naturals has a least element.
LEMMA LeastNat ==
    ASSUME NEW T \in SUBSET Nat, T # {}
    PROVE  \E n \in T : \A m \in T : n <= m
<1> DEFINE R == StrictSubsetOrdering(Nat)
           S == FiniteSubsetsOf(Nat)
           U == {0..n : n \in T}
<1>1. IsWellFoundedOn(R, S)
  BY FS_StrictSubsetOrderingWellFounded
<1>2. U \subseteq S /\ U # {}
  <2>1. \A n \in T : 0..n \in SUBSET Nat /\ 0 \in Int /\ n \in Int
    OBVIOUS
  <2>2. \A n \in T : IsFiniteSet(0..n)
    BY <2>1, FS_Interval
  <2>3. \A n \in T : 0..n \in S
    BY <2>1, <2>2 DEF FiniteSubsetsOf
  <2> QED BY <2>3
<1>3. \E x \in U : \A y \in U : ~ (<<y, x>> \in R)
  <2> HIDE DEF R, S, U
  <2> QED BY <1>1, <1>2, WFMin
<1>4. PICK n \in T : \A m \in T : ~ (<<0..m, 0..n>> \in R)
  BY <1>3
<1>5. ASSUME NEW m \in T, m < n
      PROVE  FALSE
  <2>1. 0..m \subseteq 0..n /\ 0..m # 0..n
    BY <1>5
  <2>2. 0..m \in S /\ 0..n \in S
    BY <1>2
  <2> QED BY <1>4, <2>1, <2>2 DEF StrictSubsetOrdering, FiniteSubsetsOf
<1> QED BY <1>5

\* What holds at m, and passes from each number to the next up to n, holds up to n.
LEMMA UpTo ==
    ASSUME NEW m \in Nat, NEW n \in Nat, NEW T, m \in T,
           \A i \in m..(n - 1) : i \in T => i + 1 \in T
    PROVE  \A i \in m..n : i \in T
<1> DEFINE U == {i \in m..n : i \notin T}
<1> SUFFICES ASSUME U # {} PROVE FALSE
  OBVIOUS
<1>1. PICK i \in U : \A j \in U : i <= j
  <2>1. U \in SUBSET Nat
    OBVIOUS
  <2> HIDE DEF U
  <2> QED BY <2>1, LeastNat
<1>2. i \in m..n /\ i # m
  OBVIOUS
<1>3. i - 1 \in m..(n - 1) /\ i - 1 \notin U
  BY <1>1, <1>2
<1>4. i - 1 \in T /\ (i - 1) + 1 = i
  BY <1>2, <1>3
<1> QED BY <1>3, <1>4
=============================================================================
