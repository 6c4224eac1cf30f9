----------------------------- MODULE FiniteOrders -----------------------------
(***************************************************************************)
(* Induction over finite sets in first-order form, by least counterexample:*)
(* among the sets that refute a fact there is one without a smaller one.   *)
(***************************************************************************)
EXTENDS Integers, FiniteSetTheorems, WellFoundedInduction, TLAPS

\* Among some subsets of a finite set there is one that includes no other of them.
LEMMA LeastSubset ==
  ASSUME NEW S, IsFiniteSet(S), NEW T, T \subseteq SUBSET S, T # {}
  PROVE  \E x \in T : \A y \in T : y \subseteq x => y = x
<1>1. SUBSET S \subseteq FiniteSubsetsOf(S)
  BY FS_Subset, FS_FiniteSubsetsOfFinite
<1>2. PICK x \in T : \A y \in T : <<y, x>> \notin StrictSubsetOrdering(S)
  <2>1. IsWellFoundedOn(StrictSubsetOrdering(S), FiniteSubsetsOf(S))
    BY FS_StrictSubsetOrderingWellFounded
  <2>2. T \subseteq FiniteSubsetsOf(S)
    BY <1>1
  <2>. QED  BY <2>1, <2>2, WFMin, Zenon
<1>3. \A y \in T : y \subseteq x => y = x
  BY <1>2 DEF StrictSubsetOrdering
<1>. QED  BY <1>3

\* The same for natural numbers.
LEMMA LeastNumber ==
  ASSUME NEW T, T \subseteq Nat, T # {}
  PROVE  \E x \in T : \A y \in T : x <= y
<1>1. PICK x \in T : \A y \in T : <<y, x>> \notin OpToRel(<, Nat)
  BY WFMin, NatLessThanWellFounded, Zenon
<1>2. \A y \in T : ~(y < x)
  BY <1>1, Zenon DEF OpToRel
<1>. QED  BY <1>2

\* A relation that compares any two members of a finite set, and is transitive,
\* has a member that comes before all.
LEMMA SomeComesFirst ==
  ASSUME NEW S, IsFiniteSet(S), S # {}, NEW R,
         \A x, y \in S : <<x, y>> \in R \/ <<y, x>> \in R,
         \A x, y, z \in S : <<x, y>> \in R /\ <<y, z>> \in R => <<x, z>> \in R
  PROVE  \E x \in S : \A y \in S : <<x, y>> \in R
<1>. DEFINE HasFirst(X) == \E x \in X : \A y \in X : <<x, y>> \in R
            T == {X \in SUBSET S : X # {} /\ ~HasFirst(X)}
<1>. SUFFICES ASSUME T # {} PROVE FALSE
  OBVIOUS
<1>1. PICK X \in T : \A Y \in T : Y \subseteq X => Y = X
  <2>. HIDE DEF T
  <2>1. T \subseteq SUBSET S
    BY DEF T
  <2>. QED  BY <2>1, LeastSubset
<1>2. PICK x \in X : TRUE
  OBVIOUS
<1>3. X \ {x} = {} \/ HasFirst(X \ {x})
  <2>1. X \ {x} \in SUBSET S /\ X \ {x} # X
    BY <1>1, <1>2
  <2>2. X \ {x} \notin T
    BY <1>1, <2>1, Zenon
  <2>. HIDE DEF HasFirst
  <2>. QED  BY <2>1, <2>2
<1>4. CASE X \ {x} = {}
  BY <1>1, <1>2, <1>4
<1>5. CASE HasFirst(X \ {x})
  <2>1. PICK b \in X \ {x} : \A y \in X \ {x} : <<b, y>> \in R
    BY <1>5
  <2>2. CASE <<b, x>> \in R
    BY <2>1, <2>2, <1>1
  <2>3. CASE <<x, b>> \in R
    <3>1. \A y \in X : <<x, y>> \in R
      BY <2>1, <2>3, <1>1, <1>2
    <3>. QED  BY <3>1, <1>1, <1>2
  <2>. QED  BY <2>2, <2>3, <1>1, <1>2
<1>. QED  BY <1>3, <1>4, <1>5
===============================================================================
