------------------------------- MODULE Least -------------------------------
(***************************************************************************)
(* Of the indices that a loop would accept there is a first: what the      *)
(* searches of the arrays rely on, and an induction over an index.         *)
(***************************************************************************)
EXTENDS Integers, FiniteSetTheorems, WellFoundedInduction, TLAPS

\* The intervals below the elements of T have a least one by inclusion.
LEMMA LeastExists ==
  ASSUME NEW n \in Nat, NEW T \in SUBSET (0 .. n), T # {}
  PROVE  \E x \in T : \A y \in T : x <= y
<1> DEFINE Below(x) == 0 .. (x - 1)
           F == {Below(x) : x \in T}
<1>1. IsWellFoundedOn(StrictSubsetOrdering(0 .. n), SUBSET (0 .. n))
  <2>1. IsFiniteSet(0 .. n)
    BY FS_Interval
  <2> QED BY <2>1, FS_FiniteSubsetsOfFinite, FS_StrictSubsetOrderingWellFounded
<1>2. F \subseteq SUBSET (0 .. n) /\ F # {}
  <2>1. \A x \in T : Below(x) \subseteq 0 .. n
    OBVIOUS
  <2> HIDE DEF Below
  <2> QED BY <2>1
<1>3. PICK b \in F : \A c \in F : <<c, b>> \notin StrictSubsetOrdering(0 .. n)
  <2> HIDE DEF F
  <2> QED BY <1>1, <1>2, WFMin
<1>4. PICK x \in T : b = Below(x)
  OBVIOUS
<1>5. ASSUME NEW y \in T, ~(x <= y) PROVE FALSE
  <2>1. Below(y) \subseteq Below(x) /\ y \in Below(x) /\ y \notin Below(y)
    BY <1>5
  <2>2. <<Below(y), b>> \in StrictSubsetOrdering(0 .. n)
    BY <2>1, <1>2, <1>4 DEF StrictSubsetOrdering
  <2> QED BY <2>2, <1>3
<1> QED BY <1>5
=============================================================================
