---------------------------- MODULE SetInduction ----------------------------
(***************************************************************************)
(* Induction, stated for sets: a set of numbers that contains 0 and is     *)
(* closed under successor contains every number, and a family of sets that *)
(* contains {} and is closed under adding an element contains every finite *)
(* set.  To prove P for all numbers, take {n \in Nat : P(n)}.              *)
(***************************************************************************)
EXTENDS Integers, FiniteSetTheorems, WellFoundedInduction, TLAPS

\* Induction over the natural numbers: a smallest number outside T is not 0,
\* and its predecessor is in T.  The folds over sequences of fields and the
\* sums over rows rest on it.
LEMMA NatSetInduction ==
  ASSUME NEW T, 0 \in T, \A n \in Nat : n \in T => n + 1 \in T
  PROVE  Nat \subseteq T
  <1> DEFINE Out == Nat \ T
  <1>1. SUFFICES ASSUME Out # {} PROVE FALSE
    OBVIOUS
  <1> HIDE DEF Out
  <1>2. Out \subseteq Nat
    BY DEF Out
  <1>3. PICK m \in Out : \A k \in Out : ~(<<k, m>> \in OpToRel(<, Nat))
    BY <1>1, <1>2, NatLessThanWellFounded, WFMin
  <1>4. \A k \in Out : ~(k < m)
    BY <1>2, <1>3 DEF OpToRel
  <1>5. m \in Nat /\ m # 0 /\ m \notin T
    BY <1>2 DEF Out
  <1>6. m - 1 \in Nat /\ m - 1 < m
    BY <1>5
  <1>7. m - 1 \in T
    BY <1>4, <1>6 DEF Out
  <1> QED
    BY <1>5, <1>6, <1>7

\* Induction over the finite sets of a family's elements.
LEMMA FiniteSetInduction ==
  ASSUME NEW S, IsFiniteSet(S), NEW F, {} \in F,
         \A U \in SUBSET S : U \in F => \A x \in S \ U : U \cup {x} \in F
  PROVE  S \in F
  <1> DEFINE T == {n \in Nat : \A U \in SUBSET S : Cardinality(U) = n => U \in F}
  <1>1. 0 \in T
    BY FS_Subset, FS_EmptySet
  <1>2. ASSUME NEW n \in Nat, n \in T PROVE n + 1 \in T
    <2>1. SUFFICES ASSUME NEW U \in SUBSET S, Cardinality(U) = n + 1 PROVE U \in F
      OBVIOUS
    <2>2. IsFiniteSet(U) /\ U # {}
      BY <2>1, FS_Subset, FS_EmptySet
    <2>3. PICK x \in U : TRUE
      BY <2>2
    <2>4. Cardinality(U \ {x}) = n
      <3>1. Cardinality(U \ {x}) = Cardinality(U) - 1
        BY <2>2, <2>3, FS_RemoveElement
      <3> QED
        BY <2>1, <3>1
    <2>5. U \ {x} \in F
      BY <1>2, <2>4
    <2>6. U = (U \ {x}) \cup {x} /\ x \in S \ (U \ {x})
      BY <2>3
    <2> QED
      BY <2>5, <2>6
  <1>3. Nat \subseteq T
    <2> HIDE DEF T
    <2> QED BY <1>1, <1>2, NatSetInduction
  <1> QED
    BY <1>3, FS_CardinalityType
=============================================================================
