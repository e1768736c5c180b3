----------------------------- MODULE FiniteSums -----------------------------
(***************************************************************************)
(* Sums over finite sets: what MapThenFoldSet computes for +, as far as    *)
(* the totals of a user's experience need it.  The operator is given by a  *)
(* recursive function over the subsets of the set; SumOver names the sum   *)
(* of a function's values, and SumIsSumOver is how a proof leaves the      *)
(* operator of the community module for it.                                *)
(***************************************************************************)
EXTENDS SetInduction, Functions

Picked(U) == CHOOSE x \in U : TRUE

\* One step of the recursion: g is the sum over the smaller sets.
SumStep(f, g, U) == IF U = {} THEN 0 ELSE f[Picked(U)] + g[U \ {Picked(U)}]

\* g is the sum over each member of a family of sets.
SumsUp(f, g, F) == g = [U \in F |-> SumStep(f, g, U)]

SumOver(f, S) == (CHOOSE g : SumsUp(f, g, SUBSET S))[S]

\* The community operator is this sum.
LEMMA SumIsSumOver ==
  ASSUME NEW f, NEW S
  PROVE  SumFunctionOnSet(f, S) = SumOver(f, S)
  BY DEF SumFunctionOnSet, FoldFunctionOnSet, MapThenFoldSet, SumOver, SumsUp, SumStep, Picked

-----------------------------------------------------------------------------
(* The recursion is well founded.                                          *)

SubsetsUpTo(S, n) == {U \in SUBSET S : Cardinality(U) <= n}

\* What is picked from a set is one of its elements, and leaves a set that is
\* smaller by one.
LEMMA PickSmaller ==
  ASSUME NEW S, IsFiniteSet(S), NEW U \in SUBSET S, U # {}
  PROVE  /\ Picked(U) \in U
         /\ U \ {Picked(U)} \in SUBSET S
         /\ Cardinality(U) \in Nat
         /\ Cardinality(U \ {Picked(U)}) \in Nat
         /\ Cardinality(U \ {Picked(U)}) = Cardinality(U) - 1
  <1>1. Picked(U) \in U
    BY DEF Picked
  <1> QED
    BY <1>1, FS_Subset, FS_RemoveElement, FS_CardinalityType

\* The sums over the sets of up to n elements exist, for every n: those over
\* the sets of one element more are one step away.
LEMMA SmallSumsExist ==
  ASSUME NEW f, NEW S, IsFiniteSet(S)
  PROVE  \A n \in Nat : \E g : SumsUp(f, g, SubsetsUpTo(S, n))
  <1> DEFINE T == {n \in Nat : \E g : SumsUp(f, g, SubsetsUpTo(S, n))}
  <1>1. 0 \in T
    <2>1. \A U \in SubsetsUpTo(S, 0) : U = {}
      BY FS_Subset, FS_EmptySet, FS_CardinalityType DEF SubsetsUpTo
    <2>2. SumsUp(f, [U \in SubsetsUpTo(S, 0) |-> 0], SubsetsUpTo(S, 0))
      BY <2>1 DEF SumsUp, SumStep
    <2> QED
      BY <2>2
  <1>2. ASSUME NEW n \in Nat, n \in T PROVE n + 1 \in T
    <2>1. PICK g : SumsUp(f, g, SubsetsUpTo(S, n))
      BY <1>2
    <2> DEFINE h == [U \in SubsetsUpTo(S, n + 1) |-> SumStep(f, g, U)]
    <2>2. ASSUME NEW U \in SubsetsUpTo(S, n) PROVE h[U] = g[U]
      <3>1. U \in SubsetsUpTo(S, n + 1)
        BY FS_Subset, FS_CardinalityType DEF SubsetsUpTo
      <3> QED
        BY <3>1, <2>1 DEF SumsUp
    <2>3. ASSUME NEW U \in SubsetsUpTo(S, n + 1) PROVE SumStep(f, g, U) = SumStep(f, h, U)
      <3>1. CASE U = {}
        BY <3>1 DEF SumStep
      <3>2. CASE U # {}
        <4>1. U \ {Picked(U)} \in SubsetsUpTo(S, n)
          BY <3>2, PickSmaller DEF SubsetsUpTo
        <4>2. h[U \ {Picked(U)}] = g[U \ {Picked(U)}]
          BY <4>1, <2>2
        <4> HIDE DEF h
        <4> QED
          BY <4>2, <3>2 DEF SumStep
      <3> QED
        BY <3>1, <3>2
    <2>4. SumsUp(f, h, SubsetsUpTo(S, n + 1))
      BY <2>3 DEF SumsUp
    <2> QED
      BY <2>4
  <1>3. Nat \subseteq T
    <2> HIDE DEF T
    <2> QED BY <1>1, <1>2, NatSetInduction
  <1> QED
    BY <1>3

\* The sums over the subsets of a finite set exist.
LEMMA SumsExist ==
  ASSUME NEW f, NEW S, IsFiniteSet(S)
  PROVE  \E g : SumsUp(f, g, SUBSET S)
  <1>1. Cardinality(S) \in Nat /\ SubsetsUpTo(S, Cardinality(S)) = SUBSET S
    BY FS_CardinalityType, FS_Subset DEF SubsetsUpTo
  <1>2. \E g : SumsUp(f, g, SubsetsUpTo(S, Cardinality(S)))
    <2>1. \A n \in Nat : \E g : SumsUp(f, g, SubsetsUpTo(S, n))
      BY SmallSumsExist
    <2> QED
      BY <1>1, <2>1
  <1> QED
    BY <1>1, <1>2

\* Two functions that satisfy the recursion agree where both are defined.
LEMMA SumsAgree ==
  ASSUME NEW f, NEW g, NEW h, NEW S, NEW R,
         IsFiniteSet(S), R \subseteq S, SumsUp(f, g, SUBSET S), SumsUp(f, h, SUBSET R)
  PROVE  \A U \in SUBSET R : g[U] = h[U]
  <1> DEFINE T == {n \in Nat : \A U \in SUBSET R : Cardinality(U) = n => g[U] = h[U]}
  <1>1. \A U \in SUBSET R : g[U] = SumStep(f, g, U) /\ h[U] = SumStep(f, h, U)
    BY DEF SumsUp
  <1>2. 0 \in T
    <2>1. ASSUME NEW U \in SUBSET R, Cardinality(U) = 0 PROVE U = {}
      BY <2>1, FS_Subset, FS_EmptySet
    <2> QED
      BY <1>1, <2>1 DEF SumStep
  <1>3. ASSUME NEW n \in Nat, n \in T PROVE n + 1 \in T
    <2>1. SUFFICES ASSUME NEW U \in SUBSET R, Cardinality(U) = n + 1 PROVE g[U] = h[U]
      OBVIOUS
    <2>2. U # {} /\ U \in SUBSET S
      <3>1. CASE U = {}
        BY <3>1, <2>1, FS_EmptySet
      <3>2. CASE U # {}
        BY <3>2
      <3> QED
        BY <3>1, <3>2
    <2>3. Cardinality(U \ {Picked(U)}) = n /\ U \ {Picked(U)} \in SUBSET R
      BY <2>1, <2>2, PickSmaller
    <2>4. g[U \ {Picked(U)}] = h[U \ {Picked(U)}]
      BY <1>3, <2>3
    <2> QED
      BY <1>1, <2>2, <2>4 DEF SumStep
  <1>4. Nat \subseteq T
    <2> HIDE DEF T
    <2> QED BY <1>2, <1>3, NatSetInduction
  <1> QED
    BY <1>4, FS_Subset, FS_CardinalityType

\* The sum satisfies its recursion.
LEMMA SumOverRecursion ==
  ASSUME NEW f, NEW S, IsFiniteSet(S)
  PROVE  SumOver(f, S) = IF S = {} THEN 0 ELSE f[Picked(S)] + SumOver(f, S \ {Picked(S)})
  <1> DEFINE g == CHOOSE g : SumsUp(f, g, SUBSET S)
             R == S \ {Picked(S)}
             h == CHOOSE h : SumsUp(f, h, SUBSET R)
  <1>1. SumsUp(f, g, SUBSET S)
    BY SumsExist
  <1>2. IsFiniteSet(R) /\ R \subseteq S
    BY FS_Subset
  <1>3. SumsUp(f, h, SUBSET R)
    BY <1>2, SumsExist
  <1> HIDE DEF g, h, R
  <1>4. g[R] = h[R]
    <2>1. \A U \in SUBSET R : g[U] = h[U]
      BY <1>1, <1>2, <1>3, SumsAgree
    <2>2. R \in SUBSET R
      OBVIOUS
    <2> QED
      BY <2>1, <2>2
  <1>5. SumOver(f, S) = g[S] /\ SumOver(f, R) = h[R]
    BY DEF SumOver, g, h
  <1>6. g[S] = SumStep(f, g, S)
    BY <1>1 DEF SumsUp
  <1> QED
    BY <1>4, <1>5, <1>6 DEF SumStep, R

-----------------------------------------------------------------------------
(* Arithmetic of sums.                                                     *)

\* The sum over no element is 0.
LEMMA SumOverEmpty ==
  ASSUME NEW f
  PROVE  SumOver(f, {}) = 0
  <1>1. IsFiniteSet({})
    BY FS_EmptySet
  <1> QED
    BY <1>1, SumOverRecursion

\* A sum of natural numbers is one.
LEMMA SumOverNat ==
  ASSUME NEW f, NEW S, IsFiniteSet(S), \A s \in S : f[s] \in Nat
  PROVE  SumOver(f, S) \in Nat
  <1> DEFINE T == {n \in Nat : \A U \in SUBSET S : Cardinality(U) = n => SumOver(f, U) \in Nat}
  <1>1. ASSUME NEW n \in Nat, NEW U \in SUBSET S, Cardinality(U) = n, U # {}, n - 1 \in T
        PROVE  SumOver(f, U) \in Nat
    <2>1. IsFiniteSet(U)
      BY FS_Subset
    <2>2. Picked(U) \in U /\ Cardinality(U \ {Picked(U)}) = n - 1 /\ U \ {Picked(U)} \in SUBSET S
      BY <1>1, PickSmaller
    <2>3. SumOver(f, U \ {Picked(U)}) \in Nat
      BY <1>1, <2>2
    <2>4. SumOver(f, U) = f[Picked(U)] + SumOver(f, U \ {Picked(U)})
      BY <1>1, <2>1, SumOverRecursion
    <2> QED
      BY <2>2, <2>3, <2>4
  <1>2. 0 \in T
    <2>1. ASSUME NEW U \in SUBSET S, Cardinality(U) = 0 PROVE SumOver(f, U) \in Nat
      <3>1. U = {}
        BY <2>1, FS_Subset, FS_EmptySet
      <3>2. SumOver(f, {}) = 0
        BY SumOverEmpty
      <3> QED
        BY <3>1, <3>2
    <2> QED
      BY <2>1
  <1>3. ASSUME NEW n \in Nat, n \in T PROVE n + 1 \in T
    <2>1. ASSUME NEW U \in SUBSET S, Cardinality(U) = n + 1 PROVE SumOver(f, U) \in Nat
      <3>1. U # {}
        <4>1. CASE U = {}
          BY <4>1, <2>1, FS_EmptySet
        <4>2. CASE U # {}
          BY <4>2
        <4> QED
          BY <4>1, <4>2
      <3>2. (n + 1) - 1 \in T
        BY <1>3
      <3> HIDE DEF T
      <3> QED
        BY <3>1, <3>2, <2>1, <1>1
    <2> QED
      BY <2>1
  <1>4. Nat \subseteq T
    <2> HIDE DEF T
    <2> QED BY <1>2, <1>3, NatSetInduction
  <1> QED
    BY <1>4, FS_CardinalityType

\* Any element may be taken out of a sum, whichever the recursion picks.
LEMMA SumOverTakeOut ==
  ASSUME NEW f, NEW S, IsFiniteSet(S), \A s \in S : f[s] \in Nat
  PROVE  \A x \in S : SumOver(f, S) = f[x] + SumOver(f, S \ {x})
  <1> DEFINE Good(U) == \A x \in U : SumOver(f, U) = f[x] + SumOver(f, U \ {x})
             T == {n \in Nat : \A U \in SUBSET S : Cardinality(U) = n => Good(U)}
  <1>1. ASSUME NEW n \in Nat, n \in T, NEW U \in SUBSET S, Cardinality(U) = n + 1, NEW x \in U
        PROVE  SumOver(f, U) = f[x] + SumOver(f, U \ {x})
    <2>1. IsFiniteSet(U) /\ U # {}
      BY <1>1, FS_Subset
    <2> DEFINE p == Picked(U)
               V == U \ {x}
               W == U \ {p}
    <2>2. SumOver(f, U) = f[p] + SumOver(f, W)
      BY <2>1, SumOverRecursion
    <2>3. p \in U /\ Cardinality(W) = n
      BY <1>1, <2>1, PickSmaller
    <2>4. CASE x = p
      BY <2>2, <2>4
    <2>5. CASE x # p
      <3>1. Cardinality(V) = n
        <4>1. Cardinality(V) = Cardinality(U) - 1
          BY <2>1, FS_RemoveElement
        <4> QED
          BY <1>1, <4>1
      <3>2. SumOver(f, V) = f[p] + SumOver(f, V \ {p})
        BY <1>1, <2>3, <2>5, <3>1
      <3>3. SumOver(f, W) = f[x] + SumOver(f, W \ {x})
        BY <1>1, <2>3, <2>5
      <3>4. V \ {p} = W \ {x}
        OBVIOUS
      <3>5. SumOver(f, V \ {p}) \in Nat
        <4>1. IsFiniteSet(V \ {p}) /\ V \ {p} \subseteq S
          BY <2>1, FS_Subset
        <4> HIDE DEF V, p
        <4> QED
          BY <4>1, SumOverNat
      <3>6. f[x] \in Nat /\ f[p] \in Nat
        BY <2>3
      <3> HIDE DEF p, V, W
      <3>7. SumOver(f, U) = f[p] + (f[x] + SumOver(f, V \ {p}))
        BY <2>2, <3>3, <3>4
      <3> QED
        BY <3>2, <3>5, <3>6, <3>7 DEF V
    <2> QED
      BY <2>4, <2>5
  <1>2. 0 \in T
    <2>1. ASSUME NEW U \in SUBSET S, Cardinality(U) = 0 PROVE U = {}
      BY <2>1, FS_Subset, FS_EmptySet
    <2> QED
      BY <2>1
  <1>3. ASSUME NEW n \in Nat, n \in T PROVE n + 1 \in T
    <2>1. ASSUME NEW U \in SUBSET S, Cardinality(U) = n + 1 PROVE Good(U)
      BY <1>1, <1>3, <2>1
    <2> HIDE DEF Good
    <2> QED
      BY <2>1
  <1>4. Nat \subseteq T
    <2> HIDE DEF T
    <2> QED BY <1>2, <1>3, NatSetInduction
  <1> QED
    BY <1>4, FS_CardinalityType

\* An element added to a set adds its value to the sum.
LEMMA SumOverAdd ==
  ASSUME NEW f, NEW S, IsFiniteSet(S), NEW x, x \notin S, \A s \in S \cup {x} : f[s] \in Nat
  PROVE  SumOver(f, S \cup {x}) = f[x] + SumOver(f, S)
  <1>1. IsFiniteSet(S \cup {x})
    BY FS_AddElement
  <1>2. SumOver(f, S \cup {x}) = f[x] + SumOver(f, (S \cup {x}) \ {x})
    BY <1>1, SumOverTakeOut
  <1>3. (S \cup {x}) \ {x} = S
    OBVIOUS
  <1> QED
    BY <1>2, <1>3

\* Functions with the same values on a set have the same sum over it.
LEMMA SumOverAgree ==
  ASSUME NEW f, NEW g, NEW S, IsFiniteSet(S), \A s \in S : f[s] \in Nat /\ g[s] = f[s]
  PROVE  SumOver(g, S) = SumOver(f, S)
  <1> DEFINE F == {U \in SUBSET S : SumOver(g, U) = SumOver(f, U)}
  <1>1. {} \in F
    BY SumOverEmpty
  <1>2. ASSUME NEW U \in SUBSET S, U \in F, NEW x \in S \ U PROVE U \cup {x} \in F
    <2>1. IsFiniteSet(U)
      BY FS_Subset
    <2>2. SumOver(f, U \cup {x}) = f[x] + SumOver(f, U)
      BY <2>1, SumOverAdd
    <2>3. SumOver(g, U \cup {x}) = g[x] + SumOver(g, U)
      BY <2>1, SumOverAdd
    <2> QED
      BY <1>2, <2>2, <2>3
  <1>3. S \in F
    <2> HIDE DEF F
    <2> QED BY <1>1, <1>2, FiniteSetInduction
  <1> QED
    BY <1>3

\* Smaller values on a smaller set have a smaller sum.
LEMMA SumOverMonotone ==
  ASSUME NEW f, NEW g, NEW S, NEW R, IsFiniteSet(S), R \subseteq S,
         \A s \in S : f[s] \in Nat, \A s \in R : g[s] \in Nat /\ g[s] <= f[s]
  PROVE  SumOver(g, R) <= SumOver(f, S)
  <1> DEFINE F == {U \in SUBSET S : SumOver(g, U \cap R) <= SumOver(f, U)}
  <1>1. {} \in F
    <2>1. {} \cap R = {} /\ SumOver(g, {}) = 0 /\ SumOver(f, {}) = 0
      BY SumOverEmpty
    <2> QED
      BY <2>1
  <1>2. ASSUME NEW U \in SUBSET S, U \in F, NEW x \in S \ U PROVE U \cup {x} \in F
    <2>1. IsFiniteSet(U) /\ IsFiniteSet(U \cap R)
      BY FS_Subset
    <2>2. SumOver(f, U \cup {x}) = f[x] + SumOver(f, U)
      BY <2>1, SumOverAdd
    <2>3. SumOver(f, U) \in Nat /\ SumOver(g, U \cap R) \in Nat
      BY <2>1, SumOverNat
    <2>4. CASE x \in R
      <3>1. (U \cup {x}) \cap R = (U \cap R) \cup {x} /\ x \notin U \cap R
        BY <2>4
      <3>2. SumOver(g, (U \cap R) \cup {x}) = g[x] + SumOver(g, U \cap R)
        BY <2>1, <2>4, <3>1, SumOverAdd
      <3> QED
        BY <1>2, <2>2, <2>3, <2>4, <3>1, <3>2
    <2>5. CASE x \notin R
      <3>1. (U \cup {x}) \cap R = U \cap R
        BY <2>5
      <3>2. SumOver(g, (U \cup {x}) \cap R) = SumOver(g, U \cap R)
        BY <3>1
      <3>3. SumOver(g, U \cap R) <= f[x] + SumOver(f, U)
        BY <1>2, <2>3
      <3> QED
        BY <2>2, <3>2, <3>3
    <2> QED
      BY <2>4, <2>5
  <1>3. S \in F
    <2> HIDE DEF F
    <2> QED BY <1>1, <1>2, FiniteSetInduction
  <1>4. S \cap R = R
    OBVIOUS
  <1> QED
    BY <1>3, <1>4
=============================================================================
