----------------------------- MODULE FiniteSums -----------------------------
(* Sums over finite sets, and the greatest member of a finite set, for the    *)
(* components that keep counters.                                             *)
EXTENDS Integers, FiniteSets, FiniteSetsExt, FiniteSetTheorems, WellFoundedInduction, TLAPS

Total(Weight, S) == MapThenSumSet(LAMBDA e : Weight[e], S)

(* The proofs by induction take the least counterexample: WFMin on a set of  *)
(* naturals.                                                                 *)

(* A set of naturals that has 0 and the successor of each member is Nat.     *)
LEMMA NatSetInduction ==
    ASSUME NEW T \in SUBSET Nat, 0 \in T, \A n \in T : n + 1 \in T
    PROVE  T = Nat
<1> SUFFICES ASSUME Nat \ T # {} PROVE FALSE
  BY Zenon
<1> DEFINE U == Nat \ T
<1>1. PICK n \in U : \A m \in U : ~ (<<m, n>> \in OpToRel(<, Nat))
  <2>1. U \subseteq Nat /\ U # {}
    OBVIOUS
  <2> HIDE DEF U
  <2> QED
    BY Zenon, <2>1, WFMin, NatLessThanWellFounded
<1>2. n \in Nat /\ n # 0 /\ n - 1 \in Nat /\ n = (n - 1) + 1
  OBVIOUS
<1>3. n - 1 \in T
  <2> SUFFICES ASSUME n - 1 \in U PROVE FALSE
    BY <1>2
  <2>1. <<n - 1, n>> \in OpToRel(<, Nat)
    BY <1>2 DEF OpToRel
  <2> QED
    BY Zenon, <1>1, <2>1
<1> QED
  BY <1>2, <1>3

(* What is true of the finite sets of n members for every n is true of all   *)
(* of them: the shape the inductions below have.                             *)
Pick(s) == CHOOSE x \in s : TRUE

LEMMA PickSmaller ==
    ASSUME NEW s, IsFiniteSet(s), s # {}
    PROVE  /\ Pick(s) \in s
           /\ IsFiniteSet(s \ {Pick(s)})
           /\ Cardinality(s) \in Nat /\ Cardinality(s) # 0
           /\ Cardinality(s \ {Pick(s)}) = Cardinality(s) - 1
<1>1. Pick(s) \in s
  BY DEF Pick
<1>2. Cardinality(s) \in Nat /\ Cardinality(s) # 0
  BY FS_CardinalityType, FS_EmptySet
<1> QED
  BY <1>1, <1>2, FS_RemoveElement

(* The function MapThenSumSet computes its sum with.                         *)
IsSummer(g, Weight, S) ==
    g = [s \in SUBSET S |->
            IF s = {} THEN 0 ELSE Weight[Pick(s)] + g[s \ {Pick(s)}]]

LEMMA TotalUnfolds ==
    ASSUME NEW Weight, NEW S
    PROVE  Total(Weight, S) = (CHOOSE g : IsSummer(g, Weight, S))[S]
BY DEF Total, MapThenSumSet, MapThenFoldSet, IsSummer, Pick

LEMMA SummerExists ==
    ASSUME NEW Weight, NEW S, IsFiniteSet(S)
    PROVE  \E g : IsSummer(g, Weight, S)
<1> DEFINE D(n) == {s \in SUBSET S : Cardinality(s) <= n}
           Part(g, n) == g = [s \in D(n) |->
                IF s = {} THEN 0 ELSE Weight[Pick(s)] + g[s \ {Pick(s)}]]
           T == {n \in Nat : \E g : Part(g, n)}
<1>0. \A s \in SUBSET S : IsFiniteSet(s) /\ Cardinality(s) \in Nat
                          /\ Cardinality(s) <= Cardinality(S)
  BY FS_Subset, FS_CardinalityType
<1>00. Cardinality(S) \in Nat
  BY FS_CardinalityType
<1>1. 0 \in T
  <2> DEFINE g == [s \in D(0) |-> 0]
  <2>1. \A s \in D(0) : s = {}
    BY <1>0, FS_EmptySet
  <2>2. Part(g, 0)
    BY <2>1
  <2> QED
    BY Zenon, <2>2
<1>2. ASSUME NEW n \in T PROVE n + 1 \in T
  <2>1. PICK g : Part(g, n)
    BY Zenon
  <2> DEFINE h == [s \in D(n + 1) |->
                IF s = {} THEN 0 ELSE Weight[Pick(s)] + g[s \ {Pick(s)}]]
  <2>2. \A s \in D(n) : s \in D(n + 1) /\ h[s] = g[s]
    <3>1. \A s \in D(n) : s \in D(n + 1)
      BY <1>0
    <3>2. \A s \in D(n) : g[s] = IF s = {} THEN 0 ELSE Weight[Pick(s)] + g[s \ {Pick(s)}]
      BY Zenon, <2>1
    <3> QED
      BY <3>1, <3>2
  <2>3. \A s \in D(n + 1) : s # {} => s \ {Pick(s)} \in D(n)
    BY <1>0, PickSmaller
  <2>4. Part(h, n + 1)
    BY Zenon, <2>2, <2>3
  <2> HIDE DEF h, Part
  <2> QED
    BY <2>4
<1>3. Cardinality(S) \in T
  <2> HIDE DEF T
  <2>1. T \in SUBSET Nat
    BY DEF T
  <2> QED
    BY <2>1, <1>1, <1>2, <1>00, NatSetInduction
<1>4. D(Cardinality(S)) = SUBSET S
  BY <1>0
<1> QED
  BY Zenon, <1>3, <1>4 DEF IsSummer

(* What a summer of S says of a subset does not depend on S.                 *)
LEMMA SummersAgree ==
    ASSUME NEW Weight, NEW S, IsFiniteSet(S), NEW g, IsSummer(g, Weight, S),
           NEW R \in SUBSET S, NEW h, IsSummer(h, Weight, R)
    PROVE  g[R] = h[R]
<1> DEFINE T == {n \in Nat : \A s \in SUBSET R : Cardinality(s) = n => g[s] = h[s]}
<1>0. \A s \in SUBSET R : IsFiniteSet(s) /\ Cardinality(s) \in Nat /\ s \in SUBSET S
  BY FS_Subset, FS_CardinalityType
<1>1. \A s \in SUBSET R :
         /\ g[s] = IF s = {} THEN 0 ELSE Weight[Pick(s)] + g[s \ {Pick(s)}]
         /\ h[s] = IF s = {} THEN 0 ELSE Weight[Pick(s)] + h[s \ {Pick(s)}]
  <2>1. \A s \in SUBSET S :
         g[s] = IF s = {} THEN 0 ELSE Weight[Pick(s)] + g[s \ {Pick(s)}]
    BY Zenon DEF IsSummer
  <2>2. \A s \in SUBSET R :
         h[s] = IF s = {} THEN 0 ELSE Weight[Pick(s)] + h[s \ {Pick(s)}]
    BY Zenon DEF IsSummer
  <2> QED
    BY Zenon, <2>1, <2>2, <1>0
<1>2. 0 \in T
  <2>1. \A s \in SUBSET R : Cardinality(s) = 0 => s = {}
    BY <1>0, FS_EmptySet
  <2> QED
    BY <2>1, <1>1
<1>3. ASSUME NEW n \in T PROVE n + 1 \in T
  <2>1. ASSUME NEW s \in SUBSET R, Cardinality(s) = n + 1 PROVE g[s] = h[s]
    <3>0. Cardinality({}) = 0 /\ n \in Nat
      BY FS_EmptySet
    <3>1. s # {}
      BY <2>1, <3>0
    <3>2. s \ {Pick(s)} \in SUBSET R /\ Cardinality(s \ {Pick(s)}) = n
      BY <1>0, <2>1, <3>1, PickSmaller
    <3>3. g[s \ {Pick(s)}] = h[s \ {Pick(s)}]
      BY <3>2
    <3> QED
      BY Zenon, <1>1, <3>1, <3>3
  <2> QED
    BY <2>1
<1>4. Cardinality(R) \in T
  <2>1. T \in SUBSET Nat
    OBVIOUS
  <2> HIDE DEF T
  <2> QED
    BY <2>1, <1>0, <1>2, <1>3, NatSetInduction
<1> QED
  BY <1>4

(* The sum taken one item at a time.                                         *)
LEMMA TotalStep ==
    ASSUME NEW Weight
    PROVE  /\ Total(Weight, {}) = 0
           /\ \A S : IsFiniteSet(S) /\ S # {} =>
                Total(Weight, S) = Weight[Pick(S)] + Total(Weight, S \ {Pick(S)})
<1>1. ASSUME NEW S, IsFiniteSet(S)
      PROVE  \E g : IsSummer(g, Weight, S) /\ Total(Weight, S) = g[S]
  BY <1>1, SummerExists, TotalUnfolds
<1>2. Total(Weight, {}) = 0
  <2>1. PICK g : IsSummer(g, Weight, {}) /\ Total(Weight, {}) = g[{}]
    BY <1>1, FS_EmptySet
  <2> QED
    BY <2>1 DEF IsSummer
<1>3. ASSUME NEW S, IsFiniteSet(S), S # {}
      PROVE  Total(Weight, S) = Weight[Pick(S)] + Total(Weight, S \ {Pick(S)})
  <2>1. PICK g : IsSummer(g, Weight, S) /\ Total(Weight, S) = g[S]
    BY <1>1, <1>3
  <2> DEFINE R == S \ {Pick(S)}
  <2>2. R \in SUBSET S /\ IsFiniteSet(R)
    BY <1>3, FS_Subset
  <2>3. PICK h : IsSummer(h, Weight, R) /\ Total(Weight, R) = h[R]
    BY <1>1, <2>2
  <2>4. g[S] = Weight[Pick(S)] + g[R]
    <3>1. \A s \in SUBSET S :
         g[s] = IF s = {} THEN 0 ELSE Weight[Pick(s)] + g[s \ {Pick(s)}]
      BY Zenon, <2>1 DEF IsSummer
    <3> QED
      BY <3>1, <1>3
  <2>5. g[R] = h[R]
    <3> HIDE DEF R
    <3> QED
      BY <1>3, <2>1, <2>2, <2>3, SummersAgree
  <2> QED
    BY <2>1, <2>3, <2>4, <2>5
<1> QED
  BY <1>2, <1>3

LEMMA TotalType ==
    ASSUME NEW Item, NEW Weight \in [Item -> Nat],
           NEW S \in SUBSET Item, IsFiniteSet(S)
    PROVE  Total(Weight, S) \in Nat
<1> DEFINE T == {n \in Nat : \A s \in SUBSET S : Cardinality(s) = n => Total(Weight, s) \in Nat}
<1>0. \A s \in SUBSET S : IsFiniteSet(s) /\ Cardinality(s) \in Nat
  BY FS_Subset, FS_CardinalityType
<1>1. 0 \in T
  BY Zenon, <1>0, FS_EmptySet, TotalStep
<1>2. ASSUME NEW n \in T PROVE n + 1 \in T
  <2>1. ASSUME NEW s \in SUBSET S, Cardinality(s) = n + 1 PROVE Total(Weight, s) \in Nat
    <3>0. Cardinality({}) = 0 /\ n \in Nat
      BY FS_EmptySet
    <3>1. s # {}
      BY <2>1, <3>0
    <3>2. Pick(s) \in Item /\ s \ {Pick(s)} \in SUBSET S /\ Cardinality(s \ {Pick(s)}) = n
      BY <1>0, <2>1, <3>1, PickSmaller
    <3>3. Total(Weight, s \ {Pick(s)}) \in Nat
      BY <3>2
    <3>4. Total(Weight, s) = Weight[Pick(s)] + Total(Weight, s \ {Pick(s)})
      BY <1>0, <3>1, TotalStep
    <3>5. Weight[Pick(s)] \in Nat
      BY <3>2
    <3> QED
      BY <3>3, <3>4, <3>5
  <2> QED
    BY <2>1
<1>3. Cardinality(S) \in T
  <2>1. T \in SUBSET Nat
    OBVIOUS
  <2> HIDE DEF T
  <2> QED
    BY <2>1, <1>0, <1>1, <1>2, NatSetInduction
<1> QED
  BY <1>3

(* The order the items are taken in does not matter.                         *)
LEMMA TotalRemove ==
    ASSUME NEW Item, NEW Weight \in [Item -> Nat],
           NEW S \in SUBSET Item, IsFiniteSet(S), NEW e \in S
    PROVE  Total(Weight, S) = Weight[e] + Total(Weight, S \ {e})
<1> DEFINE T == {n \in Nat : \A s \in SUBSET S : Cardinality(s) = n =>
                    \A y \in s : Total(Weight, s) = Weight[y] + Total(Weight, s \ {y})}
<1>0. \A s \in SUBSET S : IsFiniteSet(s) /\ Cardinality(s) \in Nat
  BY FS_Subset, FS_CardinalityType
<1>00. \A s \in SUBSET S : Total(Weight, s) \in Nat
  BY <1>0, TotalType
<1>01. \A x \in S : Weight[x] \in Nat
  OBVIOUS
<1>1. 0 \in T
  <2>1. \A s \in SUBSET S : Cardinality(s) = 0 => s = {}
    BY <1>0, FS_EmptySet
  <2> QED
    BY <2>1
<1>2. ASSUME NEW n \in T PROVE n + 1 \in T
  <2>1. ASSUME NEW s \in SUBSET S, Cardinality(s) = n + 1, NEW y \in s
        PROVE  Total(Weight, s) = Weight[y] + Total(Weight, s \ {y})
    <3> DEFINE x == Pick(s)
    <3>1. x \in s /\ s \ {x} \in SUBSET S /\ Cardinality(s \ {x}) = n
      BY <1>0, <2>1, PickSmaller
    <3>2. Total(Weight, s) = Weight[x] + Total(Weight, s \ {x})
      BY <1>0, <2>1, TotalStep
    <3> HIDE DEF x
    <3>3. CASE x = y
      BY <3>2, <3>3
    <3>4. CASE x # y
      <4>1. y \in s \ {x} /\ x \in s \ {y} /\ s \ {y} \in SUBSET S
            /\ (s \ {x}) \ {y} = (s \ {y}) \ {x} /\ (s \ {x}) \ {y} \in SUBSET S
        BY <3>1, <3>4
      <4>2. Cardinality(s \ {y}) = n
        <5>1. IsFiniteSet(s) /\ n \in Nat
          BY <1>0
        <5>2. Cardinality(s \ {y}) = Cardinality(s) - 1
          BY Zenon, <5>1, FS_RemoveElement
        <5> QED
          BY <2>1, <5>1, <5>2
      <4>3. Total(Weight, s \ {x}) = Weight[y] + Total(Weight, (s \ {x}) \ {y})
        BY <3>1, <4>1
      <4>4. Total(Weight, s \ {y}) = Weight[x] + Total(Weight, (s \ {x}) \ {y})
        BY <4>1, <4>2
      <4>5. Weight[x] \in Nat /\ Weight[y] \in Nat
            /\ Total(Weight, (s \ {x}) \ {y}) \in Nat
        BY <1>00, <1>01, <3>1, <4>1
      <4> QED
        BY <3>2, <4>3, <4>4, <4>5
    <3> QED
      BY <3>3, <3>4
  <2> QED
    BY <2>1
<1>3. Cardinality(S) \in T
  <2>1. T \in SUBSET Nat
    OBVIOUS
  <2> HIDE DEF T
  <2> QED
    BY <2>1, <1>0, <1>1, <1>2, NatSetInduction
<1> QED
  BY <1>3

(* A new item adds its weight.                                               *)
LEMMA TotalAdd ==
    ASSUME NEW Item, NEW Weight \in [Item -> Nat],
           NEW S \in SUBSET Item, IsFiniteSet(S), NEW e \in Item \ S
    PROVE  Total(Weight, S \cup {e}) = Total(Weight, S) + Weight[e]
<1>1. S \cup {e} \in SUBSET Item /\ IsFiniteSet(S \cup {e}) /\ (S \cup {e}) \ {e} = S
  BY FS_AddElement
<1>2. Total(Weight, S \cup {e}) = Weight[e] + Total(Weight, S)
  BY <1>1, TotalRemove
<1>3. Total(Weight, S) \in Nat /\ Weight[e] \in Nat
  BY TotalType
<1> QED
  BY <1>2, <1>3

LEMMA MaxOfFinite ==
    ASSUME NEW S \in SUBSET Nat, IsFiniteSet(S), S # {}
    PROVE  Max(S) \in S /\ \A x \in S : x <= Max(S)
<1> DEFINE T == {n \in Nat : \A s \in SUBSET S :
                    Cardinality(s) = n /\ s # {} => \E m \in s : \A x \in s : x <= m}
<1>0. \A s \in SUBSET S : IsFiniteSet(s) /\ Cardinality(s) \in Nat
  BY Zenon, FS_Subset, FS_CardinalityType
<1>1. 0 \in T
  BY <1>0, FS_EmptySet
<1>2. ASSUME NEW n \in T PROVE n + 1 \in T
  <2>1. ASSUME NEW s \in SUBSET S, Cardinality(s) = n + 1, s # {}
        PROVE  \E m \in s : \A x \in s : x <= m
    <3> DEFINE p == Pick(s)
               r == s \ {p}
    <3>0. p \in s /\ Cardinality(r) = n
      BY <1>0, <2>1, PickSmaller
    <3>1. p \in s /\ r \in SUBSET S /\ Cardinality(r) = n /\ s = r \cup {p}
      <4> HIDE DEF p
      <4> QED
        BY <3>0
    <3> HIDE DEF p, r
    <3>2. CASE r = {}
      BY <3>1, <3>2
    <3>3. CASE r # {}
      <4>1. PICK m \in r : \A x \in r : x <= m
        BY <3>1, <3>3
      <4>2. CASE m <= p
        BY <3>1, <4>1, <4>2
      <4>3. CASE ~(m <= p)
        BY <3>1, <4>1, <4>3
      <4> QED
        BY <4>2, <4>3
    <3> QED
      BY <3>2, <3>3
  <2> QED
    BY <2>1
<1>3. Cardinality(S) \in T
  <2>1. T \in SUBSET Nat
    OBVIOUS
  <2> HIDE DEF T
  <2> QED
    BY <2>1, <1>0, <1>1, <1>2, NatSetInduction
<1>4. \E m \in S : \A x \in S : m >= x
  BY <1>3
<1>5. Max(S) \in S /\ \A x \in S : Max(S) >= x
  BY <1>4, Zenon DEF Max
<1> QED
  BY <1>5

=============================================================================
