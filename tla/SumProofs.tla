------------------------------ MODULE SumProofs ------------------------------
(***************************************************************************)
(* Sums of a function over a finite set, SumFunctionOnSet of the community *)
(* modules: the sum does not depend on the order in which it is taken, and *)
(* what it becomes when the set or the function changes.                   *)
(*                                                                         *)
(* Induction is over sets as objects: a set G of subsets that has every    *)
(* subset whose smaller ones it has, has the whole.                        *)
(***************************************************************************)
EXTENDS Integers, FiniteSets, Functions, FiniteSetTheorems,
        WellFoundedInduction, TLAPS

\* Induction over the subsets of a finite set: the least subset outside G has all
\* its strict subsets in G.
LEMMA SetInduction ==
    ASSUME NEW S, IsFiniteSet(S), NEW G,
           \A T \in SUBSET S : (\A U \in SUBSET T : U # T => U \in G) => T \in G
    PROVE  S \in G
<1> SUFFICES ASSUME S \notin G PROVE FALSE
  OBVIOUS
<1> DEFINE Bad == (SUBSET S) \ G
<1>1. IsWellFoundedOn(StrictSubsetOrdering(S), FiniteSubsetsOf(S))
  BY FS_StrictSubsetOrderingWellFounded
<1>2. FiniteSubsetsOf(S) = SUBSET S
  BY FS_FiniteSubsetsOfFinite
<1>3. Bad \subseteq FiniteSubsetsOf(S) /\ Bad # {}
  BY <1>2
<1>4. PICK T \in Bad : \A U \in Bad : ~(<<U, T>> \in StrictSubsetOrdering(S))
  <2> HIDE DEF Bad
  <2> QED
    BY <1>1, <1>3, WFMin
<1>5. \A U \in SUBSET T : U # T => U \in G
  BY <1>4 DEF StrictSubsetOrdering
<1> QED
  BY <1>4, <1>5

-----------------------------------------------------------------------------
(* The fold is what its recursive equation says                             *)

Pick(s) == CHOOSE x \in s : TRUE
Fold(g, h, s) == IF s = {} THEN 0 ELSE h[Pick(s)] + g[s \ {Pick(s)}]
Folds(g, h, S) == g = [s \in SUBSET S |-> Fold(g, h, s)]

\* What is chosen of a set is in it.
LEMMA PickIn == ASSUME NEW s, s # {} PROVE Pick(s) \in s
  BY DEF Pick

\* The functions that obey the equation on the subsets of S with at most n
\* elements.
Small(S, n) == {s \in SUBSET S : Cardinality(s) <= n}
Obeys(g, h, S, n) == g = [s \in Small(S, n) |-> Fold(g, h, s)]

\* The equation has a solution: those on small subsets extend to larger ones.
LEMMA FoldExists ==
    ASSUME NEW S, IsFiniteSet(S), NEW h
    PROVE  \E g : Folds(g, h, S)
<1> DEFINE G == {T \in SUBSET S : \E g : Obeys(g, h, S, Cardinality(T))}
<1>f. \A s \in SUBSET S : /\ IsFiniteSet(s) /\ Cardinality(s) \in Nat
                          /\ Cardinality(s) <= Cardinality(S)
  BY FS_Subset, FS_CardinalityType
<1>r. \A s \in SUBSET S : s # {} => /\ s \ {Pick(s)} \in SUBSET S
                                    /\ Cardinality(s \ {Pick(s)}) = Cardinality(s) - 1
  BY <1>f, PickIn, FS_RemoveElement
<1>1. ASSUME NEW T \in SUBSET S, \A U \in SUBSET T : U # T => U \in G
      PROVE  T \in G
  <2>1. CASE T = {}
    <3> DEFINE g == [s \in Small(S, 0) |-> 0]
    <3>1. Small(S, 0) = {{}}
      BY <1>f, FS_EmptySet DEF Small
    <3>2. g = [s \in Small(S, 0) |-> Fold(g, h, s)]
      BY <3>1 DEF Fold
    <3>3. Obeys(g, h, S, Cardinality(T))
      BY <2>1, <3>2, FS_EmptySet DEF Obeys
    <3> QED
      BY <3>3
  <2>2. CASE T # {}
    <3> DEFINE U == T \ {Pick(T)}
               n == Cardinality(U)
    <3>1. U \in G /\ n \in Nat /\ Cardinality(T) = n + 1
      BY <1>1, <1>f, <1>r, <2>2, PickIn
    <3>2. PICK g : Obeys(g, h, S, n)
      BY <3>1
    <3> DEFINE k == [s \in Small(S, n + 1) |-> Fold(g, h, s)]
    <3> HIDE DEF n, G, U
    <3>3. ASSUME NEW s \in Small(S, n + 1) PROVE Fold(g, h, s) = Fold(k, h, s)
      <4>1. CASE s = {}
        BY <4>1 DEF Fold
      <4>2. CASE s # {}
        <5> DEFINE t == s \ {Pick(s)}
        <5>1. t \in Small(S, n) /\ t \in Small(S, n + 1)
          BY <1>f, <1>r, <3>1, <4>2 DEF Small
        <5> HIDE DEF t
        <5>2. g[t] = Fold(g, h, t)
          BY <3>2, <5>1 DEF Obeys
        <5>3. k[t] = Fold(g, h, t)
          BY <5>1
        <5> QED
          BY <4>2, <5>2, <5>3 DEF Fold, t
      <4> QED
        BY <4>1, <4>2
    <3>4. k = [s \in Small(S, n + 1) |-> Fold(k, h, s)]
      BY <3>3
    <3>5. Obeys(k, h, S, n + 1)
      BY <3>4 DEF Obeys
    <3> QED
      BY <3>1, <3>5 DEF G
  <2> QED
    BY <2>1, <2>2
<1>2. S \in G
  <2> HIDE DEF G
  <2> QED
    BY <1>1, SetInduction
<1>3. PICK g : Obeys(g, h, S, Cardinality(S))
  BY <1>2
<1>4. Small(S, Cardinality(S)) = SUBSET S
  BY <1>f DEF Small
<1> QED
  BY <1>3, <1>4 DEF Obeys, Folds

\* There is one such function, whatever set it is defined for.
LEMMA FoldUnique ==
    ASSUME NEW S, NEW T, NEW h, NEW g, NEW k, Folds(g, h, S), Folds(k, h, T),
           NEW V \in SUBSET S, V \subseteq T, IsFiniteSet(V)
    PROVE  g[V] = k[V]
<1> DEFINE G == {U \in SUBSET V : g[U] = k[U]}
<1>1. ASSUME NEW U \in SUBSET V, \A W \in SUBSET U : W # U => W \in G
      PROVE  U \in G
  <2>1. g[U] = Fold(g, h, U) /\ k[U] = Fold(k, h, U)
    <3>1. U \in SUBSET S /\ U \in SUBSET T
      OBVIOUS
    <3> QED
      BY <3>1 DEF Folds
  <2>2. CASE U = {}
    BY <2>1, <2>2 DEF Fold
  <2>3. CASE U # {}
    <3>1. U \ {Pick(U)} \in G
      BY <1>1, <2>3, PickIn
    <3> QED
      BY <2>1, <2>3, <3>1 DEF Fold
  <2> QED
    BY <2>2, <2>3
<1>2. V \in G
  <2> HIDE DEF G
  <2> QED
    BY <1>1, SetInduction
<1> QED
  BY <1>2

\* The sum over a set is that of one of its elements and of the rest.
LEMMA SumEquation ==
    ASSUME NEW S, IsFiniteSet(S), NEW h
    PROVE  SumFunctionOnSet(h, S) =
              IF S = {} THEN 0
              ELSE h[Pick(S)] + SumFunctionOnSet(h, S \ {Pick(S)})
<1> DEFINE It(T) == CHOOSE g : Folds(g, h, T)
<1>1. ASSUME NEW T PROVE SumFunctionOnSet(h, T) = It(T)[T]
  BY DEF SumFunctionOnSet, FoldFunctionOnSet, MapThenFoldSet, Folds, Fold, Pick
<1>2. ASSUME NEW T, IsFiniteSet(T)
      PROVE  Folds(It(T), h, T)
  BY <1>2, FoldExists
<1> HIDE DEF It
<1>3. It(S)[S] = Fold(It(S), h, S)
  BY <1>2 DEF Folds
<1>4. CASE S = {}
  BY <1>1, <1>3, <1>4 DEF Fold
<1>5. CASE S # {}
  <2> DEFINE T == S \ {Pick(S)}
  <2>1. IsFiniteSet(T)
    BY FS_RemoveElement
  <2> HIDE DEF T
  <2>2. T \in SUBSET S
    BY DEF T
  <2>3. It(S)[T] = It(T)[T]
    BY <1>2, <2>1, <2>2, FoldUnique
  <2> QED
    BY <1>1, <1>3, <1>5, <2>3 DEF Fold, T
<1> QED
  BY <1>4, <1>5

-----------------------------------------------------------------------------
(* Sums of integers                                                         *)

Ints(h, S) == \A x \in S : h[x] \in Int

\* The sum over nothing is 0.
LEMMA SumEmpty == ASSUME NEW h PROVE SumFunctionOnSet(h, {}) = 0
  BY SumEquation, FS_EmptySet

\* A sum of integers is an integer.
LEMMA SumInt ==
    ASSUME NEW S, IsFiniteSet(S), NEW h, Ints(h, S)
    PROVE  SumFunctionOnSet(h, S) \in Int
<1> DEFINE G == {T \in SUBSET S : SumFunctionOnSet(h, T) \in Int}
<1>1. ASSUME NEW T \in SUBSET S, \A U \in SUBSET T : U # T => U \in G
      PROVE  T \in G
  <2>1. CASE T = {}
    BY <2>1, SumEmpty
  <2>2. CASE T # {}
    <3>1. Pick(T) \in T /\ IsFiniteSet(T)
      BY <2>2, PickIn, FS_Subset
    <3>2. T \ {Pick(T)} \in G
      BY <1>1, <3>1
    <3>3. SumFunctionOnSet(h, T) = h[Pick(T)] + SumFunctionOnSet(h, T \ {Pick(T)})
      BY <2>2, <3>1, SumEquation
    <3>4. h[Pick(T)] \in Int
      BY <3>1 DEF Ints
    <3> QED
      BY <3>2, <3>3, <3>4
  <2> QED
    BY <2>1, <2>2
<1>2. S \in G
  <2> HIDE DEF G
  <2> QED
    BY <1>1, SetInduction
<1> QED
  BY <1>2

\* Any element can be taken first.
LEMMA SumRemove ==
    ASSUME NEW S, IsFiniteSet(S), NEW h, Ints(h, S), NEW x \in S
    PROVE  SumFunctionOnSet(h, S) = h[x] + SumFunctionOnSet(h, S \ {x})
<1> DEFINE Sum(T) == SumFunctionOnSet(h, T)
           G == {T \in SUBSET S : \A y \in T : Sum(T) = h[y] + Sum(T \ {y})}
<1>i. \A T \in SUBSET S : Sum(T) \in Int
  BY SumInt, FS_Subset DEF Ints
<1>e. \A T \in SUBSET S : T # {} => /\ Pick(T) \in T
                                    /\ Sum(T) = h[Pick(T)] + Sum(T \ {Pick(T)})
  BY SumEquation, FS_Subset, PickIn
<1> HIDE DEF Sum
<1>1. ASSUME NEW T \in SUBSET S, \A U \in SUBSET T : U # T => U \in G
      PROVE  T \in G
  <2> SUFFICES ASSUME NEW y \in T PROVE Sum(T) = h[y] + Sum(T \ {y})
    OBVIOUS
  <2> DEFINE c == Pick(T)
  <2>1. c \in T /\ Sum(T) = h[c] + Sum(T \ {c})
    BY <1>e
  <2> HIDE DEF c
  <2>2. CASE c = y
    BY <2>1, <2>2
  <2>3. CASE c # y
    <3>1. T \ {c} \in G /\ T \ {y} \in G
      BY <1>1, <2>1
    <3>2. /\ Sum(T \ {c}) = h[y] + Sum((T \ {c}) \ {y})
          /\ Sum(T \ {y}) = h[c] + Sum((T \ {y}) \ {c})
      BY <2>1, <2>3, <3>1
    <3> DEFINE rest == Sum((T \ {c}) \ {y})
    <3>3. (T \ {c}) \ {y} = (T \ {y}) \ {c}
      OBVIOUS
    <3>4. h[c] \in Int /\ h[y] \in Int /\ rest \in Int
      BY <1>i, <2>1 DEF Ints
    <3>5. Sum(T \ {c}) = h[y] + rest /\ Sum(T \ {y}) = h[c] + rest
      BY <3>2, <3>3
    <3> HIDE DEF rest
    <3> QED
      BY <2>1, <3>4, <3>5
  <2> QED
    BY <2>2, <2>3
<1>2. S \in G
  <2> HIDE DEF G
  <2> QED
    BY <1>1, SetInduction
<1> QED
  BY <1>2 DEF Sum

\* A new element adds its value.
LEMMA SumAdd ==
    ASSUME NEW S, IsFiniteSet(S), NEW x, x \notin S, NEW h, Ints(h, S \cup {x})
    PROVE  SumFunctionOnSet(h, S \cup {x}) = SumFunctionOnSet(h, S) + h[x]
<1>1. IsFiniteSet(S \cup {x}) /\ (S \cup {x}) \ {x} = S
  BY FS_AddElement
<1>2. SumFunctionOnSet(h, S) \in Int /\ h[x] \in Int
  BY SumInt DEF Ints
<1> DEFINE T == S \cup {x}
<1>3. x \in T /\ Ints(h, T) /\ IsFiniteSet(T) /\ T \ {x} = S
  BY <1>1
<1> HIDE DEF T
<1>4. SumFunctionOnSet(h, T) = h[x] + SumFunctionOnSet(h, S)
  BY <1>3, SumRemove
<1> QED
  BY <1>2, <1>4 DEF T

\* Only the values on the set count.
LEMMA SumSame ==
    ASSUME NEW S, IsFiniteSet(S), NEW h, NEW k, \A x \in S : h[x] = k[x]
    PROVE  SumFunctionOnSet(h, S) = SumFunctionOnSet(k, S)
<1> DEFINE G == {T \in SUBSET S : SumFunctionOnSet(h, T) = SumFunctionOnSet(k, T)}
<1>1. ASSUME NEW T \in SUBSET S, \A U \in SUBSET T : U # T => U \in G
      PROVE  T \in G
  <2>1. CASE T = {}
    BY <2>1, SumEmpty
  <2>2. CASE T # {}
    <3>1. Pick(T) \in T /\ IsFiniteSet(T)
      BY <2>2, PickIn, FS_Subset
    <3>2. T \ {Pick(T)} \in G
      BY <1>1, <3>1
    <3> QED
      BY <2>2, <3>1, <3>2, SumEquation
  <2> QED
    BY <2>1, <2>2
<1>2. S \in G
  <2> HIDE DEF G
  <2> QED
    BY <1>1, SetInduction
<1> QED
  BY <1>2

\* A change at one place is a change of the sum.
LEMMA SumChange ==
    ASSUME NEW S, IsFiniteSet(S), NEW h, NEW k, Ints(h, S), Ints(k, S),
           NEW x \in S, \A y \in S \ {x} : h[y] = k[y]
    PROVE  SumFunctionOnSet(k, S) = SumFunctionOnSet(h, S) + k[x] - h[x]
<1> DEFINE T == S \ {x}
<1>1. IsFiniteSet(T) /\ T \subseteq S
  BY FS_RemoveElement
<1>2. SumFunctionOnSet(h, T) = SumFunctionOnSet(k, T)
  BY <1>1, SumSame
<1>3. SumFunctionOnSet(h, T) \in Int
  BY <1>1, SumInt DEF Ints
<1> HIDE DEF T
<1>4. /\ SumFunctionOnSet(h, S) = h[x] + SumFunctionOnSet(h, T)
      /\ SumFunctionOnSet(k, S) = k[x] + SumFunctionOnSet(k, T)
  BY SumRemove DEF T
<1>5. h[x] \in Int /\ k[x] \in Int
  BY DEF Ints
<1> QED
  BY <1>2, <1>3, <1>4, <1>5

\* A sum of naturals none of which exceeds one is at most their number.
LEMMA SumBound ==
    ASSUME NEW S, IsFiniteSet(S), NEW h, \A x \in S : h[x] \in Nat
    PROVE  /\ SumFunctionOnSet(h, S) \in Nat
           /\ (\A x \in S : h[x] <= 1) => SumFunctionOnSet(h, S) <= Cardinality(S)
<1> DEFINE Good(T) == /\ SumFunctionOnSet(h, T) \in Nat
                      /\ (\A x \in S : h[x] <= 1)
                            => SumFunctionOnSet(h, T) <= Cardinality(T)
           G == {T \in SUBSET S : Good(T)}
<1>1. ASSUME NEW T \in SUBSET S, \A U \in SUBSET T : U # T => U \in G
      PROVE  T \in G
  <2>1. CASE T = {}
    BY <2>1, SumEmpty, FS_EmptySet
  <2>2. CASE T # {}
    <3> DEFINE U == T \ {Pick(T)}
    <3>1. Pick(T) \in T /\ IsFiniteSet(T)
      BY <2>2, PickIn, FS_Subset
    <3>2. U \in G
      BY <1>1, <3>1
    <3>3. Cardinality(U) = Cardinality(T) - 1 /\ Cardinality(T) \in Nat
      BY <3>1, FS_RemoveElement, FS_CardinalityType
    <3>4. SumFunctionOnSet(h, T) = h[Pick(T)] + SumFunctionOnSet(h, U)
      BY <2>2, <3>1, SumEquation
    <3>5. h[Pick(T)] \in Nat
      BY <3>1
    <3> HIDE DEF U
    <3> QED
      BY <3>1, <3>2, <3>3, <3>4, <3>5
  <2> QED
    BY <2>1, <2>2
<1>2. S \in G
  <2> HIDE DEF G
  <2> QED
    BY <1>1, SetInduction
<1> QED
  BY <1>2

\* The sums of the parts are the sum of the whole.
LEMMA SumParts ==
    ASSUME NEW S, IsFiniteSet(S), NEW A, IsFiniteSet(A), NEW h, Ints(h, S),
           NEW key, \A x \in S : key[x] \in A
    PROVE  SumFunctionOnSet([a \in A |-> SumFunctionOnSet(h, {x \in S : key[x] = a})], A)
              = SumFunctionOnSet(h, S)
<1> DEFINE Part(T, a) == {x \in T : key[x] = a}
           Sums(T) == [a \in A |-> SumFunctionOnSet(h, Part(T, a))]
           G == {T \in SUBSET S : SumFunctionOnSet(Sums(T), A) = SumFunctionOnSet(h, T)}
<1>f. \A T \in SUBSET S : IsFiniteSet(T) /\ \A a \in A : IsFiniteSet(Part(T, a))
  BY FS_Subset
<1>i. \A T \in SUBSET S : Ints(Sums(T), A)
  BY <1>f, SumInt DEF Ints
<1>1. ASSUME NEW T \in SUBSET S, \A U \in SUBSET T : U # T => U \in G
      PROVE  T \in G
  <2>1. CASE T = {}
    <3>1. \A a \in A : Sums(T)[a] = 0
      BY <2>1, SumEmpty
    <3> DEFINE B == {C \in SUBSET A : SumFunctionOnSet(Sums(T), C) = 0}
    <3>2. ASSUME NEW C \in SUBSET A, \A D \in SUBSET C : D # C => D \in B
          PROVE  C \in B
      <4>1. CASE C = {}
        BY <4>1, SumEmpty
      <4>2. CASE C # {}
        <5>1. Pick(C) \in C /\ IsFiniteSet(C)
          BY <4>2, PickIn, FS_Subset
        <5>2. C \ {Pick(C)} \in B
          BY <3>2, <5>1
        <5>3. Sums(T)[Pick(C)] = 0
          BY <3>1, <5>1
        <5> HIDE DEF Sums
        <5>4. SumFunctionOnSet(Sums(T), C)
                 = Sums(T)[Pick(C)] + SumFunctionOnSet(Sums(T), C \ {Pick(C)})
          BY <4>2, <5>1, SumEquation
        <5> QED
          BY <5>2, <5>3, <5>4
      <4> QED
        BY <4>1, <4>2
    <3>3. A \in B
      <4> HIDE DEF B
      <4> QED
        BY <3>2, SetInduction
    <3> QED
      BY <2>1, <3>3, SumEmpty
  <2>2. CASE T # {}
    <3> DEFINE c == Pick(T)
               U == T \ {c}
               b == key[c]
    <3>1. c \in T /\ IsFiniteSet(T)
      BY <2>2, PickIn, FS_Subset
    <3>2. U \in G /\ U \in SUBSET S /\ b \in A
      BY <1>1, <3>1
    <3> HIDE DEF c
    <3>3. \A a \in A \ {b} : Part(T, a) = Part(U, a)
      OBVIOUS
    <3>4. Part(U, b) = Part(T, b) \ {c} /\ c \in Part(T, b) /\ Part(T, b) \subseteq S
      BY <3>1
    <3>5. SumFunctionOnSet(h, Part(T, b)) = h[c] + SumFunctionOnSet(h, Part(U, b))
      <4>1. IsFiniteSet(Part(T, b)) /\ Ints(h, Part(T, b))
        BY <1>f, <3>2, <3>4 DEF Ints
      <4> QED
        BY <3>4, <4>1, SumRemove
    <3>6. SumFunctionOnSet(h, T) = h[c] + SumFunctionOnSet(h, U)
      <4>1. Ints(h, T)
        BY DEF Ints
      <4> QED
        BY <3>1, <4>1, SumRemove
    <3>7. \A a \in A \ {b} : Sums(U)[a] = Sums(T)[a]
      BY <3>3
    <3>8. /\ Sums(T)[b] = h[c] + Sums(U)[b]
          /\ Sums(U)[b] \in Int /\ Sums(T)[b] \in Int /\ h[c] \in Int
          /\ SumFunctionOnSet(h, U) \in Int
      <4>1. Ints(h, U)
        BY DEF Ints
      <4> QED
        BY <1>f, <1>i, <3>1, <3>2, <3>5, <4>1, SumInt DEF Ints
    <3> HIDE DEF Sums, U, b
    <3>9. SumFunctionOnSet(Sums(T), A)
             = SumFunctionOnSet(Sums(U), A) + Sums(T)[b] - Sums(U)[b]
      BY <1>i, <3>2, <3>7, SumChange
    <3> QED
      BY <3>2, <3>6, <3>8, <3>9
  <2> QED
    BY <2>1, <2>2
<1>2. S \in G
  <2> HIDE DEF G
  <2> QED
    BY <1>1, SetInduction
<1> QED
  BY <1>2

\* A sum of ones and zeros counts the ones.
LEMMA SumOnes ==
    ASSUME NEW S, IsFiniteSet(S), NEW P \in SUBSET S, NEW h,
           \A x \in S : h[x] = IF x \in P THEN 1 ELSE 0
    PROVE  SumFunctionOnSet(h, S) = Cardinality(P)
<1> DEFINE G == {T \in SUBSET S : SumFunctionOnSet(h, T) = Cardinality(P \cap T)}
<1>1. ASSUME NEW T \in SUBSET S, \A U \in SUBSET T : U # T => U \in G
      PROVE  T \in G
  <2>1. CASE T = {}
    <3>1. P \cap T = {}
      BY <2>1
    <3> QED
      BY <2>1, <3>1, SumEmpty, FS_EmptySet
  <2>2. CASE T # {}
    <3>1. PICK x \in T : TRUE
      BY <2>2
    <3>2. SumFunctionOnSet(h, T \ {x}) = Cardinality(P \cap (T \ {x}))
      BY <1>1, <3>1
    <3>3. IsFiniteSet(T) /\ IsFiniteSet(P \cap T) /\ Ints(h, T)
      BY FS_Subset DEF Ints
    <3>4. SumFunctionOnSet(h, T) = h[x] + SumFunctionOnSet(h, T \ {x})
      BY <3>1, <3>3, SumRemove
    <3>5. P \cap (T \ {x}) = (P \cap T) \ {x} /\ (x \in P \cap T <=> x \in P)
      BY <3>1
    <3>6. /\ Cardinality(P \cap T) \in Nat
          /\ Cardinality((P \cap T) \ {x})
                = Cardinality(P \cap T) - (IF x \in P THEN 1 ELSE 0)
      <4> HIDE DEF G
      <4> DEFINE Q == P \cap T
      <4>1. IsFiniteSet(Q) /\ (x \in Q <=> x \in P)
        BY <3>3, <3>5
      <4> HIDE DEF Q
      <4>2. Cardinality(Q) \in Nat
        BY <4>1, FS_CardinalityType
      <4>3. Cardinality(Q \ {x}) = IF x \in Q THEN Cardinality(Q) - 1 ELSE Cardinality(Q)
        BY <4>1, FS_RemoveElement
      <4>4. Cardinality(Q \ {x}) = Cardinality(Q) - (IF x \in P THEN 1 ELSE 0)
        BY <4>1, <4>2, <4>3
      <4> QED
        BY <4>2, <4>4 DEF Q
    <3> QED
      BY <3>1, <3>2, <3>4, <3>5, <3>6
  <2> QED
    BY <2>1, <2>2
<1>2. S \in G
  <2> HIDE DEF G
  <2> QED
    BY <1>1, SetInduction
<1>3. P \cap S = P
  OBVIOUS
<1> QED
  BY <1>2, <1>3

=============================================================================
