----------------------------- MODULE SumLemmas -----------------------------
(***************************************************************************)
(* What the sums of the store are known by: SumFunctionOnSet, which is a   *)
(* fold over a set in an order of CHOOSE's making, gives an integer, does  *)
(* not depend on that order, and looks at nothing but the values summed.   *)
(*                                                                         *)
(* The library's induction theorems take the formula to prove as an        *)
(* operator.  Here induction is by a set: the set of the numbers, or of    *)
(* the subsets, that have the property, and its least exception.           *)
(***************************************************************************)
EXTENDS Integers, FiniteSets, FiniteSetsExt, Functions, FiniteSetTheorems,
        WellFoundedInduction, TLAPS

\* Every set of naturals that is not empty has a least member.
LEMMA LeastNatural ==
  ASSUME NEW T \in SUBSET Nat, T # {}
  PROVE  \E m \in T : \A n \in T : m <= n
<1> DEFINE R == OpToRel(<, Nat)
<1>1. IsWellFoundedOn(R, Nat) BY NatLessThanWellFounded
<1>2. \A x, y \in Nat : <<y, x>> \in R <=> y < x BY DEF OpToRel
<1> HIDE DEF R
<1>3. PICK m \in T : \A n \in T : <<n, m>> \notin R BY <1>1, WFMin
<1>4. \A n \in T : m \in Nat /\ n \in Nat /\ ~(n < m) BY <1>2, <1>3
<1>5. \A n \in T : m <= n BY <1>4
<1> QED BY <1>5

\* A set that holds zero and every successor of its naturals holds them all.
LEMMA Upward ==
  ASSUME NEW N, 0 \in N, \A n \in Nat : n \in N => n + 1 \in N
  PROVE  Nat \subseteq N
<1> SUFFICES ASSUME Nat \ N # {} PROVE FALSE
  OBVIOUS
<1>1. PICK m \in Nat \ N : \A n \in Nat \ N : m <= n
  BY LeastNatural
<1>2. m - 1 \in Nat /\ m = (m - 1) + 1 BY <1>1
<1>3. m - 1 \in N BY <1>1, <1>2
<1> QED BY <1>1, <1>2, <1>3

\* A property that a subset has when it holds of the subset less any one of
\* its elements holds of every subset of a finite set.
LEMMA SubsetInduction ==
  ASSUME NEW S, IsFiniteSet(S), NEW A,
         \A T \in SUBSET S : (\A x \in T : T \ {x} \in A) => T \in A
  PROVE  SUBSET S \subseteq A
<1> DEFINE N == {n \in Nat : \A T \in SUBSET S : Cardinality(T) = n => T \in A}
<1>0. \A T \in SUBSET S : IsFiniteSet(T) /\ Cardinality(T) \in Nat
  BY FS_Subset, FS_CardinalityType
<1>1. 0 \in N
  BY <1>0, FS_EmptySet
<1>2. ASSUME NEW n \in Nat, n \in N PROVE n + 1 \in N
  <2> SUFFICES ASSUME NEW T \in SUBSET S, Cardinality(T) = n + 1 PROVE T \in A
    OBVIOUS
  <2>1. ASSUME NEW x \in T PROVE T \ {x} \in A
    <3>1. Cardinality(T \ {x}) = n BY <1>0, FS_RemoveElement
    <3> QED BY <1>2, <3>1
  <2> QED BY <2>1
<1> HIDE DEF N
<1>3. Nat \subseteq N BY <1>1, <1>2, Upward
<1>4. ASSUME NEW T \in SUBSET S PROVE T \in A
  BY <1>0, <1>3 DEF N
<1> QED BY <1>4
\* A finite set of numbers has a greatest.
LEMMA MaxIn ==
  ASSUME NEW S \in SUBSET Nat, IsFiniteSet(S), S # {}
  PROVE  Max(S) \in S
<1> DEFINE A == {T \in SUBSET S : T # {} => \E x \in T : \A y \in T : x >= y}
<1>1. ASSUME NEW T \in SUBSET S, \A x \in T : T \ {x} \in A PROVE T \in A
  <2> SUFFICES ASSUME T # {} PROVE \E x \in T : \A y \in T : x >= y
    OBVIOUS
  <2>1. PICK z \in T : TRUE OBVIOUS
  <2>2. CASE T \ {z} = {} BY <2>1, <2>2
  <2>3. CASE T \ {z} # {}
    <3>1. PICK x \in T \ {z} : \A y \in T \ {z} : x >= y BY <1>1, <2>3
    <3>2. CASE z >= x BY <2>1, <3>1, <3>2
    <3>3. CASE x >= z BY <3>1, <3>3
    <3> QED BY <3>2, <3>3
  <2> QED BY <2>2, <2>3
<1>2. SUBSET S \subseteq A
  <2> HIDE DEF A
  <2> QED BY <1>1, SubsetInduction
<1>3. PICK x \in S : \A y \in S : x >= y BY <1>2
<1> QED BY <1>3 DEF Max
-----------------------------------------------------------------------------
(* The fold. *)

Pick(T) == CHOOSE x \in T : TRUE

\* One step of the fold of f, with g for the rest.
Fold(f, g, T) == IF T = {} THEN 0 ELSE f[Pick(T)] + g[T \ {Pick(T)}]

\* The recursive function that the fold over S applies to S.
IsFold(f, S, g) == g = [T \in SUBSET S |-> Fold(f, g, T)]

\* The fold's choice from a set that is not empty is one of its elements.
LEMMA PickIn == \A T : T # {} => Pick(T) \in T
BY DEF Pick

\* The recursive function inside the fold exists: it can be built up by the
\* size of the subsets.
LEMMA FoldExists ==
  ASSUME NEW f, NEW S, IsFiniteSet(S)
  PROVE  \E g : IsFold(f, S, g)
<1> DEFINE Small(n) == {T \in SUBSET S : Cardinality(T) <= n}
           Good(g, n) == g = [T \in Small(n) |-> Fold(f, g, T)]
           N == {n \in Nat : \E g : Good(g, n)}
<1>0. \A T \in SUBSET S : IsFiniteSet(T) /\ Cardinality(T) \in Nat
  BY FS_Subset, FS_CardinalityType
<1>1. 0 \in N
  <2> DEFINE g == [T \in Small(0) |-> 0]
  <2>1. \A T \in Small(0) : T = {} BY <1>0, FS_EmptySet
  <2>2. \A T \in Small(0) : Fold(f, g, T) = 0 BY <2>1 DEF Fold
  <2>3. Good(g, 0) BY <2>2
  <2> QED BY <2>3
<1>2. ASSUME NEW n \in Nat, n \in N PROVE n + 1 \in N
  <2>1. PICK g : Good(g, n) BY <1>2
  <2> DEFINE h == [T \in Small(n + 1) |-> Fold(f, g, T)]
  <2>2. ASSUME NEW T \in Small(n + 1) PROVE Fold(f, h, T) = Fold(f, g, T)
    <3>1. CASE T = {} BY <3>1 DEF Fold
    <3>2. CASE T # {}
      <4> DEFINE U == T \ {Pick(T)}
      <4>1. U \in SUBSET S /\ Cardinality(U) = Cardinality(T) - 1
        BY <1>0, <3>2, PickIn, FS_RemoveElement
      <4>2. U \in Small(n) /\ U \in Small(n + 1)
        BY <1>0, <4>1
      <4>3. g[U] = Fold(f, g, U) BY <2>1, <4>2
      <4>4. h[U] = Fold(f, g, U) BY <4>2
      <4> QED BY <3>2, <4>3, <4>4 DEF Fold
    <3> QED BY <3>1, <3>2
  <2>3. Good(h, n + 1) BY <2>2
  <2> HIDE DEF h
  <2> QED BY <2>3
<1>3. Nat \subseteq N
  <2> HIDE DEF N
  <2> QED BY <1>1, <1>2, Upward
<1>4. PICK g : Good(g, Cardinality(S))
  BY <1>0, <1>3
<1>5. Small(Cardinality(S)) = SUBSET S
  BY <1>0, FS_Subset
<1> QED BY <1>4, <1>5 DEF IsFold

\* The community modules' sum is the fold defined here.
LEMMA SumIsFold ==
  ASSUME NEW f, NEW S
  PROVE  SumFunctionOnSet(f, S) =
           (CHOOSE g : IsFold(f, S, g))[S]
<1>1. SumFunctionOnSet(f, S) =
        LET iter[T \in SUBSET S] ==
              IF T = {} THEN 0
              ELSE LET x == CHOOSE x \in T : TRUE IN f[x] + iter[T \ {x}]
        IN  iter[S]
  BY DEF SumFunctionOnSet, FoldFunctionOnSet, MapThenFoldSet
<1> QED BY <1>1 DEF IsFold, Fold, Pick

\* The fold of a subset is the subset's own sum.
LEMMA FoldIsSum ==
  ASSUME NEW f, NEW S, IsFiniteSet(S), NEW g, IsFold(f, S, g)
  PROVE  \A T \in SUBSET S : SumFunctionOnSet(f, T) = g[T]
<1> SUFFICES ASSUME NEW T \in SUBSET S PROVE SumFunctionOnSet(f, T) = g[T]
  OBVIOUS
<1>1. IsFiniteSet(T) BY FS_Subset
<1> DEFINE h == CHOOSE h : IsFold(f, T, h)
<1>2. IsFold(f, T, h)
  BY <1>1, FoldExists
<1>3. SumFunctionOnSet(f, T) = h[T] BY SumIsFold
<1> HIDE DEF h
<1> DEFINE A == {U \in SUBSET T : h[U] = g[U]}
<1>4. ASSUME NEW U \in SUBSET T, \A x \in U : U \ {x} \in A PROVE U \in A
  <2>1. h[U] = Fold(f, h, U) /\ g[U] = Fold(f, g, U) BY <1>2 DEF IsFold
  <2>2. CASE U = {} BY <2>1, <2>2 DEF Fold
  <2>3. CASE U # {}
    <3>1. h[U \ {Pick(U)}] = g[U \ {Pick(U)}] BY <1>4, <2>3, PickIn
    <3> QED BY <2>1, <2>3, <3>1 DEF Fold
  <2> QED BY <2>2, <2>3
<1>5. SUBSET T \subseteq A
  <2> HIDE DEF A
  <2> QED BY <1>1, <1>4, SubsetInduction
<1> QED BY <1>3, <1>5

\* The sum over no row is zero.
LEMMA SumEmpty == \A f : SumFunctionOnSet(f, {}) = 0
<1> SUFFICES ASSUME NEW f PROVE SumFunctionOnSet(f, {}) = 0
  OBVIOUS
<1>1. PICK g : IsFold(f, {}, g)
  BY FoldExists, FS_EmptySet
<1>2. g[{}] = Fold(f, g, {}) BY <1>1 DEF IsFold
<1>3. SumFunctionOnSet(f, {}) = g[{}] BY <1>1, FoldIsSum, FS_EmptySet
<1> QED BY <1>2, <1>3 DEF Fold

\* A sum is the value of the element the fold picks and the sum over the
\* others.
LEMMA SumStep ==
  ASSUME NEW f, NEW S, IsFiniteSet(S), S # {}
  PROVE  SumFunctionOnSet(f, S) =
           f[Pick(S)] + SumFunctionOnSet(f, S \ {Pick(S)})
<1>1. PICK g : IsFold(f, S, g)
  BY FoldExists
<1>2. \A T \in SUBSET S : SumFunctionOnSet(f, T) = g[T]
  BY <1>1, FoldIsSum
<1>3. g[S] = Fold(f, g, S) BY <1>1 DEF IsFold
<1> QED BY <1>2, <1>3 DEF Fold
-----------------------------------------------------------------------------
(* What a user of the sums needs to know. *)

\* A finite sum of integers is an integer.
LEMMA SumTyped ==
  ASSUME NEW S, IsFiniteSet(S), NEW f, \A x \in S : f[x] \in Int
  PROVE  SumFunctionOnSet(f, S) \in Int
<1> DEFINE A == {T \in SUBSET S : SumFunctionOnSet(f, T) \in Int}
<1>1. ASSUME NEW T \in SUBSET S, \A x \in T : T \ {x} \in A PROVE T \in A
  <2>1. CASE T = {} BY <2>1, SumEmpty
  <2>2. CASE T # {}
    <3>1. SumFunctionOnSet(f, T) =
            f[Pick(T)] + SumFunctionOnSet(f, T \ {Pick(T)})
      BY <2>2, SumStep, FS_Subset
    <3>2. Pick(T) \in T BY <2>2, PickIn
    <3>3. SumFunctionOnSet(f, T \ {Pick(T)}) \in Int /\ f[Pick(T)] \in Int
      BY <1>1, <3>2
    <3> QED BY <3>1, <3>3
  <2> QED BY <2>1, <2>2
<1>2. SUBSET S \subseteq A
  <2> HIDE DEF A
  <2> QED BY <1>1, SubsetInduction
<1> QED BY <1>2

\* A sum depends on the values at its indices only.
LEMMA SumCongruent ==
  ASSUME NEW S, IsFiniteSet(S), NEW f, NEW g, \A x \in S : f[x] = g[x]
  PROVE  SumFunctionOnSet(f, S) = SumFunctionOnSet(g, S)
<1> DEFINE A == {T \in SUBSET S : SumFunctionOnSet(f, T) = SumFunctionOnSet(g, T)}
<1>1. ASSUME NEW T \in SUBSET S, \A x \in T : T \ {x} \in A PROVE T \in A
  <2>1. CASE T = {} BY <2>1, SumEmpty
  <2>2. CASE T # {}
    <3> DEFINE p == Pick(T)
    <3>1. p \in T BY <2>2, PickIn
    <3> HIDE DEF p
    <3>2. /\ SumFunctionOnSet(f, T) = f[p] + SumFunctionOnSet(f, T \ {p})
          /\ SumFunctionOnSet(g, T) = g[p] + SumFunctionOnSet(g, T \ {p})
      BY <2>2, SumStep, FS_Subset DEF p
    <3>3. SumFunctionOnSet(f, T \ {p}) = SumFunctionOnSet(g, T \ {p})
      BY <1>1, <3>1
    <3> QED BY <3>1, <3>2, <3>3
  <2> QED BY <2>1, <2>2
<1>2. SUBSET S \subseteq A
  <2> HIDE DEF A
  <2> QED BY <1>1, SubsetInduction
<1> QED BY <1>2

\* Any element can be taken out of a sum first.
LEMMA SumRemove ==
  ASSUME NEW S, IsFiniteSet(S), NEW f, \A x \in S : f[x] \in Int, NEW x \in S
  PROVE  SumFunctionOnSet(f, S) = f[x] + SumFunctionOnSet(f, S \ {x})
<1> DEFINE Sum(T) == SumFunctionOnSet(f, T)
           A == {T \in SUBSET S : \A y \in T : Sum(T) = f[y] + Sum(T \ {y})}
<1>0. \A T \in SUBSET S : IsFiniteSet(T) /\ Sum(T) \in Int
  BY FS_Subset, SumTyped
<1>1. ASSUME NEW T \in SUBSET S, \A y \in T : T \ {y} \in A PROVE T \in A
  <2> SUFFICES ASSUME NEW y \in T PROVE Sum(T) = f[y] + Sum(T \ {y})
    OBVIOUS
  <2> DEFINE p == Pick(T)
  <2>1. p \in T BY PickIn
  <2>2. Sum(T) = f[p] + Sum(T \ {p}) BY <1>0, SumStep
  <2> HIDE DEF p
  <2>3. CASE y = p BY <2>2, <2>3
  <2>4. CASE y # p
    <3>1. Sum(T \ {p}) = f[y] + Sum((T \ {p}) \ {y})
      BY <1>1, <2>1, <2>4
    <3>2. Sum(T \ {y}) = f[p] + Sum((T \ {y}) \ {p})
      BY <1>1, <2>1, <2>4
    <3>3. (T \ {p}) \ {y} = (T \ {y}) \ {p} OBVIOUS
    <3>4. f[p] \in Int /\ f[y] \in Int /\ Sum((T \ {y}) \ {p}) \in Int
      BY <1>0, <2>1
    <3>5. Sum((T \ {p}) \ {y}) = Sum((T \ {y}) \ {p}) BY <3>3
    <3> HIDE DEF Sum
    <3>6. Sum(T) = f[p] + (f[y] + Sum((T \ {y}) \ {p}))
      BY <2>2, <3>1, <3>5
    <3> QED BY <3>2, <3>4, <3>6
  <2> QED BY <2>3, <2>4
<1>2. SUBSET S \subseteq A
  <2> HIDE DEF A
  <2> QED BY <1>1, SubsetInduction
<1> QED BY <1>2

\* The sum over two sets that share nothing is the sum of the sums.
LEMMA SumDisjoint ==
  ASSUME NEW X, IsFiniteSet(X), NEW Y, IsFiniteSet(Y), X \cap Y = {},
         NEW f, \A x \in X \cup Y : f[x] \in Int
  PROVE  SumFunctionOnSet(f, X \cup Y) = SumFunctionOnSet(f, X) + SumFunctionOnSet(f, Y)
<1> DEFINE Sum(T) == SumFunctionOnSet(f, T)
           A == {T \in SUBSET Y : Sum(X \cup T) = Sum(X) + Sum(T)}
<1>0. \A T \in SUBSET Y : IsFiniteSet(T) /\ IsFiniteSet(X \cup T) /\ Sum(T) \in Int
  BY FS_Subset, FS_Union, SumTyped
<1>1. Sum(X) \in Int BY SumTyped
<1>2. ASSUME NEW T \in SUBSET Y, \A x \in T : T \ {x} \in A PROVE T \in A
  <2>1. CASE T = {}
    <3>1. X \cup T = X /\ Sum(T) = 0 BY <2>1, SumEmpty
    <3> HIDE DEF Sum
    <3> QED BY <1>1, <3>1
  <2>2. CASE T # {}
    <3>1. PICK x : x \in T BY <2>2
    <3> DEFINE U == X \cup T  V == T \ {x}
    <3>2. x \in U /\ U \ {x} = X \cup V /\ V \in SUBSET Y BY <3>1
    <3>3. IsFiniteSet(U) /\ IsFiniteSet(T) BY <1>0
    <3>4. Sum(U) = f[x] + Sum(U \ {x}) BY <3>2, <3>3, SumRemove
    <3>5. Sum(T) = f[x] + Sum(V) BY <3>1, <3>3, SumRemove
    <3>6. Sum(X \cup V) = Sum(X) + Sum(V) BY <1>2, <3>1
    <3>7. f[x] \in Int /\ Sum(V) \in Int BY <1>0, <3>1, <3>2
    <3>8. Sum(U) = f[x] + Sum(X \cup V) BY <3>2, <3>4
    <3> HIDE DEF Sum, V
    <3>9. Sum(U) = Sum(X) + Sum(T) BY <1>1, <3>5, <3>6, <3>7, <3>8
    <3> QED BY <3>9
  <2> QED BY <2>1, <2>2
<1> HIDE DEF A
<1>3. SUBSET Y \subseteq A BY <1>2, SubsetInduction
<1> QED BY <1>3 DEF A

\* A sum of sums over sets that share nothing is the sum over their union.
LEMMA SumOfSums ==
  ASSUME NEW C, IsFiniteSet(C), NEW S, IsFiniteSet(S),
         NEW f, \A x \in S : f[x] \in Int,
         NEW D, \A c \in C : D[c] \in SUBSET S,
         \A c, d \in C : c # d => D[c] \cap D[d] = {},
         NEW g, \A c \in C : g[c] = SumFunctionOnSet(f, D[c])
  PROVE  SumFunctionOnSet(g, C) = SumFunctionOnSet(f, UNION {D[c] : c \in C})
<1> DEFINE Sum(T) == SumFunctionOnSet(f, T)
           All(T) == UNION {D[c] : c \in T}
           A == {T \in SUBSET C : SumFunctionOnSet(g, T) = Sum(All(T))}
<1>1. ASSUME NEW T \in SUBSET C, \A x \in T : T \ {x} \in A PROVE T \in A
  <2>1. CASE T = {}
    <3>1. All(T) = {} BY <2>1
    <3> QED BY <2>1, <3>1, SumEmpty
  <2>2. CASE T # {}
    <3>1. PICK c : c \in T BY <2>2
    <3> DEFINE U == All(T \ {c})
    <3>2. /\ All(T) = D[c] \cup U /\ D[c] \cap U = {}
          /\ U \in SUBSET S /\ D[c] \in SUBSET S
      BY <3>1
    <3>3. IsFiniteSet(T) /\ IsFiniteSet(U) /\ IsFiniteSet(D[c])
      BY <3>2, FS_Subset
    <3>4. Sum(All(T)) = Sum(D[c]) + Sum(U)
      <4> HIDE DEF U
      <4>1. \A x \in D[c] \cup U : f[x] \in Int BY <3>2
      <4> QED BY <3>2, <3>3, <4>1, SumDisjoint
    <3>5. \A x \in T : g[x] \in Int
      <4> SUFFICES ASSUME NEW x \in T PROVE g[x] \in Int
        OBVIOUS
      <4>1. D[x] \in SUBSET S /\ IsFiniteSet(D[x]) BY FS_Subset
      <4>2. Sum(D[x]) \in Int BY <4>1, SumTyped
      <4> QED BY <4>2
    <3>6. SumFunctionOnSet(g, T) = g[c] + SumFunctionOnSet(g, T \ {c})
      BY <3>1, <3>3, <3>5, SumRemove
    <3>7. SumFunctionOnSet(g, T \ {c}) = Sum(U) BY <1>1, <3>1
    <3> QED BY <3>1, <3>4, <3>6, <3>7
  <2> QED BY <2>1, <2>2
<1> HIDE DEF A
<1>2. SUBSET C \subseteq A BY <1>1, SubsetInduction
<1> QED BY <1>2 DEF A
=============================================================================
