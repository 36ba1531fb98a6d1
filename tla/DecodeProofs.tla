---------------------------- MODULE DecodeProofs ----------------------------
(***************************************************************************)
(* That Unflatten's tree, whatever the order in which the attributes come  *)
(* from the Go map, holds nothing but what was sent, where its key says,   *)
(* and loses only what the rules give up; for all requests.                *)
(***************************************************************************)
EXTENDS Decode, SumLemmas, SequenceTheorems

-----------------------------------------------------------------------------
(* Folds of sequences.  FoldLeft is a recursive function on the sets of    *)
(* positions; its step is given as a function here, since the provers take *)
(* no operators.                                                           *)

\* One step of the fold of s with function op, with g for what comes before.
LeftStep(op, base, s, g, S) ==
    IF S = {} THEN base ELSE op[<<g[S \ {Max(S)}], s[Max(S)]>>]

IsLeftFold(op, base, s, g) ==
    g = [S \in SUBSET DOMAIN s |-> LeftStep(op, base, s, g, S)]

LEMMA LeftFoldExists ==
  ASSUME NEW V, NEW E, NEW op \in [V \X E -> V], NEW base \in V, NEW s \in Seq(E)
  PROVE  \E g : IsLeftFold(op, base, s, g) /\ \A S \in SUBSET DOMAIN s : g[S] \in V
<1> DEFINE D == DOMAIN s
           Small(n) == {S \in SUBSET D : Cardinality(S) <= n}
           Partly(g, n) == /\ g = [S \in Small(n) |-> LeftStep(op, base, s, g, S)]
                           /\ \A S \in Small(n) : g[S] \in V
           N == {n \in Nat : \E g : Partly(g, n)}
<1>a. IsFiniteSet(D) /\ D \subseteq Nat /\ \A i \in D : s[i] \in E
  <2>1. D = 1 .. Len(s) /\ Len(s) \in Nat BY LenProperties
  <2>2. IsFiniteSet(1 .. Len(s)) BY <2>1, FS_Interval
  <2>3. \A i \in 1 .. Len(s) : s[i] \in E BY ElementOfSeq
  <2> QED BY <2>1, <2>2, <2>3
<1>0. \A S \in SUBSET D : IsFiniteSet(S) /\ Cardinality(S) \in Nat
  BY <1>a, FS_Subset, FS_CardinalityType
<1>1. 0 \in N
  <2> DEFINE g == [S \in Small(0) |-> base]
  <2>1. \A S \in Small(0) : S = {} BY <1>0, FS_EmptySet
  <2>2. \A S \in Small(0) : LeftStep(op, base, s, g, S) = base BY <2>1 DEF LeftStep
  <2>3. Partly(g, 0) BY <2>2
  <2> QED BY <2>3
<1>2. ASSUME NEW n \in Nat, n \in N PROVE n + 1 \in N
  <2>1. PICK g : Partly(g, n) BY <1>2
  <2> DEFINE h == [S \in Small(n + 1) |-> LeftStep(op, base, s, g, S)]
  <2>2. ASSUME NEW S \in Small(n + 1)
        PROVE  LeftStep(op, base, s, h, S) = LeftStep(op, base, s, g, S) /\ h[S] \in V
    <3>1. CASE S = {} BY <3>1 DEF LeftStep
    <3>2. CASE S # {}
      <4> DEFINE R == S \ {Max(S)}
      <4>0. Max(S) \in S /\ s[Max(S)] \in E BY <1>a, <1>0, <3>2, MaxIn
      <4>1. R \in SUBSET D /\ Cardinality(R) = Cardinality(S) - 1
        BY <1>0, <4>0, FS_RemoveElement
      <4>2. R \in Small(n) /\ R \in Small(n + 1)
        BY <1>0, <4>1
      <4>3. g[R] = LeftStep(op, base, s, g, R) /\ g[R] \in V BY <2>1, <4>2
      <4>4. h[R] = LeftStep(op, base, s, g, R) BY <4>2
      <4>5. op[<<g[R], s[Max(S)]>>] \in V BY <4>0, <4>3
      <4>6. h[S] = LeftStep(op, base, s, g, S) OBVIOUS
      <4> HIDE DEF h, R
      <4>7. LeftStep(op, base, s, g, S) = op[<<g[R], s[Max(S)]>>] BY <3>2 DEF LeftStep, R
      <4>8. LeftStep(op, base, s, h, S) = op[<<h[R], s[Max(S)]>>] BY <3>2 DEF LeftStep, R
      <4> QED BY <4>3, <4>4, <4>5, <4>6, <4>7, <4>8
    <3> QED BY <3>1, <3>2
  <2>3. DOMAIN h = Small(n + 1)
        /\ \A S \in Small(n + 1) : h[S] = LeftStep(op, base, s, g, S)
    OBVIOUS
  <2>4. h = [S \in Small(n + 1) |-> h[S]] OBVIOUS
  <2> HIDE DEF h, Small
  <2>5. h = [S \in Small(n + 1) |-> LeftStep(op, base, s, h, S)] BY <2>2, <2>3, <2>4
  <2>6. \A S \in Small(n + 1) : h[S] \in V BY <2>2
  <2>7. Partly(h, n + 1) BY <2>5, <2>6
  <2> QED BY <2>7
<1>3. Nat \subseteq N
  <2> HIDE DEF N
  <2> QED BY <1>1, <1>2, Upward
<1>4. PICK g : Partly(g, Cardinality(D))
  BY <1>0, <1>3
<1>5. Small(Cardinality(D)) = SUBSET D
  BY <1>0, <1>a, FS_Subset
<1> QED BY <1>4, <1>5 DEF IsLeftFold

LEMMA MaxInterval ==
  ASSUME NEW n \in Nat \ {0}
  PROVE  Max(1 .. n) = n /\ (1 .. n) \ {n} = 1 .. n - 1
<1>1. IsFiniteSet(1 .. n)
  <2>1. 1 \in Int /\ n \in Int OBVIOUS
  <2> QED BY <2>1, FS_Interval
<1>2. 1 .. n \in SUBSET Nat /\ 1 .. n # {} /\ n \in 1 .. n OBVIOUS
<1>3. Max(1 .. n) \in 1 .. n BY <1>1, <1>2, MaxIn
<1>4. \E x \in 1 .. n : \A y \in 1 .. n : x >= y BY <1>2
<1>5. \A y \in 1 .. n : Max(1 .. n) >= y BY <1>4 DEF Max
<1> QED BY <1>2, <1>3, <1>5

LEMMA FoldInduction ==
  ASSUME NEW D \in SUBSET Nat, IsFiniteSet(D), NEW V, NEW g,
         \A S \in SUBSET D : S = {} \/ g[S \ {Max(S)}] \in V => g[S] \in V
  PROVE  \A S \in SUBSET D : g[S] \in V
<1> DEFINE A == {S \in SUBSET D : g[S] \in V}
<1>1. ASSUME NEW S \in SUBSET D, \A x \in S : S \ {x} \in A PROVE S \in A
  <2>1. CASE S = {} BY <2>1
  <2>2. CASE S # {}
    <3>1. Max(S) \in S BY <2>2, MaxIn, FS_Subset
    <3> QED BY <1>1, <3>1
  <2> QED BY <2>1, <2>2
<1>2. SUBSET D \subseteq A
  <2> HIDE DEF A
  <2> QED BY <1>1, SubsetInduction
<1> QED BY <1>2
-----------------------------------------------------------------------------
(* Keys and paths. *)

PathSeg == [word : STRING, num : Int]

LEMMA WrappedTyped ==
  ASSUME NEW n \in Int
  PROVE  Wrapped(n) \in Int /\ Wrapped(n) \in -IntSize .. IntSize
<1>1. IntSize \in Nat /\ IntSize > 0 BY IntSizeAssumption
<1>2. n % IntSize \in 0 .. IntSize - 1 BY <1>1
<1> QED BY <1>1, <1>2 DEF Wrapped

\* The digits of a segment make an int, whatever they are.
LEMMA PlainIntTyped ==
  ASSUME NEW digits \in Seq(Int)
  PROVE  PlainInt(digits) \in Int
<1> DEFINE D == DOMAIN digits
           Plain(g, S) == IF S = {} THEN 0
                          ELSE Wrapped(g[S \ {Max(S)}] * 10 + digits[Max(S)])
           op == [x \in Int \X Int |-> Wrapped(x[1] * 10 + x[2])]
           f == CHOOSE g : g = [S \in SUBSET D |-> Plain(g, S)]
<1>1. PlainInt(digits) = f[D]
  <2>1. PlainInt(digits) =
          LET iter[S \in SUBSET DOMAIN digits] ==
                IF S = {} THEN 0
                ELSE LET x == Max(S) IN Wrapped(iter[S \ {x}] * 10 + digits[x])
          IN  iter[DOMAIN digits]
    BY DEF PlainInt, FoldLeft, MapThenFoldSet
  <2> QED BY <2>1
<1>2. D \in SUBSET Nat /\ IsFiniteSet(D) /\ \A i \in D : digits[i] \in Int
  <2>1. D = 1 .. Len(digits) /\ Len(digits) \in Nat BY LenProperties
  <2>2. IsFiniteSet(1 .. Len(digits)) BY <2>1, FS_Interval
  <2>3. \A i \in 1 .. Len(digits) : digits[i] \in Int BY ElementOfSeq
  <2> QED BY <2>1, <2>2, <2>3
<1>3. ASSUME NEW S \in SUBSET D, S # {} PROVE Max(S) \in S /\ digits[Max(S)] \in Int
  BY <1>2, <1>3, MaxIn, FS_Subset
<1>4. \E g : g = [S \in SUBSET D |-> Plain(g, S)]
  <2>1. op \in [Int \X Int -> Int] BY WrappedTyped
  <2>2. PICK g : /\ IsLeftFold(op, 0, digits, g)
                 /\ \A S \in SUBSET DOMAIN digits : g[S] \in Int
    <3>1. 0 \in Int OBVIOUS
    <3> HIDE DEF op, D, Plain, f
    <3> QED BY <2>1, <3>1, LeftFoldExists
  <2>3. ASSUME NEW S \in SUBSET D PROVE LeftStep(op, 0, digits, g, S) = Plain(g, S)
    <3>1. CASE S = {} BY <3>1 DEF LeftStep
    <3>2. CASE S # {}
      <4>1. Max(S) \in S /\ digits[Max(S)] \in Int BY <1>3, <3>2
      <4>2. g[S \ {Max(S)}] \in Int BY <2>2
      <4> DEFINE x == <<g[S \ {Max(S)}], digits[Max(S)]>>
      <4>3. x \in Int \X Int /\ x[1] = g[S \ {Max(S)}] /\ x[2] = digits[Max(S)]
        BY <4>1, <4>2
      <4>4. LeftStep(op, 0, digits, g, S) = op[x] BY <3>2 DEF LeftStep
      <4> HIDE DEF x
      <4>5. op[x] = Wrapped(x[1] * 10 + x[2]) BY <4>3
      <4>6. Plain(g, S) = Wrapped(g[S \ {Max(S)}] * 10 + digits[Max(S)]) BY <3>2
      <4> HIDE DEF op, Plain
      <4> QED BY <4>3, <4>4, <4>5, <4>6
    <3> QED BY <3>1, <3>2
  <2> HIDE DEF Plain, op
  <2> QED BY <2>2, <2>3 DEF IsLeftFold
<1>5. f = [S \in SUBSET D |-> Plain(f, S)]
  <2> HIDE DEF Plain
  <2> QED BY <1>4
<1> HIDE DEF f
<1>6. ASSUME NEW S \in SUBSET D, S = {} \/ f[S \ {Max(S)}] \in Int PROVE f[S] \in Int
  <2>1. f[S] = Plain(f, S) BY <1>5
  <2>2. CASE S = {} BY <2>1, <2>2
  <2>3. CASE S # {}
    <3>1. f[S \ {Max(S)}] \in Int /\ digits[Max(S)] \in Int BY <1>3, <1>6, <2>3
    <3>2. f[S \ {Max(S)}] * 10 + digits[Max(S)] \in Int BY <3>1
    <3> QED BY <2>1, <2>3, <3>2, WrappedTyped
  <2> QED BY <2>2, <2>3
<1>7. \A S \in SUBSET D : f[S] \in Int
  <2> HIDE DEF D
  <2> QED BY <1>2, <1>6, FoldInduction
<1> QED BY <1>1, <1>7

LEMMA CanonicalSegTyped ==
  ASSUME NEW s \in [word : STRING, digits : Seq(0 .. 9)]
  PROVE  CanonicalSeg(s) \in PathSeg
<1>1. s.word \in STRING /\ s.digits \in Seq(0 .. 9) OBVIOUS
<1>2. s.digits \in Seq(Int) BY <1>1, SeqMonotonic
<1>3. PlainInt(s.digits) \in Int BY <1>2, PlainIntTyped
<1> QED BY <1>1, <1>3 DEF CanonicalSeg, PathSeg

\* What a segment adds to the path so far.
Along(p, s) == IF IsBlank(s) THEN p ELSE Append(p, CanonicalSeg(s))

PathStep(k, g, S) == IF S = {} THEN <<>> ELSE Along(g[S \ {Max(S)}], k[Max(S)])

IsPathFold(k, g) == g = [S \in SUBSET DOMAIN k |-> PathStep(k, g, S)]

LEMMA KeyIs ==
  ASSUME NEW E, NEW k \in Seq(E)
  PROVE  /\ DOMAIN k = 1 .. Len(k) /\ Len(k) \in Nat
         /\ DOMAIN k \in SUBSET Nat /\ IsFiniteSet(DOMAIN k)
         /\ \A i \in DOMAIN k : k[i] \in E
         /\ \A S \in SUBSET DOMAIN k : S # {} => Max(S) \in S
<1>1. DOMAIN k = 1 .. Len(k) /\ Len(k) \in Nat BY LenProperties
<1>2. DOMAIN k \in SUBSET Nat /\ IsFiniteSet(DOMAIN k) BY <1>1, FS_Interval
<1>3. \A i \in DOMAIN k : k[i] \in E
  BY <1>1, ElementOfSeq
<1> QED BY <1>1, <1>2, <1>3, MaxIn, FS_Subset

CanonicalSegs(E) == {CanonicalSeg(s) : s \in E}

LEMMA AlongTyped ==
  ASSUME NEW E, NEW p \in Seq(CanonicalSegs(E)), NEW s \in E
  PROVE  Along(p, s) \in Seq(CanonicalSegs(E))
<1>1. CanonicalSeg(s) \in CanonicalSegs(E) BY DEF CanonicalSegs
<1> QED BY <1>1, AppendProperties DEF Along

\* A path is folded out of its key, and is a sequence of canonical segments.
LEMMA PathIsFold ==
  ASSUME NEW E, NEW k \in Seq(E)
  PROVE  \E g : /\ IsPathFold(k, g) /\ Path(k) = g[DOMAIN k]
                /\ \A S \in SUBSET DOMAIN k : g[S] \in Seq(CanonicalSegs(E))
<1> DEFINE V == Seq(CanonicalSegs(E))
           op == [x \in V \X E |-> Along(x[1], x[2])]
           f == CHOOSE g : IsPathFold(k, g)
<1>1. Path(k) = f[DOMAIN k]
  <2>1. Path(k) =
          LET iter[S \in SUBSET DOMAIN k] ==
                IF S = {} THEN <<>>
                ELSE LET x == Max(S) IN Along(iter[S \ {x}], k[x])
          IN  iter[DOMAIN k]
    BY DEF Path, FoldLeft, MapThenFoldSet, Along
  <2> QED BY <2>1 DEF IsPathFold, PathStep
<1>2. \E g : IsPathFold(k, g)
  <2>1. op \in [V \X E -> V] BY AlongTyped
  <2>2. <<>> \in V /\ k \in Seq(E) BY EmptySeq
  <2>3. PICK g : /\ IsLeftFold(op, <<>>, k, g)
                 /\ \A S \in SUBSET DOMAIN k : g[S] \in V
    <3> HIDE DEF op, f, V
    <3> QED BY <2>1, <2>2, LeftFoldExists
  <2>4. ASSUME NEW S \in SUBSET DOMAIN k PROVE LeftStep(op, <<>>, k, g, S) = PathStep(k, g, S)
    <3>1. CASE S = {} BY <3>1 DEF LeftStep, PathStep
    <3>2. CASE S # {}
      <4>1. k[Max(S)] \in E BY <3>2, KeyIs
      <4>2. g[S \ {Max(S)}] \in V BY <2>3
      <4> DEFINE x == <<g[S \ {Max(S)}], k[Max(S)]>>
      <4>3. x \in V \X E /\ x[1] = g[S \ {Max(S)}] /\ x[2] = k[Max(S)]
        BY <4>1, <4>2
      <4>4. LeftStep(op, <<>>, k, g, S) = op[x] BY <3>2 DEF LeftStep
      <4> HIDE DEF x
      <4>5. op[x] = Along(x[1], x[2]) BY <4>3
      <4>6. PathStep(k, g, S) = Along(g[S \ {Max(S)}], k[Max(S)]) BY <3>2 DEF PathStep
      <4> HIDE DEF op
      <4> QED BY <4>3, <4>4, <4>5, <4>6
    <3> QED BY <3>1, <3>2
  <2> HIDE DEF op
  <2> QED BY <2>3, <2>4 DEF IsLeftFold, IsPathFold
<1>3. IsPathFold(k, f) BY <1>2
<1> HIDE DEF f
<1>4. ASSUME NEW S \in SUBSET DOMAIN k, S = {} \/ f[S \ {Max(S)}] \in V
      PROVE  f[S] \in V
  <2>1. f[S] = PathStep(k, f, S) BY <1>3 DEF IsPathFold
  <2>2. CASE S = {} BY <2>1, <2>2, EmptySeq DEF PathStep
  <2>3. CASE S # {}
    <3>1. k[Max(S)] \in E BY <2>3, KeyIs
    <3>2. f[S] = Along(f[S \ {Max(S)}], k[Max(S)]) BY <2>1, <2>3 DEF PathStep
    <3> QED BY <1>4, <2>3, <3>1, <3>2, AlongTyped
  <2> QED BY <2>2, <2>3
<1>5. \A S \in SUBSET DOMAIN k : f[S] \in V BY <1>4, KeyIs, FoldInduction
<1> QED BY <1>1, <1>3, <1>5

LEMMA PathTyped == \A k \in Key : Path(k) \in Seq(PathSeg)
<1> SUFFICES ASSUME NEW k \in Key PROVE Path(k) \in Seq(PathSeg) OBVIOUS
<1> DEFINE E == [word : STRING, digits : Seq(0 .. 9)]
<1>1. CanonicalSegs(E) \subseteq PathSeg BY CanonicalSegTyped DEF CanonicalSegs
<1>2. Path(k) \in Seq(CanonicalSegs(E))
  <2>1. k \in Seq(E) BY DEF Key
  <2> HIDE DEF E
  <2> QED BY <2>1, PathIsFold
<1> QED BY <1>1, <1>2, SeqMonotonic

\* The path of a key without blanks has a segment for each of the key's.
LEMMA PathOfWords ==
  ASSUME NEW E, NEW k \in Seq(E), \A i \in DOMAIN k : ~IsBlank(k[i])
  PROVE  /\ Len(Path(k)) = Len(k)
         /\ \A i \in 1 .. Len(k) : Path(k)[i] = CanonicalSeg(k[i])
<1>1. PICK g : /\ IsPathFold(k, g) /\ Path(k) = g[DOMAIN k]
               /\ \A S \in SUBSET DOMAIN k : g[S] \in Seq(CanonicalSegs(E))
  BY PathIsFold
<1> DEFINE N == {n \in Nat : n <= Len(k) =>
                   /\ Len(g[1 .. n]) = n
                   /\ \A i \in 1 .. n : g[1 .. n][i] = CanonicalSeg(k[i])}
<1>2. 0 \in N
  <2>1. 1 .. 0 = {} OBVIOUS
  <2>2. g[{}] = <<>> BY <1>1 DEF IsPathFold, PathStep
  <2> QED BY <2>1, <2>2, EmptySeq
<1>3. ASSUME NEW n \in Nat, n \in N PROVE n + 1 \in N
  <2> SUFFICES ASSUME n + 1 <= Len(k)
               PROVE  /\ Len(g[1 .. n + 1]) = n + 1
                      /\ \A i \in 1 .. n + 1 : g[1 .. n + 1][i] = CanonicalSeg(k[i])
    OBVIOUS
  <2>0. Len(k) \in Nat /\ DOMAIN k = 1 .. Len(k) BY KeyIs
  <2>1. n <= Len(k) /\ n + 1 \in DOMAIN k /\ n + 1 \in Nat \ {0} BY <2>0
  <2>2. Max(1 .. n + 1) = n + 1 /\ (1 .. n + 1) \ {n + 1} = 1 .. n
    <3>1. (n + 1) - 1 = n OBVIOUS
    <3> QED BY <2>1, <3>1, MaxInterval
  <2>3. 1 .. n \in SUBSET DOMAIN k /\ 1 .. n + 1 \in SUBSET DOMAIN k /\ 1 .. n + 1 # {}
    BY <2>0, <2>1
  <2>4. g[1 .. n + 1] = PathStep(k, g, 1 .. n + 1) BY <1>1, <2>3 DEF IsPathFold
  <2>5. g[1 .. n + 1] = Append(g[1 .. n], CanonicalSeg(k[n + 1]))
    BY <2>1, <2>2, <2>3, <2>4 DEF PathStep, Along
  <2>6. g[1 .. n] \in Seq(CanonicalSegs(E)) /\ CanonicalSeg(k[n + 1]) \in CanonicalSegs(E)
    BY <1>1, <2>1, <2>3, KeyIs DEF CanonicalSegs
  <2>7. /\ Len(g[1 .. n]) = n
        /\ \A i \in 1 .. n : g[1 .. n][i] = CanonicalSeg(k[i])
    BY <1>3, <2>1
  <2>8. /\ Len(g[1 .. n + 1]) = n + 1
        /\ \A i \in 1 .. n : g[1 .. n + 1][i] = g[1 .. n][i]
        /\ g[1 .. n + 1][n + 1] = CanonicalSeg(k[n + 1])
    BY <2>5, <2>6, <2>7, AppendProperties
  <2>9. \A i \in 1 .. n + 1 : i \in 1 .. n \/ i = n + 1 OBVIOUS
  <2> QED BY <2>7, <2>8, <2>9
<1>4. Nat \subseteq N
  <2> HIDE DEF N
  <2> QED BY <1>2, <1>3, Upward
<1> QED BY <1>1, <1>4, KeyIs
-----------------------------------------------------------------------------
(* Addresses. *)

Branching == [track : {"branch", "index"}, seg : PathSeg]
Address == Seq(Branching)

\* The segments along an address.
Segs(p) == [i \in DOMAIN p |-> p[i].seg]

LEMMA AddressIs ==
  ASSUME NEW p \in Address
  PROVE  /\ Len(p) \in Nat /\ DOMAIN p = 1 .. Len(p)
         /\ \A i \in 1 .. Len(p) : /\ p[i] \in Branching
                                   /\ p[i].track \in {"branch", "index"} /\ p[i].seg \in PathSeg
<1>1. Len(p) \in Nat /\ DOMAIN p = 1 .. Len(p) BY LenProperties DEF Address
<1>2. \A i \in 1 .. Len(p) : p[i] \in Branching BY ElementOfSeq DEF Address
<1> QED BY <1>1, <1>2 DEF Branching

\* Addresses are equal that have equal steps.
LEMMA SameAddress ==
  ASSUME NEW p \in Address, NEW q \in Address, Len(p) = Len(q),
         \A i \in 1 .. Len(p) : p[i].track = q[i].track /\ p[i].seg = q[i].seg
  PROVE  p = q
<1>1. ASSUME NEW i \in 1 .. Len(p) PROVE p[i] = q[i]
  <2>1. p[i] \in Branching /\ q[i] \in Branching BY AddressIs
  <2> QED BY <2>1 DEF Branching
<1> QED BY <1>1, SeqEqual DEF Address

LEMMA RootIs == Root \in Address /\ Len(Root) = 0 /\ \A p \in Address : Len(p) = 0 => p = Root
BY EmptySeq DEF Root, Address

LEMMA SegsTyped ==
  ASSUME NEW p \in Address
  PROVE  /\ Segs(p) \in Seq(PathSeg) /\ Len(Segs(p)) = Len(p)
         /\ \A i \in 1 .. Len(p) : Segs(p)[i] = p[i].seg
<1>1. \A i \in 1 .. Len(p) : p[i].seg \in PathSeg BY AddressIs
<1>2. Segs(p) = [i \in 1 .. Len(p) |-> p[i].seg] BY AddressIs DEF Segs
<1>3. Segs(p) \in [1 .. Len(p) -> PathSeg] BY <1>1, <1>2
<1>4. Len(p) \in Nat BY AddressIs
<1> QED BY <1>2, <1>3, <1>4

LEMMA AboveIs ==
  ASSUME NEW S, NEW p \in Seq(S), NEW i \in 0 .. Len(p)
  PROVE  /\ Above(p, i) \in Seq(S) /\ Len(Above(p, i)) = i
         /\ \A j \in 1 .. i : Above(p, i)[j] = p[j]
<1>1. Len(p) \in Nat /\ \A j \in 1 .. Len(p) : p[j] \in S BY LenProperties, ElementOfSeq
<1>2. i \in Int /\ 1 \in Int /\ \A j \in 1 .. i : p[j] \in S BY <1>1
<1>3. /\ SubSeq(p, 1, i) \in Seq(S)
      /\ Len(SubSeq(p, 1, i)) = IF 1 <= i THEN i - 1 + 1 ELSE 0
      /\ \A j \in 1 .. i - 1 + 1 : SubSeq(p, 1, i)[j] = p[1 + j - 1]
  BY <1>2, SubSeqProperties
<1>4. i - 1 + 1 = i /\ \A j \in 1 .. i : 1 + j - 1 = j BY <1>2
<1> QED BY <1>1, <1>3, <1>4 DEF Above

LEMMA AboveAll ==
  ASSUME NEW S, NEW p \in Seq(S)
  PROVE  Above(p, Len(p)) = p /\ Above(p, 0) = <<>>
<1>1. Len(p) \in Nat BY LenProperties
<1>2. Above(p, Len(p)) = p BY SubSeqFull DEF Above
<1>3. Above(p, 0) = <<>> BY <1>1, AboveIs, EmptySeq
<1> QED BY <1>2, <1>3

LEMMA AboveAbove ==
  ASSUME NEW S, NEW p \in Seq(S), NEW i \in 0 .. Len(p), NEW j \in 0 .. i
  PROVE  Above(Above(p, i), j) = Above(p, j)
<1>1. Len(p) \in Nat BY LenProperties
<1>2. Above(p, i) \in Seq(S) /\ Len(Above(p, i)) = i /\ \A h \in 1 .. i : Above(p, i)[h] = p[h]
  BY AboveIs
<1>3. j \in 0 .. Len(p) BY <1>1
<1>4. /\ Above(p, j) \in Seq(S) /\ Len(Above(p, j)) = j
      /\ \A h \in 1 .. j : Above(p, j)[h] = p[h]
  BY <1>3, AboveIs
<1>5. /\ Above(Above(p, i), j) \in Seq(S) /\ Len(Above(Above(p, i), j)) = j
      /\ \A h \in 1 .. j : Above(Above(p, i), j)[h] = Above(p, i)[h]
  BY <1>2, AboveIs
<1>6. \A h \in 1 .. j : h \in 1 .. i BY <1>1
<1> QED BY <1>2, <1>4, <1>5, <1>6, SeqEqual

LEMMA SegsAbove ==
  ASSUME NEW p \in Address, NEW i \in 0 .. Len(p)
  PROVE  Segs(Above(p, i)) = Above(Segs(p), i)
<1>1. Len(p) \in Nat BY AddressIs
<1>2. Above(p, i) \in Address /\ Len(Above(p, i)) = i /\ \A h \in 1 .. i : Above(p, i)[h] = p[h]
  BY AboveIs DEF Address
<1>3. /\ Segs(Above(p, i)) \in Seq(PathSeg) /\ Len(Segs(Above(p, i))) = i
      /\ \A h \in 1 .. i : Segs(Above(p, i))[h] = Above(p, i)[h].seg
  BY <1>2, SegsTyped
<1>4. /\ Segs(p) \in Seq(PathSeg) /\ Len(Segs(p)) = Len(p)
      /\ \A h \in 1 .. Len(p) : Segs(p)[h] = p[h].seg
  BY SegsTyped
<1>5. /\ Above(Segs(p), i) \in Seq(PathSeg) /\ Len(Above(Segs(p), i)) = i
      /\ \A h \in 1 .. i : Above(Segs(p), i)[h] = Segs(p)[h]
  BY <1>4, AboveIs
<1>6. \A h \in 1 .. i : h \in 1 .. Len(p) BY <1>1
<1> QED BY <1>2, <1>3, <1>4, <1>5, <1>6, SeqEqual

\* Spells compares what Segs lists.
LEMMA SpellsIs ==
  ASSUME NEW p \in Address, NEW s \in Seq(PathSeg)
  PROVE  Spells(p, s) <=> Segs(p) = s
<1>1. DOMAIN p = 1 .. Len(p) BY AddressIs
<1> QED BY <1>1, SegsTyped, SeqEqual DEF Spells

LEMMA ChildIs ==
  ASSUME NEW n \in Address, NEW t \in {"branch", "index"}, NEW s \in PathSeg
  PROVE  /\ Child(n, t, s) \in Address /\ Len(Child(n, t, s)) = Len(n) + 1
         /\ Child(n, t, s)[Len(n) + 1].track = t /\ Child(n, t, s)[Len(n) + 1].seg = s
         /\ \A i \in 1 .. Len(n) : Child(n, t, s)[i] = n[i]
         /\ \A i \in 0 .. Len(n) : Above(Child(n, t, s), i) = Above(n, i)
         /\ Above(Child(n, t, s), Len(n)) = n
<1> DEFINE e == [track |-> t, seg |-> s]
           c == Child(n, t, s)
<1>0. Len(n) \in Nat BY AddressIs
<1>1. e \in Branching BY DEF Branching
<1>2. c = Append(n, e) BY DEF Child
<1>3. /\ c \in Address /\ Len(c) = Len(n) + 1 /\ c[Len(n) + 1] = e
      /\ \A i \in 1 .. Len(n) : c[i] = n[i]
  BY <1>1, <1>2, AppendProperties DEF Address
<1>4. ASSUME NEW i \in 0 .. Len(n) PROVE Above(c, i) = Above(n, i)
  <2>1. i \in 0 .. Len(c) /\ \A h \in 1 .. i : h \in 1 .. Len(n) BY <1>0, <1>3
  <2>2. /\ Above(c, i) \in Address /\ Len(Above(c, i)) = i
        /\ \A h \in 1 .. i : Above(c, i)[h] = c[h]
    BY <1>3, <2>1, AboveIs DEF Address
  <2>3. /\ Above(n, i) \in Address /\ Len(Above(n, i)) = i
        /\ \A h \in 1 .. i : Above(n, i)[h] = n[h]
    BY AboveIs DEF Address
  <2>4. \A h \in 1 .. i : Above(c, i)[h] = Above(n, i)[h] BY <1>3, <2>1, <2>2, <2>3
  <2> HIDE DEF c
  <2> QED BY <2>2, <2>3, <2>4, SeqEqual DEF Address
<1>5. Len(n) \in 0 .. Len(n) /\ Above(n, Len(n)) = n BY <1>0, AboveAll DEF Address
<1> QED BY <1>3, <1>4, <1>5

\* The same, to be used where the child has a name.
IsChildOf(c, n, t, s) ==
    /\ c \in Address /\ Len(c) = Len(n) + 1
    /\ c[Len(n) + 1].track = t /\ c[Len(n) + 1].seg = s
    /\ \A i \in 1 .. Len(n) : c[i] = n[i]
    /\ \A i \in 0 .. Len(n) : Above(c, i) = Above(n, i)
    /\ Above(c, Len(n)) = n

LEMMA IsChild ==
  ASSUME NEW n \in Address, NEW t \in {"branch", "index"}, NEW s \in PathSeg
  PROVE  IsChildOf(Child(n, t, s), n, t, s)
BY ChildIs DEF IsChildOf

\* An address on the other track of n spells the same.
LEMMA OnTrackIs ==
  ASSUME NEW p \in Address, NEW n \in Address, Len(p) > Len(n),
         NEW t \in {"branch", "index"}
  PROVE  /\ OnTrack(p, n, t) \in Address /\ Len(OnTrack(p, n, t)) = Len(p)
         /\ OnTrack(p, n, t)[Len(n) + 1].track = t
         /\ \A i \in 1 .. Len(p) : OnTrack(p, n, t)[i].seg = p[i].seg
         /\ \A i \in (1 .. Len(p)) \ {Len(n) + 1} : OnTrack(p, n, t)[i] = p[i]
         /\ Segs(OnTrack(p, n, t)) = Segs(p)
<1> DEFINE d == Len(n) + 1
           q == OnTrack(p, n, t)
<1>1. /\ Len(p) \in Nat /\ Len(n) \in Nat /\ d \in 1 .. Len(p) /\ DOMAIN p = 1 .. Len(p)
      /\ \A i \in 1 .. Len(p) : p[i] \in Branching
  BY AddressIs
<1> DEFINE e == [p[d] EXCEPT !.track = t]
<1>2. e \in Branching /\ e.track = t /\ e.seg = p[d].seg BY <1>1 DEF Branching
<1>3. q = [p EXCEPT ![d] = e] BY DEF OnTrack
<1> HIDE DEF q, e
<1>4. /\ q \in Address /\ Len(q) = Len(p)
      /\ \A j \in 1 .. Len(p) : q[j] = IF j = d THEN e ELSE p[j]
  BY <1>1, <1>2, <1>3, ExceptSeq DEF Address
<1>5. \A i \in 1 .. Len(p) : q[i].seg = p[i].seg BY <1>2, <1>4
<1>6. Segs(q) = Segs(p)
  <2>1. /\ Segs(q) \in Seq(PathSeg) /\ Len(Segs(q)) = Len(p)
        /\ \A i \in 1 .. Len(p) : Segs(q)[i] = q[i].seg
    BY <1>4, SegsTyped
  <2>2. /\ Segs(p) \in Seq(PathSeg) /\ Len(Segs(p)) = Len(p)
        /\ \A i \in 1 .. Len(p) : Segs(p)[i] = p[i].seg
    BY SegsTyped
  <2>3. \A i \in 1 .. Len(p) : Segs(q)[i] = Segs(p)[i] BY <1>5, <2>1, <2>2
  <2> QED BY <2>1, <2>2, <2>3, SeqEqual
<1> QED BY <1>1, <1>2, <1>4, <1>5, <1>6 DEF q

IsSwitched(q, p, n, t) ==
    /\ q \in Address /\ Len(q) = Len(p) /\ q[Len(n) + 1].track = t
    /\ \A i \in 1 .. Len(p) : q[i].seg = p[i].seg
    /\ \A i \in (1 .. Len(p)) \ {Len(n) + 1} : q[i] = p[i]

LEMMA IsOnTrack ==
  ASSUME NEW p \in Address, NEW n \in Address, Len(p) > Len(n),
         NEW t \in {"branch", "index"}
  PROVE  IsSwitched(OnTrack(p, n, t), p, n, t)
BY OnTrackIs DEF IsSwitched

\* Changing tracks goes back and forth.
LEMMA OnTrackTwice ==
  ASSUME NEW p \in Address, NEW n \in Address, Len(p) > Len(n),
         NEW t \in {"branch", "index"}, NEW u \in {"branch", "index"}
  PROVE  /\ OnTrack(OnTrack(p, n, t), n, u) = OnTrack(p, n, u)
         /\ p[Len(n) + 1].track = t => OnTrack(p, n, t) = p
<1> DEFINE q == OnTrack(p, n, t)
           r == OnTrack(p, n, u)
           w == OnTrack(q, n, u)
           d == Len(n) + 1
<1>1. Len(p) \in Nat /\ Len(n) \in Nat /\ d \in 1 .. Len(p) BY AddressIs
<1>2. /\ q \in Address /\ Len(q) = Len(p) /\ q[d].track = t
      /\ \A i \in 1 .. Len(p) : q[i].seg = p[i].seg
      /\ \A i \in (1 .. Len(p)) \ {d} : q[i] = p[i]
  BY OnTrackIs
<1>3. /\ r \in Address /\ Len(r) = Len(p) /\ r[d].track = u
      /\ \A i \in 1 .. Len(p) : r[i].seg = p[i].seg
      /\ \A i \in (1 .. Len(p)) \ {d} : r[i] = p[i]
  BY OnTrackIs
<1> HIDE DEF q
<1>4. /\ w \in Address /\ Len(w) = Len(p) /\ w[d].track = u
      /\ \A i \in 1 .. Len(p) : w[i].seg = q[i].seg
      /\ \A i \in (1 .. Len(p)) \ {d} : w[i] = q[i]
  BY <1>2, OnTrackIs
<1> HIDE DEF w, r
<1>5. \A i \in 1 .. Len(p) : w[i].track = r[i].track /\ w[i].seg = r[i].seg
  BY <1>2, <1>3, <1>4
<1>6. w = r BY <1>3, <1>4, <1>5, SameAddress
<1>7. ASSUME p[d].track = t PROVE q = p
  <2>1. \A i \in 1 .. Len(p) : q[i].track = p[i].track /\ q[i].seg = p[i].seg
    BY <1>2, <1>7
  <2> QED BY <1>2, <2>1, SameAddress
<1> QED BY <1>6, <1>7 DEF q, r, w

\* Above n nothing changes; below, the tracks change along.
LEMMA OnTrackAbove ==
  ASSUME NEW p \in Address, NEW n \in Address, Len(p) > Len(n),
         NEW t \in {"branch", "index"}, NEW i \in 0 .. Len(p)
  PROVE  Above(OnTrack(p, n, t), i) =
           IF i <= Len(n) THEN Above(p, i) ELSE OnTrack(Above(p, i), n, t)
<1> DEFINE q == OnTrack(p, n, t)
           d == Len(n) + 1
<1>1. Len(p) \in Nat /\ Len(n) \in Nat /\ d \in 1 .. Len(p) BY AddressIs
<1>2. /\ q \in Address /\ Len(q) = Len(p) /\ q[d].track = t
      /\ \A j \in 1 .. Len(p) : q[j].seg = p[j].seg
      /\ \A j \in (1 .. Len(p)) \ {d} : q[j] = p[j]
  <2>1. IsSwitched(q, p, n, t) BY IsOnTrack
  <2> HIDE DEF q
  <2> QED BY <2>1 DEF IsSwitched
<1> HIDE DEF q
<1>3. /\ Above(q, i) \in Address /\ Len(Above(q, i)) = i
      /\ \A j \in 1 .. i : Above(q, i)[j] = q[j]
  <2>1. q \in Seq(Branching) /\ i \in 0 .. Len(q) BY <1>2 DEF Address
  <2> QED BY <2>1, AboveIs DEF Address
<1>4. /\ Above(p, i) \in Address /\ Len(Above(p, i)) = i
      /\ \A j \in 1 .. i : Above(p, i)[j] = p[j]
  BY AboveIs DEF Address
<1>5. \A j \in 1 .. i : j \in 1 .. Len(p) BY <1>1
<1>6. CASE i <= Len(n)
  <2>1. \A j \in 1 .. i : j # d BY <1>1, <1>6
  <2>2. \A j \in 1 .. i : Above(q, i)[j] = Above(p, i)[j] BY <1>2, <1>3, <1>4, <1>5, <2>1
  <2> QED BY <1>3, <1>4, <1>6, <2>2, SeqEqual DEF Address, q
<1>7. CASE ~(i <= Len(n))
  <2> DEFINE r == OnTrack(Above(p, i), n, t)
  <2>1. Len(Above(p, i)) > Len(n) BY <1>1, <1>4, <1>7
  <2>2. /\ r \in Address /\ Len(r) = i /\ r[d].track = t
        /\ \A j \in 1 .. i : r[j].seg = Above(p, i)[j].seg
        /\ \A j \in (1 .. i) \ {d} : r[j] = Above(p, i)[j]
    BY <1>4, <2>1, OnTrackIs
  <2> HIDE DEF r
  <2>3. \A j \in 1 .. i : Above(q, i)[j].track = r[j].track /\ Above(q, i)[j].seg = r[j].seg
    BY <1>2, <1>3, <1>4, <1>5, <2>2
  <2>4. Above(q, i) = r BY <1>3, <2>2, <2>3, SameAddress
  <2> QED BY <1>7, <2>4 DEF q, r
<1> QED BY <1>6, <1>7
-----------------------------------------------------------------------------
(* The trie.  It is a tree of addresses; positions carry no value, and no  *)
(* position stands beside a branch of the same key that carries one.       *)

Twin(p) == OnTrack(p, Above(p, Len(p) - 1), "index")

Sprung(T, p) ==
    /\ p \in Address
    /\ \A i \in 0 .. Len(p) : Above(p, i) \in DOMAIN T
    /\ \A i \in 1 .. Len(p) : p[i].track = "index" => IsIndex(p[i].seg)
    /\ p # Root /\ HasValue(T, p) =>
          p[Len(p)].track = "branch" /\ Twin(p) \notin DOMAIN T

Tree(T) ==
    /\ IsFiniteSet(DOMAIN T)
    /\ Root \in DOMAIN T /\ ~HasValue(T, Root)
    /\ \A p \in DOMAIN T : Sprung(T, p)

LEMMA ParentIs ==
  ASSUME NEW p \in Address, p # Root
  PROVE  /\ Len(p) \in Nat /\ Len(p) - 1 \in 0 .. Len(p) /\ Len(p) >= 1
         /\ Above(p, Len(p) - 1) \in Address /\ Len(Above(p, Len(p) - 1)) = Len(p) - 1
<1>1. Len(p) \in Nat /\ Len(p) # 0 BY AddressIs, RootIs
<1>2. Len(p) - 1 \in 0 .. Len(p) /\ Len(p) >= 1 BY <1>1
<1> QED BY <1>1, <1>2, AboveIs DEF Address

\* The twin of an address is its sibling among the positions.
LEMMA TwinIs ==
  ASSUME NEW p \in Address, p # Root
  PROVE  /\ Twin(p) \in Address /\ Len(Twin(p)) = Len(p) /\ Twin(p) # Root
         /\ Twin(p)[Len(p)].track = "index" /\ Twin(p)[Len(p)].seg = p[Len(p)].seg
         /\ Above(Twin(p), Len(p) - 1) = Above(p, Len(p) - 1)
         /\ Segs(Twin(p)) = Segs(p)
<1> DEFINE n == Above(p, Len(p) - 1)
<1>1. /\ Len(p) \in Nat /\ Len(p) - 1 \in 0 .. Len(p) /\ Len(p) >= 1
      /\ n \in Address /\ Len(n) = Len(p) - 1
  BY ParentIs
<1>2. Len(p) > Len(n) /\ Len(n) + 1 = Len(p) /\ Len(p) - 1 <= Len(n) /\ Len(p) \in 1 .. Len(p)
  BY <1>1
<1> HIDE DEF n
<1>3. Twin(p) = OnTrack(p, n, "index") BY DEF Twin, n
<1>4. Above(OnTrack(p, n, "index"), Len(p) - 1) = Above(p, Len(p) - 1)
  BY <1>1, <1>2, OnTrackAbove
<1>5. /\ OnTrack(p, n, "index") \in Address /\ Len(OnTrack(p, n, "index")) = Len(p)
      /\ OnTrack(p, n, "index")[Len(p)].track = "index"
      /\ OnTrack(p, n, "index")[Len(p)].seg = p[Len(p)].seg
      /\ Segs(OnTrack(p, n, "index")) = Segs(p)
  BY <1>1, <1>2, OnTrackIs
<1>6. Len(Root) = 0 BY RootIs
<1> QED BY <1>1, <1>3, <1>4, <1>5, <1>6

LEMMA TwinSteps ==
  ASSUME NEW p \in Address, p # Root
  PROVE  /\ \A i \in 1 .. Len(p) : Twin(p)[i].seg = p[i].seg
         /\ \A i \in (1 .. Len(p)) \ {Len(p)} : Twin(p)[i] = p[i]
<1> DEFINE m == Above(p, Len(p) - 1)
<1>1. Len(p) \in Nat /\ m \in Address /\ Len(m) = Len(p) - 1 BY ParentIs
<1>2. Len(p) > Len(m) /\ Len(m) + 1 = Len(p) BY <1>1
<1> HIDE DEF m
<1>3. Twin(p) = OnTrack(p, m, "index") BY DEF Twin, m
<1> QED BY <1>1, <1>2, <1>3, OnTrackIs

\* An address is the child of its parent that its last step names.
LEMMA ChildOfParent ==
  ASSUME NEW n \in Address, NEW t \in {"branch", "index"}, NEW s \in PathSeg,
         NEW p \in Address, Len(p) = Len(n) + 1, Above(p, Len(n)) = n,
         p[Len(p)].track = t, p[Len(p)].seg = s
  PROVE  p = Child(n, t, s)
<1> DEFINE c == Child(n, t, s)
<1>1. Len(n) \in Nat /\ Len(n) \in 0 .. Len(p) BY AddressIs
<1>2. /\ c \in Address /\ Len(c) = Len(n) + 1
      /\ c[Len(n) + 1].track = t /\ c[Len(n) + 1].seg = s
      /\ \A i \in 1 .. Len(n) : c[i] = n[i]
  BY ChildIs
<1>3. \A i \in 1 .. Len(n) : n[i] = p[i] BY <1>1, AboveIs DEF Address
<1> HIDE DEF c
<1>4. \A i \in 1 .. Len(p) : p[i].track = c[i].track /\ p[i].seg = c[i].seg
  BY <1>1, <1>2, <1>3
<1>5. p = c BY <1>2, <1>4, SameAddress
<1> QED BY <1>5 DEF c

LEMMA TreeIs ==
  ASSUME NEW T, Tree(T), NEW p \in DOMAIN T
  PROVE  /\ p \in Address /\ Len(p) \in Nat
         /\ \A i \in 0 .. Len(p) : Above(p, i) \in DOMAIN T
         /\ \A i \in 1 .. Len(p) : p[i].track = "index" => IsIndex(p[i].seg)
         /\ HasValue(T, p) => p # Root /\ p[Len(p)].track = "branch" /\ Twin(p) \notin DOMAIN T
BY AddressIs DEF Tree, Sprung

\* A new node: on the track of positions only where there are no branches.
LEMMA GrowKeepsTree ==
  ASSUME NEW T, Tree(T), NEW n \in DOMAIN T, NEW t \in {"branch", "index"}, NEW s \in PathSeg,
         t = "index" => IsIndex(s) /\ ~HasBranches(T, n)
  PROVE  Tree(WithNode(T, Child(n, t, s)))
<1> DEFINE c == Child(n, t, s)
           U == WithNode(T, c)
<1>0. n \in Address /\ Len(n) \in Nat /\ \A i \in 0 .. Len(n) : Above(n, i) \in DOMAIN T
  BY TreeIs
<1>1. /\ c \in Address /\ Len(c) = Len(n) + 1
      /\ c[Len(n) + 1].track = t /\ c[Len(n) + 1].seg = s
      /\ \A i \in 1 .. Len(n) : c[i] = n[i]
      /\ \A i \in 0 .. Len(n) : Above(c, i) = Above(n, i)
      /\ Above(c, Len(n)) = n
  <2>1. IsChildOf(c, n, t, s) BY <1>0, IsChild
  <2> HIDE DEF c
  <2> QED BY <2>1 DEF IsChildOf
<1> HIDE DEF c
<1>2. /\ DOMAIN U = DOMAIN T \cup {c}
      /\ \A p \in DOMAIN T : U[p] = T[p]
      /\ c \notin DOMAIN T => U[c] = NoValue
  BY DEF WithNode
<1> HIDE DEF U
<1>3. IsFiniteSet(DOMAIN U) BY <1>2, FS_AddElement DEF Tree
<1>4. Root \in DOMAIN U /\ ~HasValue(U, Root) BY <1>2 DEF Tree, HasValue
<1>5. ASSUME NEW p \in DOMAIN U PROVE Sprung(U, p)
  <2>1. p \in Address BY <1>1, <1>2, TreeIs
  <2>2. ASSUME NEW i \in 0 .. Len(p) PROVE Above(p, i) \in DOMAIN U
    <3>1. CASE p \in DOMAIN T BY <1>2, <3>1, TreeIs
    <3>2. CASE p = c /\ i <= Len(n) BY <1>0, <1>1, <1>2, <3>2
    <3>3. CASE p = c /\ ~(i <= Len(n))
      <4>1. i = Len(c) BY <1>0, <1>1, <3>3
      <4> QED BY <1>1, <1>2, <3>3, <4>1, AboveAll DEF Address
    <3> QED BY <1>2, <3>1, <3>2, <3>3
  <2>3. ASSUME NEW i \in 1 .. Len(p), p[i].track = "index" PROVE IsIndex(p[i].seg)
    <3>1. CASE p \in DOMAIN T BY <2>3, <3>1, TreeIs
    <3>2. CASE p = c /\ i \in 1 .. Len(n) BY <1>0, <1>1, <2>3, <3>2, TreeIs
    <3>3. CASE p = c /\ i = Len(n) + 1 BY <1>1, <2>3, <3>3
    <3> QED BY <1>0, <1>1, <1>2, <3>1, <3>2, <3>3
  <2>4. ASSUME p # Root, HasValue(U, p)
        PROVE  p[Len(p)].track = "branch" /\ Twin(p) \notin DOMAIN U
    <3>1. p \in DOMAIN T /\ HasValue(T, p) BY <1>2, <2>4 DEF HasValue
    <3>2. p[Len(p)].track = "branch" /\ Twin(p) \notin DOMAIN T BY <3>1, TreeIs
    <3>3. ASSUME Twin(p) = c PROVE FALSE
      <4>1. /\ Len(c) = Len(p) /\ c[Len(p)].track = "index"
            /\ Above(c, Len(p) - 1) = Above(p, Len(p) - 1) /\ Len(p) \in Nat
        BY <2>1, <2>4, <3>3, TwinIs, AddressIs
      <4>2. Len(p) = Len(n) + 1 /\ Len(p) - 1 = Len(n) BY <1>0, <1>1, <4>1
      <4>3. t = "index" /\ Above(p, Len(n)) = n BY <1>1, <4>1, <4>2
      <4>4. p \in ChildrenOf(T, n, "branch") BY <3>1, <3>2, <4>2, <4>3 DEF ChildrenOf
      <4> QED BY <4>3, <4>4 DEF HasBranches
    <3> QED BY <1>2, <3>2, <3>3
  <2> QED BY <2>1, <2>2, <2>3, <2>4 DEF Sprung
<1>6. Tree(U) BY <1>3, <1>4, <1>5 DEF Tree
<1> QED BY <1>6 DEF U, c

LEMMA PrefixIs ==
  ASSUME NEW c \in Address, NEW p \in Address
  PROVE  IsPrefix(c, p) <=> Len(c) <= Len(p) /\ Above(p, Len(c)) = c
<1>1. Above(c, Len(c)) = c BY AboveAll DEF Address
<1> QED BY <1>1 DEF IsPrefix, Above

\* What is left when the subtree of a position goes.
LEMMA RemoveIs ==
  ASSUME NEW T, Tree(T), NEW c \in Address
  PROVE  /\ DOMAIN WithoutSubtree(T, c) \subseteq DOMAIN T
         /\ \A p \in DOMAIN T : p \in DOMAIN WithoutSubtree(T, c)
                                <=> ~(Len(c) <= Len(p) /\ Above(p, Len(c)) = c)
         /\ \A p \in DOMAIN WithoutSubtree(T, c) : WithoutSubtree(T, c)[p] = T[p]
BY TreeIs, PrefixIs DEF WithoutSubtree

LEMMA RemoveKeepsTree ==
  ASSUME NEW T, Tree(T), NEW c \in Address, c # Root
  PROVE  Tree(WithoutSubtree(T, c))
<1> DEFINE U == WithoutSubtree(T, c)
<1>1. /\ DOMAIN U \subseteq DOMAIN T
      /\ \A p \in DOMAIN T : p \in DOMAIN U <=> ~(Len(c) <= Len(p) /\ Above(p, Len(c)) = c)
      /\ \A p \in DOMAIN U : U[p] = T[p]
  BY RemoveIs
<1> HIDE DEF U
<1>2. IsFiniteSet(DOMAIN U) BY <1>1, FS_Subset DEF Tree
<1>3. Root \in DOMAIN U /\ ~HasValue(U, Root)
  <2>1. Len(Root) = 0 /\ Len(c) \in Nat /\ Len(c) # 0 BY RootIs, AddressIs
  <2> QED BY <1>1, <2>1 DEF Tree, HasValue
<1>4. ASSUME NEW p \in DOMAIN U PROVE Sprung(U, p)
  <2>1. p \in DOMAIN T /\ U[p] = T[p] /\ p \in Address BY <1>1, TreeIs
  <2>2. ASSUME NEW i \in 0 .. Len(p) PROVE Above(p, i) \in DOMAIN U
    <3>1. Above(p, i) \in DOMAIN T BY <2>1, TreeIs
    <3>2. Len(Above(p, i)) = i /\ Len(c) \in Nat /\ Len(p) \in Nat
      BY <2>1, AboveIs, AddressIs DEF Address
    <3>3. ASSUME Len(c) <= i, Above(Above(p, i), Len(c)) = c PROVE FALSE
      <4>1. Len(c) <= Len(p) /\ Len(c) \in 0 .. i BY <3>2, <3>3
      <4>2. Above(p, Len(c)) = c BY <2>1, <3>3, <4>1, AboveAbove DEF Address
      <4> QED BY <1>1, <2>1, <4>1, <4>2
    <3> QED BY <1>1, <3>1, <3>2, <3>3
  <2>3. p # Root /\ HasValue(U, p) => p[Len(p)].track = "branch" /\ Twin(p) \notin DOMAIN U
    BY <1>1, <2>1, TreeIs DEF HasValue
  <2> QED BY <2>1, <2>2, <2>3, TreeIs DEF Sprung
<1> QED BY <1>2, <1>3, <1>4 DEF Tree, U

\* A value at a branch without a twin.
LEMMA SetKeepsTree ==
  ASSUME NEW T, Tree(T), NEW n \in DOMAIN T, n # Root, NEW v,
         n[Len(n)].track = "branch", Twin(n) \notin DOMAIN T
  PROVE  /\ Tree([T EXCEPT ![n] = v])
         /\ DOMAIN [T EXCEPT ![n] = v] = DOMAIN T
         /\ [T EXCEPT ![n] = v][n] = v
         /\ \A p \in DOMAIN T \ {n} : [T EXCEPT ![n] = v][p] = T[p]
<1> DEFINE U == [T EXCEPT ![n] = v]
<1>1. DOMAIN U = DOMAIN T /\ U[n] = v /\ \A p \in DOMAIN T \ {n} : U[p] = T[p]
  OBVIOUS
<1> HIDE DEF U
<1>2. Root \in DOMAIN U /\ ~HasValue(U, Root) BY <1>1 DEF Tree, HasValue
<1>3. ASSUME NEW p \in DOMAIN U PROVE Sprung(U, p)
  <2>1. p # Root /\ HasValue(U, p) => p[Len(p)].track = "branch" /\ Twin(p) \notin DOMAIN U
    <3>1. CASE p = n BY <1>1, <3>1
    <3>2. CASE p # n BY <1>1, <3>2, TreeIs DEF HasValue
    <3> QED BY <3>1, <3>2
  <2> QED BY <1>1, <2>1, TreeIs DEF Sprung
<1>4. Tree(U) BY <1>1, <1>2, <1>3 DEF Tree
<1> QED BY <1>1, <1>4 DEF U
-----------------------------------------------------------------------------
(* Demotion. *)

\* The branches of n that an index of n writes over.
Replaced(T, n, p) ==
    IsBelow(p, n, "branch") /\ OnTrack(Above(p, Len(n) + 1), n, "index") \in DOMAIN T

Stays(T, n, p) == p \in DOMAIN T /\ ~IsBelow(p, n, "index") /\ ~Replaced(T, n, p)

LEMMA BelowIs ==
  ASSUME NEW p \in Address, NEW n \in Address, NEW t, IsBelow(p, n, t)
  PROVE  /\ Len(p) \in Nat /\ Len(n) \in Nat /\ Len(p) > Len(n)
         /\ Len(n) + 1 \in 1 .. Len(p) /\ Len(n) \in 0 .. Len(p)
         /\ Above(p, Len(n)) = n /\ p[Len(n) + 1].track = t
         /\ Above(p, Len(n) + 1) \in Address /\ Len(Above(p, Len(n) + 1)) = Len(n) + 1
         /\ IsBelow(Above(p, Len(n) + 1), n, t)
<1>1. /\ Len(p) \in Nat /\ Len(n) \in Nat /\ Len(p) > Len(n)
      /\ Above(p, Len(n)) = n /\ p[Len(n) + 1].track = t
  BY AddressIs DEF IsBelow
<1>2. Len(n) + 1 \in 1 .. Len(p) /\ Len(n) + 1 \in 0 .. Len(p) /\ Len(n) \in 0 .. Len(p)
      /\ Len(n) \in 0 .. Len(n) + 1 /\ Len(n) + 1 \in 1 .. Len(n) + 1
  BY <1>1
<1>3. /\ Above(p, Len(n) + 1) \in Address /\ Len(Above(p, Len(n) + 1)) = Len(n) + 1
      /\ Above(p, Len(n) + 1)[Len(n) + 1] = p[Len(n) + 1]
  BY <1>2, AboveIs DEF Address
<1>4. Above(Above(p, Len(n) + 1), Len(n)) = n BY <1>1, <1>2, AboveAbove DEF Address
<1> QED BY <1>1, <1>2, <1>3, <1>4 DEF IsBelow

\* The positions move to the branches, and back they would be the same.
LEMMA MoveIs ==
  ASSUME NEW p \in Address, NEW n \in Address, IsBelow(p, n, "index")
  PROVE  /\ OnTrack(p, n, "branch") \in Address /\ Len(OnTrack(p, n, "branch")) = Len(p)
         /\ IsBelow(OnTrack(p, n, "branch"), n, "branch")
         /\ OnTrack(OnTrack(p, n, "branch"), n, "index") = p
         /\ Segs(OnTrack(p, n, "branch")) = Segs(p)
         /\ OnTrack(Above(OnTrack(p, n, "branch"), Len(n) + 1), n, "index") = Above(p, Len(n) + 1)
<1> DEFINE q == OnTrack(p, n, "branch")
<1>1. /\ Len(p) \in Nat /\ Len(n) \in Nat /\ Len(p) > Len(n)
      /\ Len(n) + 1 \in 1 .. Len(p) /\ Len(n) \in 0 .. Len(p)
      /\ Above(p, Len(n)) = n /\ p[Len(n) + 1].track = "index"
      /\ Above(p, Len(n) + 1) \in Address /\ Len(Above(p, Len(n) + 1)) = Len(n) + 1
      /\ IsBelow(Above(p, Len(n) + 1), n, "index")
  BY BelowIs
<1>2. /\ q \in Address /\ Len(q) = Len(p) /\ q[Len(n) + 1].track = "branch"
      /\ Segs(q) = Segs(p)
  BY <1>1, OnTrackIs
<1>3. Above(q, Len(n)) = n
  <2>1. Len(n) <= Len(n) BY <1>1
  <2> QED BY <1>1, <2>1, OnTrackAbove
<1>4. OnTrack(q, n, "index") = p BY <1>1, OnTrackTwice
<1>5. Above(q, Len(n) + 1) = OnTrack(Above(p, Len(n) + 1), n, "branch")
  <2>1. Len(n) + 1 \in 0 .. Len(p) /\ ~(Len(n) + 1 <= Len(n)) BY <1>1
  <2> QED BY <1>1, <2>1, OnTrackAbove
<1>6. OnTrack(OnTrack(Above(p, Len(n) + 1), n, "branch"), n, "index") = Above(p, Len(n) + 1)
  <2> DEFINE r == Above(p, Len(n) + 1)
  <2>1. r \in Address /\ Len(r) > Len(n) /\ r[Len(n) + 1].track = "index"
    BY <1>1 DEF IsBelow
  <2> HIDE DEF r
  <2>2. OnTrack(OnTrack(r, n, "branch"), n, "index") = r BY <2>1, OnTrackTwice
  <2> QED BY <2>2 DEF r
<1> QED BY <1>1, <1>2, <1>3, <1>4, <1>5, <1>6 DEF IsBelow

\* What demotion keeps, where it moves the rest, and that nothing is new.
LEMMA DemotedIs ==
  ASSUME NEW T, Tree(T), NEW n \in DOMAIN T
  PROVE  /\ IsFiniteSet(DOMAIN Demoted(T, n))
         /\ \A p : Stays(T, n, p) => p \in DOMAIN Demoted(T, n) /\ Demoted(T, n)[p] = T[p]
         /\ \A p \in DOMAIN T : IsBelow(p, n, "index") =>
               /\ OnTrack(p, n, "branch") \in DOMAIN Demoted(T, n)
               /\ Demoted(T, n)[OnTrack(p, n, "branch")] = T[p]
         /\ \A q \in DOMAIN Demoted(T, n) :
               \/ Stays(T, n, q)
               \/ \E p \in DOMAIN T : IsBelow(p, n, "index") /\ q = OnTrack(p, n, "branch")
<1> DEFINE indices == {p \in DOMAIN T : IsBelow(p, n, "index")}
           moved == {OnTrack(p, n, "branch") : p \in indices}
           replaced == {p \in DOMAIN T : Replaced(T, n, p)}
           kept == DOMAIN T \ (indices \cup replaced)
           U == [p \in kept \cup moved |->
                   IF p \in kept THEN T[p] ELSE T[OnTrack(p, n, "index")]]
<1>1. Demoted(T, n) = U BY DEF Demoted, Replaced
<1>2. \A p : p \in kept <=> Stays(T, n, p) BY DEF Stays
<1>3. IsFiniteSet(kept \cup moved)
  <2>1. IsFiniteSet(DOMAIN T) /\ indices \subseteq DOMAIN T /\ kept \subseteq DOMAIN T BY DEF Tree
  <2>2. IsFiniteSet(indices) /\ IsFiniteSet(kept) BY <2>1, FS_Subset
  <2>3. IsFiniteSet(moved)
    <3> DEFINE f == [p \in indices |-> OnTrack(p, n, "branch")]
    <3>1. f \in Surjection(indices, moved) BY DEF Surjection
    <3> HIDE DEF f, moved, indices
    <3> QED BY <2>2, <3>1, FS_Surjection
  <2> QED BY <2>2, <2>3, FS_Union
<1>4. ASSUME NEW p \in indices
      PROVE  OnTrack(p, n, "branch") \notin kept /\ OnTrack(OnTrack(p, n, "branch"), n, "index") = p
  <2>1. p \in Address /\ n \in Address /\ IsBelow(p, n, "index") /\ Len(n) \in Nat
        /\ Len(n) + 1 \in 0 .. Len(p)
    <3>1. p \in Address /\ n \in Address /\ IsBelow(p, n, "index") BY TreeIs
    <3>2. Len(p) \in Nat /\ Len(n) \in Nat /\ Len(n) + 1 \in 1 .. Len(p) BY <3>1, BelowIs
    <3> QED BY <3>1, <3>2
  <2>2. Above(p, Len(n) + 1) \in DOMAIN T BY <2>1, TreeIs
  <2>3. Replaced(T, n, OnTrack(p, n, "branch")) BY <2>1, <2>2, MoveIs DEF Replaced
  <2> QED BY <1>2, <2>1, <2>3, MoveIs DEF Stays
<1>5. \A p \in kept : p \in DOMAIN U /\ U[p] = T[p] OBVIOUS
<1>6. ASSUME NEW p \in indices
      PROVE  OnTrack(p, n, "branch") \in DOMAIN U /\ U[OnTrack(p, n, "branch")] = T[p]
  <2>1. OnTrack(p, n, "branch") \in moved OBVIOUS
  <2> HIDE DEF moved, indices, kept
  <2> QED BY <1>4, <2>1
<1>7. DOMAIN U = kept \cup moved OBVIOUS
<1> HIDE DEF U, kept
<1> QED BY <1>1, <1>2, <1>3, <1>5, <1>6, <1>7

\* The sibling of a moved node is moved along.
LEMMA TwinMoves ==
  ASSUME NEW p \in Address, NEW r \in Address, NEW n \in Address,
         IsBelow(p, n, "index"), IsBelow(r, n, "index"), Len(p) > Len(n) + 1,
         OnTrack(r, n, "branch") = Twin(OnTrack(p, n, "branch"))
  PROVE  r = Twin(p)
<1> DEFINE q == OnTrack(p, n, "branch")
           s == OnTrack(r, n, "branch")
           d == Len(n) + 1
<1>1. Len(p) \in Nat /\ Len(n) \in Nat /\ d \in 1 .. Len(p) /\ p[d].track = "index"
  BY BelowIs
<1>2. Len(r) \in Nat /\ d \in 1 .. Len(r) /\ r[d].track = "index" /\ Len(r) > Len(n)
  BY BelowIs
<1>3. /\ q \in Address /\ Len(q) = Len(p) /\ q[d].track = "branch"
      /\ \A i \in 1 .. Len(p) : q[i].seg = p[i].seg
      /\ \A i \in (1 .. Len(p)) \ {d} : q[i] = p[i]
  BY OnTrackIs
<1>4. /\ s \in Address /\ Len(s) = Len(r) /\ s[d].track = "branch"
      /\ \A i \in 1 .. Len(r) : s[i].seg = r[i].seg
      /\ \A i \in (1 .. Len(r)) \ {d} : s[i] = r[i]
  BY <1>2, OnTrackIs
<1>5. /\ p # Root /\ q # Root BY <1>1, <1>3, RootIs
<1>6. /\ Twin(p) \in Address /\ Len(Twin(p)) = Len(p)
      /\ Twin(p)[Len(p)].track = "index"
      /\ \A i \in 1 .. Len(p) : Twin(p)[i].seg = p[i].seg
      /\ \A i \in (1 .. Len(p)) \ {Len(p)} : Twin(p)[i] = p[i]
  BY <1>5, TwinIs, TwinSteps
<1> HIDE DEF q, s
<1>7. /\ Len(Twin(q)) = Len(q) /\ Twin(q)[Len(q)].track = "index"
      /\ \A i \in 1 .. Len(q) : Twin(q)[i].seg = q[i].seg
      /\ \A i \in (1 .. Len(q)) \ {Len(q)} : Twin(q)[i] = q[i]
  BY <1>3, <1>5, TwinIs, TwinSteps
<1>8. s = Twin(q) BY DEF s, q
<1>9. Len(r) = Len(p) BY <1>3, <1>4, <1>7, <1>8
<1>10. ASSUME NEW i \in 1 .. Len(p)
       PROVE  r[i].track = Twin(p)[i].track /\ r[i].seg = Twin(p)[i].seg
  <2>1. r[i].seg = Twin(p)[i].seg BY <1>3, <1>4, <1>6, <1>7, <1>8, <1>9
  <2>2. CASE i = d BY <1>1, <1>2, <1>6, <2>1, <2>2
  <2>3. CASE i = Len(p) BY <1>1, <1>3, <1>4, <1>6, <1>7, <1>8, <1>9, <2>1, <2>3
  <2>4. CASE i # d /\ i # Len(p) BY <1>3, <1>4, <1>6, <1>7, <1>8, <1>9, <2>1, <2>4
  <2> QED BY <2>2, <2>3, <2>4
<1> QED BY <1>6, <1>9, <1>10, SameAddress

\* A branch with an index of the same key above it on the way is replaced.
LEMMA MovedOverIsReplaced ==
  ASSUME NEW T, Tree(T), NEW n \in Address, NEW p \in DOMAIN T, IsBelow(p, n, "index"),
         NEW q \in Address, Len(q) > Len(n),
         Above(q, Len(n) + 1) = Above(OnTrack(p, n, "branch"), Len(n) + 1)
  PROVE  Replaced(T, n, q)
<1> DEFINE r == OnTrack(p, n, "branch")
           d == Len(n) + 1
<1>0. p \in Address BY TreeIs
<1>1. /\ Len(p) \in Nat /\ Len(n) \in Nat /\ d \in 1 .. Len(p) /\ d \in 0 .. Len(p)
  <2>1. Len(p) \in Nat /\ Len(n) \in Nat /\ d \in 1 .. Len(p) BY <1>0, BelowIs
  <2> QED BY <2>1
<1>2. /\ r \in Address /\ Len(r) = Len(p) /\ IsBelow(r, n, "branch")
      /\ OnTrack(Above(r, d), n, "index") = Above(p, d)
  BY <1>0, MoveIs
<1> HIDE DEF r
<1>3. Above(r, Len(n)) = n /\ r[d].track = "branch" /\ IsBelow(Above(r, d), n, "branch")
  BY <1>2, BelowIs
<1>4. Above(p, d) \in DOMAIN T BY <1>1, TreeIs
<1>5. Above(q, d) = Above(r, d) BY DEF r
<1>6. Len(q) \in Nat /\ d \in 0 .. Len(q) /\ Len(n) \in 0 .. d /\ d \in 1 .. d
  <2>1. Len(q) \in Nat BY AddressIs
  <2> QED BY <1>1, <2>1
<1>7. Above(q, Len(n)) = n
  <2>1. Above(Above(q, d), Len(n)) = Above(q, Len(n)) BY <1>6, AboveAbove DEF Address
  <2>2. Above(Above(r, d), Len(n)) = Above(r, Len(n)) BY <1>1, <1>2, <1>6, AboveAbove DEF Address
  <2> QED BY <1>3, <1>5, <2>1, <2>2
<1>8. q[d].track = "branch"
  <2>1. Above(q, d)[d] = q[d] BY <1>6, AboveIs DEF Address
  <2> QED BY <1>3, <1>5, <2>1 DEF IsBelow
<1>9. IsBelow(q, n, "branch") BY <1>7, <1>8 DEF IsBelow
<1> QED BY <1>2, <1>4, <1>5, <1>9 DEF Replaced

LEMMA DemoteKeepsTree ==
  ASSUME NEW T, Tree(T), NEW n \in DOMAIN T
  PROVE  Tree(Demoted(T, n))
<1> DEFINE U == Demoted(T, n)
           d == Len(n) + 1
<1>0. n \in Address /\ Len(n) \in Nat BY TreeIs
<1>1. /\ IsFiniteSet(DOMAIN U)
      /\ \A p : Stays(T, n, p) => p \in DOMAIN U /\ U[p] = T[p]
      /\ \A p \in DOMAIN T : IsBelow(p, n, "index") =>
            OnTrack(p, n, "branch") \in DOMAIN U /\ U[OnTrack(p, n, "branch")] = T[p]
      /\ \A q \in DOMAIN U :
            \/ Stays(T, n, q)
            \/ \E p \in DOMAIN T : IsBelow(p, n, "index") /\ q = OnTrack(p, n, "branch")
  BY DemotedIs
<1> HIDE DEF U
<1>2. Root \in DOMAIN U /\ ~HasValue(U, Root)
  <2>1. Len(Root) = 0 /\ ~(Len(Root) > Len(n)) BY <1>0, RootIs
  <2>2. Stays(T, n, Root) BY <2>1 DEF Stays, Replaced, IsBelow, Tree
  <2> QED BY <1>1, <2>2 DEF Tree, HasValue
<1>3. ASSUME NEW q \in DOMAIN U, Stays(T, n, q) PROVE Sprung(U, q)
  <2>1. q \in DOMAIN T /\ q \in Address /\ Len(q) \in Nat /\ U[q] = T[q]
    BY <1>1, <1>3, TreeIs DEF Stays
  <2>2. ASSUME NEW i \in 0 .. Len(q) PROVE Above(q, i) \in DOMAIN U
    <3> DEFINE r == Above(q, i)
    <3>1. r \in DOMAIN T /\ r \in Address /\ Len(r) = i BY <2>1, TreeIs, AboveIs DEF Address
    <3>2. ASSUME NEW t, IsBelow(r, n, t)
          PROVE  IsBelow(q, n, t) /\ Above(r, d) = Above(q, d)
      <4>1. i > Len(n) /\ Above(r, Len(n)) = n /\ r[d].track = t BY <3>1, <3>2 DEF IsBelow
      <4>2. d \in 1 .. i /\ d \in 0 .. i /\ Len(n) \in 0 .. i BY <1>0, <4>1
      <4>3. r[d] = q[d] BY <2>1, <4>2, AboveIs DEF Address
      <4>4. Above(r, Len(n)) = Above(q, Len(n)) /\ Above(r, d) = Above(q, d)
        BY <2>1, <4>2, AboveAbove DEF Address
      <4>5. Len(q) > Len(n) BY <1>0, <2>1, <4>1
      <4> QED BY <4>1, <4>3, <4>4, <4>5 DEF IsBelow
    <3> HIDE DEF r
    <3>3. Stays(T, n, r) BY <1>3, <3>1, <3>2 DEF Stays, Replaced
    <3> QED BY <1>1, <3>3 DEF r
  <2>3. ASSUME q # Root, HasValue(U, q)
        PROVE  q[Len(q)].track = "branch" /\ Twin(q) \notin DOMAIN U
    <3>1. q[Len(q)].track = "branch" /\ Twin(q) \notin DOMAIN T
      BY <2>1, <2>3, TreeIs DEF HasValue
    <3>2. ~Stays(T, n, Twin(q)) BY <3>1 DEF Stays
    <3>3. ASSUME NEW p \in DOMAIN T, IsBelow(p, n, "index"), Twin(q) = OnTrack(p, n, "branch")
          PROVE  FALSE
      <4>1. p \in Address BY TreeIs
      <4>2. /\ Twin(q) \in Address /\ Len(Twin(q)) = Len(p) /\ Len(Twin(q)) = Len(q)
            /\ Twin(q)[Len(q)].track = "index"
            /\ Above(Twin(q), Len(q) - 1) = Above(q, Len(q) - 1)
        BY <2>1, <2>3, <3>3, <4>1, <1>0, MoveIs, TwinIs
      <4>3. Twin(q)[d].track = "branch" /\ Len(q) > Len(n)
        BY <1>0, <3>3, <4>1, <4>2, MoveIs, BelowIs
      <4>4. Len(q) # d BY <4>2, <4>3
      <4>5. d \in 0 .. Len(q) - 1 /\ Len(q) - 1 \in 0 .. Len(q) BY <1>0, <2>1, <4>3, <4>4
      <4>6. Above(q, d) = Above(Twin(q), d)
        <5>1. Above(Above(q, Len(q) - 1), d) = Above(q, d)
          BY <2>1, <4>5, AboveAbove DEF Address
        <5>2. Above(Above(Twin(q), Len(q) - 1), d) = Above(Twin(q), d)
          BY <4>2, <4>5, AboveAbove DEF Address
        <5> QED BY <4>2, <5>1, <5>2
      <4>7. Replaced(T, n, q) BY <1>0, <2>1, <3>3, <4>3, <4>6, MovedOverIsReplaced
      <4> QED BY <1>3, <4>7 DEF Stays
    <3> QED BY <1>1, <3>1, <3>2, <3>3
  <2> QED BY <2>1, <2>2, <2>3, TreeIs DEF Sprung
<1>4. ASSUME NEW q \in DOMAIN U, NEW p \in DOMAIN T, IsBelow(p, n, "index"),
             q = OnTrack(p, n, "branch")
      PROVE  Sprung(U, q)
  <2>1. p \in Address /\ Len(p) \in Nat /\ p[d].track = "index" /\ Len(p) > Len(n)
        /\ d \in 1 .. Len(p) /\ Above(p, Len(n)) = n
    BY <1>0, <1>4, TreeIs, BelowIs
  <2>2. /\ q \in Address /\ Len(q) = Len(p) /\ q[d].track = "branch"
        /\ \A i \in 1 .. Len(p) : q[i].seg = p[i].seg
        /\ \A i \in (1 .. Len(p)) \ {d} : q[i] = p[i]
    BY <1>0, <1>4, <2>1, OnTrackIs
  <2>3. U[q] = T[p] BY <1>1, <1>4
  <2>4. ASSUME NEW i \in 0 .. Len(q) PROVE Above(q, i) \in DOMAIN U
    <3>1. Above(p, i) \in DOMAIN T /\ Above(p, i) \in Address /\ Len(Above(p, i)) = i
      BY <2>1, <2>2, TreeIs, AboveIs DEF Address
    <3>2. CASE i <= Len(n)
      <4>1. Above(q, i) = Above(p, i) BY <1>0, <1>4, <2>1, <2>2, <3>2, OnTrackAbove
      <4>2. Stays(T, n, Above(p, i)) BY <1>0, <3>1, <3>2 DEF Stays, Replaced, IsBelow
      <4> QED BY <1>1, <4>1, <4>2
    <3>3. CASE ~(i <= Len(n))
      <4>1. Above(q, i) = OnTrack(Above(p, i), n, "branch")
        BY <1>0, <1>4, <2>1, <2>2, <3>3, OnTrackAbove
      <4>2. d \in 1 .. i /\ Len(n) \in 0 .. i /\ i > Len(n) BY <1>0, <2>1, <2>2, <3>3
      <4>3. Above(p, i)[d] = p[d] /\ Above(Above(p, i), Len(n)) = Above(p, Len(n))
        BY <2>1, <2>2, <4>2, AboveIs, AboveAbove DEF Address
      <4>4. IsBelow(Above(p, i), n, "index") BY <2>1, <3>1, <4>2, <4>3 DEF IsBelow
      <4> QED BY <1>1, <3>1, <4>1, <4>4
    <3> QED BY <3>2, <3>3
  <2>5. ASSUME NEW i \in 1 .. Len(q), q[i].track = "index" PROVE IsIndex(q[i].seg)
    <3>1. i # d /\ i \in 1 .. Len(p) BY <2>2, <2>5
    <3>2. q[i] = p[i] BY <2>2, <3>1
    <3> QED BY <2>5, <3>1, <3>2, TreeIs
  <2>6. ASSUME HasValue(U, q)
        PROVE  q[Len(q)].track = "branch" /\ Twin(q) \notin DOMAIN U
    <3>1. HasValue(T, p) BY <2>3, <2>6 DEF HasValue
    <3>2. p # Root /\ p[Len(p)].track = "branch" /\ Twin(p) \notin DOMAIN T BY <3>1, TreeIs
    <3>3. Len(p) # d /\ Len(p) > d /\ Len(p) \in 1 .. Len(p) BY <1>0, <2>1, <3>2
    <3>4. q[Len(q)] = p[Len(p)] BY <2>2, <3>3
    <3>5. q # Root BY <2>1, <2>2, RootIs
    <3>6. /\ Twin(q) \in Address /\ Len(Twin(q)) = Len(q)
          /\ Above(Twin(q), Len(q) - 1) = Above(q, Len(q) - 1)
      BY <2>2, <3>5, TwinIs
    <3>7. d \in 0 .. Len(q) - 1 /\ Len(q) - 1 \in 0 .. Len(q) BY <1>0, <2>1, <2>2, <3>3
    <3>8. Above(Twin(q), d) = Above(q, d)
      <4>1. Above(Above(q, Len(q) - 1), d) = Above(q, d)
        BY <2>2, <3>7, AboveAbove DEF Address
      <4>2. Above(Above(Twin(q), Len(q) - 1), d) = Above(Twin(q), d)
        BY <3>6, <3>7, AboveAbove DEF Address
      <4> QED BY <3>6, <4>1, <4>2
    <3>9. Replaced(T, n, Twin(q))
      <4>1. Len(Twin(q)) > Len(n) BY <2>1, <2>2, <3>6
      <4> QED BY <1>0, <1>4, <3>6, <3>8, <4>1, MovedOverIsReplaced
    <3>10. ASSUME NEW r \in DOMAIN T, IsBelow(r, n, "index"), Twin(q) = OnTrack(r, n, "branch")
           PROVE  FALSE
      <4>1. r \in Address BY TreeIs
      <4>2. r = Twin(p) BY <1>0, <1>4, <2>1, <3>3, <3>10, <4>1, TwinMoves
      <4> QED BY <3>2, <4>2
    <3> QED BY <1>1, <3>2, <3>4, <3>9, <3>10 DEF Stays
  <2> QED BY <2>2, <2>4, <2>5, <2>6 DEF Sprung
<1>5. Tree(U) BY <1>1, <1>2, <1>3, <1>4 DEF Tree
<1> QED BY <1>5 DEF U
-----------------------------------------------------------------------------
(* The trie and the paths.  Each node is on the way of some path.  Where   *)
(* all paths that pass a node go on through positions, its children are    *)
(* all positions or, after a value has demoted them, all branches.  When   *)
(* no path clashes, a path leads to one node at most.                      *)

OnTheWay(T, P) ==
    \A n \in DOMAIN T \ {Root} : \E p \in P :
        /\ Len(n) <= Len(p) /\ Segs(n) = Above(p, Len(n))
        /\ n[Len(n)].track = "index" => Len(n) < Len(p)

AtRest(T, P) ==
    \A n \in DOMAIN T : \A p \in P :
        Indexes(p, Segs(n)) /\ ~Mixes(P, Segs(n)) /\ HasBranches(T, n)
        => HasValue(T, n) /\ ~HasIndices(T, n)

Single(T, P) ==
    (\A p \in P : ~Clashes(P, p)) =>
        \A m, n \in DOMAIN T : Segs(m) = Segs(n) => m = n

Grown(T, P) == OnTheWay(T, P) /\ AtRest(T, P) /\ Single(T, P)

\* A path that leads to node n passes it by a position or not.
LEMMA PassesIs ==
  ASSUME NEW n \in Address, NEW p \in Seq(PathSeg), Len(n) < Len(p), Segs(n) = Above(p, Len(n))
  PROVE  /\ Passes(p, Segs(n)) /\ Len(Segs(n)) = Len(n) /\ Len(n) \in Nat /\ Len(p) \in Nat
         /\ Indexes(p, Segs(n)) <=> IsIndex(p[Len(n) + 1]) /\ Len(n) + 1 < Len(p)
         /\ (n = Root <=> Segs(n) = Root)
<1>1. Len(Segs(n)) = Len(n) /\ Len(n) \in Nat /\ Len(p) \in Nat /\ Segs(n) \in Seq(PathSeg)
  BY SegsTyped, AddressIs, LenProperties
<1>2. Passes(p, Segs(n)) BY <1>1 DEF Passes
<1>3. Indexes(p, Segs(n)) <=> IsIndex(p[Len(n) + 1]) /\ Len(n) + 1 < Len(p)
  BY <1>1, <1>2 DEF Indexes
<1>4. n = Root <=> Segs(n) = Root
  <2>1. n = Root => Len(n) = 0 BY RootIs
  <2>2. Len(n) = 0 => n = Root BY RootIs
  <2>3. Segs(n) = Root => Len(Segs(n)) = 0 BY RootIs
  <2>4. Len(Segs(n)) = 0 => Segs(n) = Root BY <1>1, EmptySeq DEF Root
  <2> QED BY <1>1, <2>1, <2>2, <2>3, <2>4
<1> QED BY <1>1, <1>2, <1>3, <1>4

\* A path that does not clash goes through positions of nodes that mix nothing.
LEMMA NoClashIs ==
  ASSUME NEW P, NEW n \in Address, NEW p \in Seq(PathSeg), Len(n) < Len(p),
         Segs(n) = Above(p, Len(n)), Indexes(p, Segs(n)), ~Clashes(P, p)
  PROVE  ~Mixes(P, Segs(n))
<1>1. Len(n) \in Nat /\ Len(p) \in Nat /\ IsIndex(p[Len(n) + 1]) /\ Len(n) + 1 < Len(p)
  BY PassesIs
<1>2. Len(n) + 1 \in 1 .. Len(p) - 1 /\ (Len(n) + 1) - 1 = Len(n) BY <1>1
<1> QED BY <1>1, <1>2 DEF Clashes

\* The segments of a child are those of its parent and its own.
LEMMA SegsOfChild ==
  ASSUME NEW c \in Address, NEW n \in Address, Len(c) = Len(n) + 1, Above(c, Len(n)) = n
  PROVE  /\ Above(Segs(c), Len(n)) = Segs(n) /\ Segs(c)[Len(n) + 1] = c[Len(n) + 1].seg
         /\ \A p : Len(c) <= Len(p) /\ p \in Seq(PathSeg) /\ Segs(c) = Above(p, Len(c))
                   => Len(n) < Len(p) /\ Segs(n) = Above(p, Len(n)) /\ p[Len(n) + 1] = c[Len(n) + 1].seg
<1>1. Len(n) \in Nat /\ Len(c) \in Nat /\ Len(n) \in 0 .. Len(c) /\ Len(n) + 1 \in 1 .. Len(c)
  BY AddressIs
<1>2. Above(Segs(c), Len(n)) = Segs(n) BY <1>1, SegsAbove
<1>3. Segs(c)[Len(n) + 1] = c[Len(n) + 1].seg BY <1>1, SegsTyped
<1>4. ASSUME NEW p, Len(c) <= Len(p), p \in Seq(PathSeg), Segs(c) = Above(p, Len(c))
      PROVE  Len(n) < Len(p) /\ Segs(n) = Above(p, Len(n)) /\ p[Len(n) + 1] = c[Len(n) + 1].seg
  <2>1. Len(p) \in Nat /\ Len(c) \in 0 .. Len(p) BY <1>1, <1>4, LenProperties
  <2>2. Above(Above(p, Len(c)), Len(n)) = Above(p, Len(n)) BY <1>1, <1>4, <2>1, AboveAbove
  <2>3. Above(p, Len(c))[Len(n) + 1] = p[Len(n) + 1] BY <1>1, <1>4, <2>1, AboveIs
  <2> QED BY <1>1, <1>2, <1>3, <1>4, <2>1, <2>2, <2>3
<1> QED BY <1>2, <1>3, <1>4

LEMMA RemoveKeepsGrown ==
  ASSUME NEW T, Tree(T), NEW P, Grown(T, P), NEW c \in Address
  PROVE  Grown(WithoutSubtree(T, c), P)
<1> DEFINE U == WithoutSubtree(T, c)
<1>1. DOMAIN U \subseteq DOMAIN T /\ \A p \in DOMAIN U : U[p] = T[p] BY RemoveIs
<1> HIDE DEF U
<1>2. OnTheWay(U, P) BY <1>1 DEF Grown, OnTheWay
<1>3. \A n, t : ChildrenOf(U, n, t) \subseteq ChildrenOf(T, n, t) BY <1>1 DEF ChildrenOf
<1>4. AtRest(U, P)
  BY <1>1, <1>3 DEF Grown, AtRest, HasValue, HasBranches, HasIndices
<1>5. Single(U, P) BY <1>1 DEF Grown, Single
<1> QED BY <1>2, <1>4, <1>5 DEF Grown, U

\* The child at the next segment of a path that leads to n.
LEMMA NextIs ==
  ASSUME NEW n \in Address, NEW k \in Seq(PathSeg), Len(n) < Len(k), Segs(n) = Above(k, Len(n)),
         NEW t \in {"branch", "index"}, NEW s, s = k[Len(n) + 1]
  PROVE  s \in PathSeg /\ Len(n) + 1 <= Len(k) /\ Segs(Child(n, t, s)) = Above(k, Len(n) + 1)
<1> DEFINE c == Child(n, t, s)
<1>1. Len(n) \in Nat /\ Len(k) \in Nat /\ Len(n) + 1 \in 0 .. Len(k) /\ Len(n) \in 0 .. Len(k)
  BY AddressIs, LenProperties
<1>2. s \in PathSeg BY <1>1, ElementOfSeq
<1>3. /\ c \in Address /\ Len(c) = Len(n) + 1
      /\ c[Len(n) + 1].track = t /\ c[Len(n) + 1].seg = s
      /\ \A i \in 1 .. Len(n) : c[i] = n[i]
      /\ \A i \in 0 .. Len(n) : Above(c, i) = Above(n, i)
      /\ Above(c, Len(n)) = n
  <2>1. IsChildOf(c, n, t, s) BY <1>2, IsChild
  <2> HIDE DEF c
  <2> QED BY <2>1 DEF IsChildOf
<1> HIDE DEF c
<1>4. /\ Segs(c) \in Seq(PathSeg) /\ Len(Segs(c)) = Len(n) + 1
      /\ \A i \in 1 .. Len(n) + 1 : Segs(c)[i] = c[i].seg
  BY <1>3, SegsTyped
<1>5. \A i \in 1 .. Len(n) : Segs(n)[i] = n[i].seg BY SegsTyped
<1>6. \A i \in 1 .. Len(n) : Above(k, Len(n))[i] = k[i] BY <1>1, AboveIs
<1>7. /\ Above(k, Len(n) + 1) \in Seq(PathSeg) /\ Len(Above(k, Len(n) + 1)) = Len(n) + 1
      /\ \A i \in 1 .. Len(n) + 1 : Above(k, Len(n) + 1)[i] = k[i]
  BY <1>1, AboveIs
<1>8. ASSUME NEW i \in 1 .. Len(n) + 1 PROVE Segs(c)[i] = Above(k, Len(n) + 1)[i]
  <2>1. CASE i \in 1 .. Len(n) BY <1>3, <1>4, <1>5, <1>6, <1>7, <2>1
  <2>2. CASE i = Len(n) + 1 BY <1>3, <1>4, <1>7, <2>2
  <2> QED BY <1>1, <2>1, <2>2
<1>9. Segs(c) = Above(k, Len(n) + 1) BY <1>4, <1>7, <1>8, SeqEqual
<1> QED BY <1>1, <1>2, <1>9 DEF c

\* A path that passes n by other than a position mixes with one that does not.
LEMMA MixesIs ==
  ASSUME NEW P, NEW n \in Address, NEW k \in P \cap Seq(PathSeg), NEW p \in P,
         Len(n) < Len(k), Segs(n) = Above(k, Len(n)),
         ~IsIndex(k[Len(n) + 1]) \/ Len(n) + 1 = Len(k),
         Indexes(p, Segs(n))
  PROVE  Mixes(P, Segs(n))
<1>1. Passes(k, Segs(n)) /\ ~Indexes(k, Segs(n)) BY PassesIs
<1> QED BY <1>1 DEF Mixes

\* add's steps: a new node for the next segment of one of the paths.
LEMMA GrowKeepsGrown ==
  ASSUME NEW T, Tree(T), NEW P \in SUBSET Seq(PathSeg), Grown(T, P),
         NEW n \in DOMAIN T, NEW k \in P, Len(n) < Len(k), Segs(n) = Above(k, Len(n)),
         NEW t \in {"branch", "index"}, NEW s, s = k[Len(n) + 1],
         t = "index" => IsIndex(s) /\ Len(n) + 1 < Len(k) /\ ~HasBranches(T, n),
         t = "branch" => ~IsIndex(s) \/ Len(n) + 1 = Len(k) \/ HasBranches(T, n)
  PROVE  Grown(WithNode(T, Child(n, t, s)), P)
<1> DEFINE c == Child(n, t, s)
           U == WithNode(T, c)
<1>1. /\ n \in Address /\ Len(n) \in Nat /\ k \in Seq(PathSeg) /\ Len(k) \in Nat
      /\ n \in Address => s \in PathSeg /\ Len(n) + 1 <= Len(k)
  BY TreeIs, LenProperties, NextIs
<1>2. Segs(c) = Above(k, Len(n) + 1) BY <1>1, NextIs
<1>3. /\ c \in Address /\ Len(c) = Len(n) + 1 /\ c[Len(c)].track = t /\ c[Len(c)].seg = s
      /\ Above(c, Len(n)) = n /\ c # Root
  <2>1. n \in Address /\ s \in PathSeg BY <1>1
  <2>2. /\ c \in Address /\ Len(c) = Len(n) + 1
        /\ c[Len(n) + 1].track = t /\ c[Len(n) + 1].seg = s
        /\ \A i \in 1 .. Len(n) : c[i] = n[i]
        /\ \A i \in 0 .. Len(n) : Above(c, i) = Above(n, i)
        /\ Above(c, Len(n)) = n
    <3>1. IsChildOf(c, n, t, s) BY <2>1, IsChild
    <3> HIDE DEF c
    <3> QED BY <3>1 DEF IsChildOf
  <2> HIDE DEF c
  <2>3. c # Root BY <1>1, <2>2, RootIs
  <2> QED BY <2>2, <2>3
<1> HIDE DEF c
<1>4. /\ DOMAIN U = DOMAIN T \cup {c}
      /\ \A p \in DOMAIN T : U[p] = T[p]
  BY DEF WithNode
<1> HIDE DEF U
<1>5. OnTheWay(U, P)
  <2>1. /\ Len(c) <= Len(k) /\ Segs(c) = Above(k, Len(c))
        /\ c[Len(c)].track = "index" => Len(c) < Len(k)
    BY <1>1, <1>2, <1>3
  <2> QED BY <1>4, <2>1 DEF Grown, OnTheWay
<1>6. AtRest(U, P)
  <2> SUFFICES ASSUME NEW m \in DOMAIN U, NEW p \in P, Indexes(p, Segs(m)),
                      ~Mixes(P, Segs(m)), HasBranches(U, m)
               PROVE  HasValue(U, m) /\ ~HasIndices(U, m)
    BY DEF AtRest
  <2>1. ASSUME NEW u, NEW w \in ChildrenOf(U, m, u), w \notin ChildrenOf(T, m, u)
        PROVE  w = c /\ m = n /\ u = t
    BY <1>3, <1>4, <2>1 DEF ChildrenOf
  <2>2. CASE m \notin DOMAIN T
    <3>1. PICK w : w \in ChildrenOf(U, m, "branch") BY DEF HasBranches
    <3>2. m # n BY <2>2
    <3>3. w \in ChildrenOf(T, m, "branch") BY <2>1, <3>1, <3>2
    <3>4. w \in DOMAIN T /\ Len(w) = Len(m) + 1 /\ Above(w, Len(m)) = m
      BY <3>3 DEF ChildrenOf
    <3>5. m = c BY <1>4, <2>2
    <3>6. Len(m) \in 0 .. Len(w) BY <1>1, <1>3, <3>4, <3>5
    <3> QED BY <2>2, <3>4, <3>6, TreeIs
  <2>3. CASE m \in DOMAIN T /\ HasBranches(T, m)
    <3>1. HasValue(T, m) /\ ~HasIndices(T, m) BY <2>3 DEF Grown, AtRest
    <3>2. HasValue(U, m) BY <1>4, <2>3, <3>1 DEF HasValue
    <3>3. ASSUME NEW w \in ChildrenOf(U, m, "index") PROVE FALSE
      <4>1. m = n /\ t = "index" BY <2>1, <3>1, <3>3 DEF HasIndices
      <4> QED BY <2>3, <4>1
    <3> QED BY <3>2, <3>3 DEF HasIndices
  <2>4. CASE m \in DOMAIN T /\ ~HasBranches(T, m)
    <3>1. m = n /\ t = "branch" BY <2>1, <2>4 DEF HasBranches
    <3>2. ~IsIndex(k[Len(n) + 1]) \/ Len(n) + 1 = Len(k) BY <2>4, <3>1
    <3>3. Mixes(P, Segs(n)) BY <1>1, <3>1, <3>2, MixesIs
    <3> QED BY <3>1, <3>3
  <2> QED BY <2>2, <2>3, <2>4
<1>7. Single(U, P)
  <2> SUFFICES ASSUME \A p \in P : ~Clashes(P, p), c \notin DOMAIN T,
                      NEW m \in DOMAIN T, Segs(m) = Segs(c)
               PROVE  FALSE
    BY <1>4 DEF Grown, Single
  <2>1. m \in Address /\ Len(m) \in Nat /\ \A i \in 0 .. Len(m) : Above(m, i) \in DOMAIN T
    BY TreeIs
  <2>2. Len(m) = Len(n) + 1 BY <1>3, <2>1, SegsTyped
  <2>3. Len(n) \in 0 .. Len(m) /\ Len(m) \in 1 .. Len(m) BY <1>1, <2>2
  <2>4. Segs(Above(m, Len(n))) = Segs(n)
    <3>1. Segs(Above(m, Len(n))) = Above(Segs(m), Len(n)) BY <2>1, <2>3, SegsAbove
    <3>2. Segs(n) = Above(Segs(c), Len(n)) BY <1>1, <1>3, SegsOfChild
    <3> QED BY <3>1, <3>2
  <2>5. Above(m, Len(n)) = n
    <3>1. \A x, y \in DOMAIN T : Segs(x) = Segs(y) => x = y BY DEF Grown, Single
    <3>2. Above(m, Len(n)) \in DOMAIN T BY <2>1, <2>3
    <3> QED BY <2>4, <3>1, <3>2
  <2>6. m[Len(m)].seg = s BY <1>1, <1>3, <2>1, <2>2, <2>5, SegsOfChild
  <2>7. m[Len(m)].track \in {"branch", "index"} BY <2>1, <2>3, AddressIs
  <2>8. m[Len(m)].track # t
    <3> SUFFICES ASSUME m[Len(m)].track = t PROVE m = c BY DEF Single
    <3> QED BY <1>1, <2>1, <2>2, <2>5, <2>6, ChildOfParent DEF c
  <2>9. CASE t = "index"
    <3>1. m \in ChildrenOf(T, n, "branch") BY <2>2, <2>5, <2>7, <2>8, <2>9 DEF ChildrenOf
    <3> QED BY <2>9, <3>1 DEF HasBranches
  <2>10. CASE t = "branch"
    <3>1. m[Len(m)].track = "index" BY <2>7, <2>8, <2>10
    <3>2. IsIndex(s) BY <2>3, <2>6, <3>1, TreeIs
    <3>3. m # Root BY <1>1, <2>2, RootIs
    <3>4. PICK p \in P : Len(m) < Len(p) /\ Segs(m) = Above(p, Len(m))
      BY <3>1, <3>3 DEF Grown, OnTheWay
    <3>5. p \in Seq(PathSeg) /\ Len(p) \in Nat /\ Len(m) <= Len(p) BY <2>1, <3>4, LenProperties
    <3>6. Len(n) < Len(p) /\ Segs(n) = Above(p, Len(n)) /\ p[Len(n) + 1] = s
      BY <1>1, <2>1, <2>2, <2>5, <2>6, <3>4, <3>5, SegsOfChild
    <3>7. Indexes(p, Segs(n)) BY <1>1, <2>2, <3>2, <3>4, <3>5, <3>6, PassesIs
    <3>8. ~Mixes(P, Segs(n)) BY <1>1, <3>5, <3>6, <3>7, NoClashIs
    <3>9. HasBranches(T, n) BY <1>1, <2>10, <3>7, <3>8, MixesIs
    <3>10. ~HasIndices(T, n) BY <3>7, <3>8, <3>9 DEF Grown, AtRest
    <3>11. m \in ChildrenOf(T, n, "index") BY <2>2, <2>5, <3>1 DEF ChildrenOf
    <3> QED BY <3>10, <3>11 DEF HasIndices
  <2> QED BY <2>9, <2>10
<1>8. Grown(U, P) BY <1>5, <1>6, <1>7 DEF Grown
<1> QED BY <1>8 DEF U, c

\* A node of the demoted trie comes from one of the trie that spells the same.
LEMMA OriginIs ==
  ASSUME NEW T, Tree(T), NEW n \in DOMAIN T, NEW q \in DOMAIN Demoted(T, n)
  PROVE  \E p \in DOMAIN T :
            /\ Segs(p) = Segs(q) /\ Len(p) = Len(q) /\ Demoted(T, n)[q] = T[p]
            /\ q[Len(q)].track = "index" => p[Len(p)].track = "index"
            /\ \/ Stays(T, n, q) /\ p = q
               \/ IsBelow(p, n, "index") /\ q = OnTrack(p, n, "branch")
<1>1. CASE Stays(T, n, q)
  <2>1. q \in DOMAIN T /\ Demoted(T, n)[q] = T[q] BY <1>1, DemotedIs DEF Stays
  <2> QED BY <1>1, <2>1
<1>2. CASE ~Stays(T, n, q)
  <2>1. PICK p \in DOMAIN T : IsBelow(p, n, "index") /\ q = OnTrack(p, n, "branch")
    BY <1>2, DemotedIs
  <2>2. Demoted(T, n)[q] = T[p] BY <2>1, DemotedIs
  <2>3. n \in Address /\ p \in Address BY TreeIs
  <2>4. /\ Len(p) \in Nat /\ Len(n) \in Nat /\ Len(p) > Len(n) /\ Len(n) + 1 \in 1 .. Len(p)
        /\ p[Len(n) + 1].track = "index"
    BY <2>1, <2>3, BelowIs
  <2>5. Segs(q) = Segs(p) /\ Len(q) = Len(p) BY <2>1, <2>3, MoveIs
  <2>6. \A i \in (1 .. Len(p)) \ {Len(n) + 1} : q[i] = p[i] BY <2>1, <2>3, <2>4, OnTrackIs
  <2>7. q[Len(q)].track = "index" => p[Len(p)].track = "index"
    <3>1. CASE Len(p) = Len(n) + 1 BY <2>4, <3>1
    <3>2. CASE Len(p) # Len(n) + 1
      <4>1. Len(p) \in (1 .. Len(p)) \ {Len(n) + 1} BY <2>4, <3>2
      <4> QED BY <2>5, <2>6, <4>1
    <3> QED BY <3>1, <3>2
  <2> QED BY <2>1, <2>2, <2>5, <2>7
<1> QED BY <1>1, <1>2

\* Below another node than n demotion moves children with their parents.
LEMMA ChildrenCome ==
  ASSUME NEW T, Tree(T), NEW n \in DOMAIN T, NEW m \in DOMAIN Demoted(T, n), m # n,
         NEW p \in DOMAIN T,
         \/ Stays(T, n, m) /\ p = m
         \/ IsBelow(p, n, "index") /\ m = OnTrack(p, n, "branch"),
         NEW u \in {"branch", "index"}, NEW w \in ChildrenOf(Demoted(T, n), m, u)
  PROVE  ChildrenOf(T, p, u) # {}
<1> DEFINE U == Demoted(T, n)
           d == Len(n) + 1
<1>0. n \in Address /\ Len(n) \in Nat /\ p \in Address /\ Len(p) \in Nat BY TreeIs
<1>1. Tree(U) BY DemoteKeepsTree
<1>2. /\ \A q : Stays(T, n, q) => q \in DOMAIN T
      /\ \A q \in DOMAIN U :
            \/ Stays(T, n, q)
            \/ \E r \in DOMAIN T : IsBelow(r, n, "index") /\ q = OnTrack(r, n, "branch")
  BY DemotedIs DEF Stays
<1> HIDE DEF U
<1>3. w \in DOMAIN U /\ Len(w) = Len(m) + 1 /\ Above(w, Len(m)) = m /\ w[Len(w)].track = u
  BY DEF ChildrenOf, U
<1>4. /\ m \in Address /\ Len(m) \in Nat /\ w \in Address /\ Len(w) \in Nat
  BY <1>1, <1>3, TreeIs DEF U
<1>5. ASSUME Len(m) > Len(n) PROVE Above(w, d) = Above(m, d)
  <2>1. d \in 0 .. Len(m) /\ Len(m) \in 0 .. Len(w) BY <1>0, <1>3, <1>4, <1>5
  <2> QED BY <1>3, <1>4, <2>1, AboveAbove DEF Address
<1>6. CASE Stays(T, n, m) /\ p = m
  <2>1. ASSUME NEW r \in DOMAIN T, IsBelow(r, n, "index"), w = OnTrack(r, n, "branch")
        PROVE  FALSE
    <3>0. r \in Address BY TreeIs
    <3>1. IsBelow(w, n, "branch") BY <1>0, <2>1, <3>0, MoveIs
    <3>2. Len(w) > Len(n) /\ Above(w, Len(n)) = n BY <3>1 DEF IsBelow
    <3>3. Len(m) > Len(n)
      <4>1. Len(m) # Len(n) BY <1>3, <3>2
      <4> QED BY <1>0, <1>3, <1>4, <3>2, <4>1
    <3>4. Above(m, d) = Above(OnTrack(r, n, "branch"), d) BY <1>5, <2>1, <3>3
    <3>5. Replaced(T, n, m) BY <1>0, <1>4, <2>1, <3>3, <3>4, MovedOverIsReplaced
    <3> QED BY <1>6, <3>5 DEF Stays
  <2>2. w \in DOMAIN T BY <1>2, <1>3, <2>1
  <2> QED BY <1>3, <1>6, <2>2 DEF ChildrenOf
<1>7. CASE IsBelow(p, n, "index") /\ m = OnTrack(p, n, "branch")
  <2>1. /\ Len(m) = Len(p) /\ Len(p) > Len(n) /\ IsBelow(m, n, "branch")
        /\ OnTrack(m, n, "index") = p
    BY <1>0, <1>7, MoveIs, BelowIs
  <2>2. ASSUME Stays(T, n, w) PROVE FALSE
    <3>1. Len(w) > Len(n) /\ Above(w, d) = Above(OnTrack(p, n, "branch"), d)
      BY <1>0, <1>3, <1>4, <1>5, <1>7, <2>1
    <3>2. Replaced(T, n, w) BY <1>0, <1>4, <1>7, <3>1, MovedOverIsReplaced
    <3> QED BY <2>2, <3>2 DEF Stays
  <2>3. PICK r \in DOMAIN T : IsBelow(r, n, "index") /\ w = OnTrack(r, n, "branch")
    BY <1>2, <1>3, <2>2
  <2>4. r \in Address /\ Len(r) \in Nat BY TreeIs
  <2>5. Len(r) = Len(p) + 1 /\ r = OnTrack(w, n, "index")
    BY <1>0, <1>3, <2>1, <2>3, <2>4, MoveIs
  <2>6. Above(r, Len(p)) = p
    <3>1. Len(p) \in 0 .. Len(w) /\ ~(Len(p) <= Len(n)) /\ Len(w) > Len(n)
      BY <1>0, <1>3, <1>4, <2>1
    <3>2. Above(OnTrack(w, n, "index"), Len(p)) = OnTrack(Above(w, Len(p)), n, "index")
      BY <1>0, <1>4, <3>1, OnTrackAbove
    <3> QED BY <1>3, <2>1, <2>5, <3>2
  <2>7. r[Len(r)].track = u
    <3>1. /\ Len(r) \in (1 .. Len(r)) \ {d} /\ Len(r) > Len(n)
      BY <1>0, <2>1, <2>4, <2>5
    <3>2. w[Len(r)] = r[Len(r)] BY <1>0, <2>3, <2>4, <3>1, OnTrackIs
    <3> QED BY <1>3, <2>1, <2>5, <3>2
  <2> QED BY <2>5, <2>6, <2>7 DEF ChildrenOf
<1> QED BY <1>6, <1>7

\* setValue: a node that takes a value has branches only, and may have them.
LEMMA SetKeepsGrown ==
  ASSUME NEW T, Tree(T), NEW P, Grown(T, P), NEW n \in DOMAIN T, NEW v, v # NoValue
  PROVE  Grown([Demoted(T, n) EXCEPT ![n] = v], P)
<1> DEFINE D == Demoted(T, n)
           U == [D EXCEPT ![n] = v]
<1>0. n \in Address /\ Len(n) \in Nat BY TreeIs
<1>1. ASSUME NEW q \in DOMAIN D
      PROVE  \E p \in DOMAIN T :
                /\ Segs(p) = Segs(q) /\ Len(p) = Len(q) /\ D[q] = T[p]
                /\ q[Len(q)].track = "index" => p[Len(p)].track = "index"
                /\ \/ Stays(T, n, q) /\ p = q
                   \/ IsBelow(p, n, "index") /\ q = OnTrack(p, n, "branch")
  BY OriginIs
<1>2. ASSUME NEW m \in DOMAIN D, m # n, NEW p \in DOMAIN T,
             \/ Stays(T, n, m) /\ p = m
             \/ IsBelow(p, n, "index") /\ m = OnTrack(p, n, "branch"),
             NEW u \in {"branch", "index"}, ChildrenOf(D, m, u) # {}
      PROVE  ChildrenOf(T, p, u) # {}
  BY <1>2, ChildrenCome
<1>3. Tree(D) BY DemoteKeepsTree
<1> HIDE DEF D
<1>4. /\ DOMAIN U = DOMAIN D /\ \A q \in DOMAIN D \ {n} : U[q] = D[q]
      /\ n \in DOMAIN D => U[n] = v
  OBVIOUS
<1> HIDE DEF U
<1>5. OnTheWay(U, P)
  <2> SUFFICES ASSUME NEW q \in DOMAIN U, q # Root
               PROVE  \E p \in P : /\ Len(q) <= Len(p) /\ Segs(q) = Above(p, Len(q))
                                   /\ q[Len(q)].track = "index" => Len(q) < Len(p)
    BY DEF OnTheWay
  <2>1. PICK r \in DOMAIN T : /\ Segs(r) = Segs(q) /\ Len(r) = Len(q)
                              /\ q[Len(q)].track = "index" => r[Len(r)].track = "index"
    BY <1>1, <1>4
  <2>2. q \in Address /\ r # Root BY <1>3, <1>4, <2>1, TreeIs, RootIs
  <2>3. PICK p \in P : /\ Len(r) <= Len(p) /\ Segs(r) = Above(p, Len(r))
                       /\ r[Len(r)].track = "index" => Len(r) < Len(p)
    BY <2>2 DEF Grown, OnTheWay
  <2> QED BY <2>1, <2>3
<1>6. AtRest(U, P)
  <2> SUFFICES ASSUME NEW m \in DOMAIN U, NEW p \in P, Indexes(p, Segs(m)),
                      ~Mixes(P, Segs(m)), HasBranches(U, m)
               PROVE  HasValue(U, m) /\ ~HasIndices(U, m)
    BY DEF AtRest
  <2>0. \A q, u : ChildrenOf(U, q, u) = ChildrenOf(D, q, u) BY <1>4 DEF ChildrenOf
  <2>1. PICK r \in DOMAIN T :
                /\ Segs(r) = Segs(m) /\ Len(r) = Len(m) /\ D[m] = T[r]
                /\ \/ Stays(T, n, m) /\ r = m
                   \/ IsBelow(r, n, "index") /\ m = OnTrack(r, n, "branch")
    BY <1>1, <1>4
  <2>2. CASE m # n
    <3>1. HasBranches(T, r) BY <1>2, <1>4, <2>0, <2>1, <2>2 DEF HasBranches
    <3>2. HasValue(T, r) /\ ~HasIndices(T, r) BY <2>1, <3>1 DEF Grown, AtRest
    <3>3. ~HasIndices(U, m) BY <1>2, <1>4, <2>0, <2>1, <2>2, <3>2 DEF HasIndices
    <3> QED BY <1>4, <2>1, <2>2, <3>2, <3>3 DEF HasValue
  <2>3. CASE m = n
    <3>1. ASSUME NEW w \in ChildrenOf(D, n, "index") PROVE FALSE
      <4>1. w \in DOMAIN D /\ Len(w) = Len(n) + 1 /\ Above(w, Len(n)) = n
            /\ w[Len(n) + 1].track = "index"
        BY DEF ChildrenOf
      <4>2. IsBelow(w, n, "index") BY <1>0, <4>1 DEF IsBelow
      <4>3. PICK q \in DOMAIN T : IsBelow(q, n, "index") /\ w = OnTrack(q, n, "branch")
        BY <1>1, <4>1, <4>2 DEF Stays
      <4>4. IsBelow(w, n, "branch") BY <1>0, <4>3, TreeIs, MoveIs
      <4> QED BY <4>2, <4>4 DEF IsBelow
    <3> QED BY <1>4, <2>0, <2>3, <3>1 DEF HasIndices, HasValue
  <2> QED BY <2>2, <2>3
<1>7. Single(U, P)
  <2> SUFFICES ASSUME \A p \in P : ~Clashes(P, p),
                      NEW m \in DOMAIN D, NEW q \in DOMAIN D, Segs(m) = Segs(q)
               PROVE  m = q
    BY <1>4 DEF Single
  <2>1. PICK r \in DOMAIN T : /\ Segs(r) = Segs(m)
                              /\ \/ Stays(T, n, m) /\ r = m
                                 \/ IsBelow(r, n, "index") /\ m = OnTrack(r, n, "branch")
    BY <1>1
  <2>2. PICK s \in DOMAIN T : /\ Segs(s) = Segs(q)
                              /\ \/ Stays(T, n, q) /\ s = q
                                 \/ IsBelow(s, n, "index") /\ q = OnTrack(s, n, "branch")
    BY <1>1
  <2>3. r = s BY <2>1, <2>2 DEF Grown, Single
  <2> QED BY <2>1, <2>2, <2>3 DEF Stays
<1>8. Grown(U, P) BY <1>5, <1>6, <1>7 DEF Grown
<1> QED BY <1>8 DEF U, D

\* A node is not below itself: it stays, and so does the lack of a twin.
LEMMA SetDemotedKeepsTree ==
  ASSUME NEW T, Tree(T), NEW n \in DOMAIN T, n # Root, NEW v,
         n[Len(n)].track = "branch", Twin(n) \notin DOMAIN T
  PROVE  /\ Tree([Demoted(T, n) EXCEPT ![n] = v])
         /\ DOMAIN [Demoted(T, n) EXCEPT ![n] = v] = DOMAIN Demoted(T, n)
         /\ n \in DOMAIN Demoted(T, n)
         /\ [Demoted(T, n) EXCEPT ![n] = v][n] = v
         /\ \A p \in DOMAIN Demoted(T, n) \ {n} :
               [Demoted(T, n) EXCEPT ![n] = v][p] = Demoted(T, n)[p]
<1> DEFINE D == Demoted(T, n)
<1>1. n \in Address /\ Len(n) \in Nat BY TreeIs
<1>2. n \in DOMAIN D
  <2>1. Stays(T, n, n) BY <1>1 DEF Stays, Replaced, IsBelow
  <2> QED BY <2>1, DemotedIs
<1>3. Tree(D) BY DemoteKeepsTree
<1>4. Twin(n) \notin DOMAIN D
  <2> SUFFICES ASSUME Twin(n) \in DOMAIN D PROVE FALSE OBVIOUS
  <2>1. PICK p \in DOMAIN T : IsBelow(p, n, "index") /\ Twin(n) = OnTrack(p, n, "branch")
    BY DemotedIs DEF Stays
  <2>2. IsBelow(Twin(n), n, "branch")
    <3>1. p \in Address BY TreeIs
    <3> QED BY <1>1, <2>1, <3>1, MoveIs
  <2> QED BY <1>1, <2>2, TwinIs DEF IsBelow
<1> HIDE DEF D
<1>5. /\ Tree([D EXCEPT ![n] = v]) /\ DOMAIN [D EXCEPT ![n] = v] = DOMAIN D
      /\ [D EXCEPT ![n] = v][n] = v
      /\ \A p \in DOMAIN D \ {n} : [D EXCEPT ![n] = v][p] = D[p]
  BY <1>2, <1>3, <1>4, SetKeepsTree
<1> QED BY <1>2, <1>5 DEF D

\* A node and the way of a path that goes through one of its ancestors.
LEMMA WayIs ==
  ASSUME NEW m \in Address, NEW n \in Address, Len(m) > Len(n), Above(m, Len(n)) = n
  PROVE  /\ Segs(m) \in Seq(PathSeg) /\ Len(n) < Len(Segs(m)) /\ Len(Segs(m)) = Len(m)
         /\ Segs(n) = Above(Segs(m), Len(n)) /\ Segs(m)[Len(n) + 1] = m[Len(n) + 1].seg
<1>1. Len(m) \in Nat /\ Len(n) \in Nat /\ Len(n) \in 0 .. Len(m) /\ Len(n) + 1 \in 1 .. Len(m)
  BY AddressIs
<1> QED BY <1>1, SegsTyped, SegsAbove

\* A position that goes when digits end a key takes along none but what
\* clashes.
LEMMA RemoveKeeps ==
  ASSUME NEW T, Tree(T), NEW P \in SUBSET Seq(PathSeg),
         NEW n \in DOMAIN T, NEW k \in P, Len(n) + 1 = Len(k), Segs(n) = Above(k, Len(n)),
         NEW m \in DOMAIN T, HasValue(T, m), Segs(m) \in P, ~Clashes(P, Segs(m)),
         NEW s \in PathSeg
  PROVE  m \in DOMAIN WithoutSubtree(T, Child(n, "index", s))
<1> DEFINE c == Child(n, "index", s)
<1>1. n \in Address /\ Len(n) \in Nat /\ m \in Address /\ Len(m) \in Nat BY TreeIs
<1>2. /\ c \in Address /\ Len(c) = Len(n) + 1
      /\ c[Len(n) + 1].track = "index" /\ c[Len(n) + 1].seg = s
      /\ \A i \in 1 .. Len(n) : c[i] = n[i]
      /\ \A i \in 0 .. Len(n) : Above(c, i) = Above(n, i)
      /\ Above(c, Len(n)) = n
  <2>1. n \in Address /\ "index" \in {"branch", "index"} BY <1>1
  <2> QED BY ONLY <2>1, s \in PathSeg, ChildIs
<1> HIDE DEF c
<1> SUFFICES ASSUME Len(c) <= Len(m), Above(m, Len(c)) = c PROVE FALSE
  BY <1>2, RemoveIs DEF c
<1>3. Len(n) \in 0 .. Len(c) /\ Len(c) \in 0 .. Len(m) /\ Len(n) + 1 \in 1 .. Len(c)
      /\ Len(n) + 1 \in 1 .. Len(m)
  BY <1>1, <1>2
<1>4. Above(m, Len(n)) = n /\ m[Len(n) + 1].track = "index"
  BY <1>1, <1>2, <1>3, AboveIs, AboveAbove DEF Address
<1>5. Len(m) # Len(n) + 1 BY <1>4, TreeIs
<1>6. Len(m) > Len(n) + 1 BY <1>1, <1>2, <1>5
<1>7. IsIndex(m[Len(n) + 1].seg) BY <1>3, <1>4, TreeIs
<1>8. /\ Segs(m) \in Seq(PathSeg) /\ Len(n) < Len(Segs(m)) /\ Len(Segs(m)) = Len(m)
      /\ Segs(n) = Above(Segs(m), Len(n)) /\ Segs(m)[Len(n) + 1] = m[Len(n) + 1].seg
  BY <1>1, <1>4, <1>6, WayIs
<1>9. Indexes(Segs(m), Segs(n)) BY <1>1, <1>6, <1>7, <1>8, PassesIs
<1>10. Len(n) < Len(k) /\ k \in Seq(PathSeg) BY <1>1
<1>11. Mixes(P, Segs(n)) BY <1>1, <1>9, <1>10, MixesIs
<1> QED BY <1>1, <1>8, <1>9, <1>11, NoClashIs

\* Nor does demotion replace any other value.
LEMMA DemoteKeeps ==
  ASSUME NEW T, Tree(T), NEW P, Grown(T, P), NEW n \in DOMAIN T,
         NEW m \in DOMAIN T, HasValue(T, m), Segs(m) \in P, ~Clashes(P, Segs(m))
  PROVE  \E q \in DOMAIN Demoted(T, n) : Segs(q) = Segs(m) /\ Demoted(T, n)[q] = T[m]
<1> DEFINE d == Len(n) + 1
<1>1. n \in Address /\ Len(n) \in Nat /\ m \in Address /\ Len(m) \in Nat BY TreeIs
<1>2. CASE Stays(T, n, m) BY <1>2, DemotedIs
<1>3. CASE IsBelow(m, n, "index") BY <1>1, <1>3, DemotedIs, MoveIs
<1>4. ASSUME Replaced(T, n, m) PROVE FALSE
  <2> DEFINE b == Above(m, d)
             x == OnTrack(b, n, "index")
  <2>1. IsBelow(m, n, "branch") /\ x \in DOMAIN T BY <1>4 DEF Replaced
  <2>2. /\ d \in 1 .. Len(m) /\ d \in 0 .. Len(m) /\ Len(m) > Len(n)
        /\ Above(m, Len(n)) = n /\ m[d].track = "branch"
        /\ b \in Address /\ Len(b) = d /\ IsBelow(b, n, "branch") /\ b[d] = m[d]
    <3>1. /\ d \in 1 .. Len(m) /\ Len(m) > Len(n)
          /\ Above(m, Len(n)) = n /\ m[d].track = "branch"
          /\ b \in Address /\ Len(b) = d /\ IsBelow(b, n, "branch")
      BY <1>1, <2>1, BelowIs
    <3>2. d \in 0 .. Len(m) /\ d \in 1 .. d BY <1>1, <3>1
    <3>3. b[d] = m[d] BY <1>1, <3>2, AboveIs DEF Address
    <3> QED BY <3>1, <3>2, <3>3
  <2>3. b \in DOMAIN T BY <2>2, TreeIs
  <2> HIDE DEF b
  <2>4. /\ x \in Address /\ Len(x) = d /\ x[d].track = "index" /\ x[d].seg = b[d].seg
        /\ Above(x, Len(n)) = n
    <3>1. Len(b) > Len(n) /\ Len(n) \in 0 .. Len(b) /\ Len(n) <= Len(n) /\ d \in 1 .. d
      BY <1>1, <2>2
    <3>2. Above(x, Len(n)) = Above(b, Len(n)) BY <1>1, <2>2, <3>1, OnTrackAbove
    <3>3. Above(b, Len(n)) = n BY <2>2 DEF IsBelow
    <3> QED BY <1>1, <2>2, <3>1, <3>2, <3>3, OnTrackIs
  <2>5. Len(m) # d
    <3> SUFFICES ASSUME Len(m) = d PROVE FALSE OBVIOUS
    <3>1. b = m BY <1>1, AboveAll DEF b, Address
    <3>2. Len(m) - 1 = Len(n) BY <1>1
    <3>3. x = Twin(m) BY <2>2, <3>1, <3>2 DEF Twin
    <3> QED BY <2>1, <3>3, TreeIs
  <2> HIDE DEF x
  <2>6. IsIndex(m[d].seg) BY <1>1, <2>1, <2>2, <2>4, TreeIs
  <2>7. /\ Segs(m) \in Seq(PathSeg) /\ Len(n) < Len(Segs(m)) /\ Len(Segs(m)) = Len(m)
        /\ Segs(n) = Above(Segs(m), Len(n)) /\ Segs(m)[d] = m[d].seg
    BY <1>1, <2>2, WayIs
  <2>8. Indexes(Segs(m), Segs(n))
    <3>1. Len(n) + 1 < Len(Segs(m)) BY <1>1, <2>2, <2>5, <2>7
    <3> QED BY <1>1, <2>6, <2>7, <3>1, PassesIs
  <2>9. ~Mixes(P, Segs(n)) BY <1>1, <2>7, <2>8, NoClashIs
  <2>10. b \in ChildrenOf(T, n, "branch") /\ x \in ChildrenOf(T, n, "index")
    BY <2>1, <2>2, <2>3, <2>4 DEF ChildrenOf, x, IsBelow
  <2> QED BY <2>8, <2>9, <2>10 DEF Grown, AtRest, HasBranches, HasIndices
<1> QED BY <1>2, <1>3, <1>4 DEF Stays
-----------------------------------------------------------------------------
(* The invariant of the specification. *)

Exports == UNION {Range(r) : r \in Requests}

AtKey ==
    /\ key \in Named /\ cur \in DOMAIN trie
    /\ Len(cur) <= Len(Path(key)) /\ Segs(cur) = Above(Path(key), Len(cur))
    /\ Len(cur) = Len(Path(key)) => cur[Len(cur)].track = "branch" /\ Twin(cur) \notin DOMAIN trie

\* Every value is that of an attribute whose key the way to it spells.
Sourced ==
    \A n \in DOMAIN trie : HasValue(trie, n) =>
        \E k \in Named : Segs(n) = Path(k) /\ trie[n] = Loaded(k)

Held(T, k) ==
    \E n \in DOMAIN T : \E j \in Named :
        Segs(n) = Path(k) /\ Path(j) = Path(k) /\ T[n] = Loaded(j)

\* What the range has come to is in the trie, is being added or clashes.
Keeps ==
    \A k \in Named \ left :
        (pc = "step" /\ k = key) \/ Clashes(Paths, Path(k)) \/ Held(trie, k)

Extracted ==
    /\ span.kind \in SpanKinds \cup {"UNKNOWN"} /\ span.project # ""
    /\ span.start \in -IntSize .. IntSize /\ span.end \in -IntSize .. IntSize
    /\ span.attributes = Materialized(trie)
    /\ \E view \in Views(Merged(flat, Materialized(trie))) : span.extracted = Extract(view)

SentInv ==
    /\ pc \in {"idle", "range", "step", "done"}
    /\ rest \in Seq(Exports) /\ sent \in Exports
    /\ left \subseteq DOMAIN flat

TrieInv == Tree(trie) /\ Grown(trie, Paths) /\ Sourced

RangeInv ==
    /\ pc = "step" => AtKey
    /\ pc # "idle" => Keeps

DoneInv == pc = "done" => left = {} /\ Extracted

DecodeInv == SentInv /\ TrieInv /\ RangeInv /\ DoneInv

LEMMA ExportIs ==
  ASSUME NEW x \in Exports
  PROVE  /\ IsList(x.attributes) /\ IsList(x.resource)
         /\ x.start \in Nat /\ x.end \in Nat
<1>1. PICK r \in Requests : x \in Range(r) BY DEF Exports
<1>2. PICK i \in DOMAIN r : x = r[i] BY <1>1 DEF Range
<1> QED BY <1>2, RequestsAssumption

\* The keys of the flat map are those of the list it is made from.
LEMMA FlatMapKeys ==
  ASSUME NEW kvs, IsList(kvs)
  PROVE  DOMAIN FlatMap(kvs) \subseteq Key /\ IsFiniteSet(DOMAIN FlatMap(kvs))
<1> DEFINE set == {i \in DOMAIN kvs : kvs[i].value # NoValue}
           names == {kvs[i].key : i \in DOMAIN kvs}
<1>1. DOMAIN FlatMap(kvs) = {kvs[i].key : i \in set} BY DEF FlatMap
<1>2. DOMAIN FlatMap(kvs) \subseteq names BY <1>1
<1>3. names \subseteq Key BY DEF IsList
<1>4. IsFiniteSet(names)
  <2>1. kvs \in Seq(Range(kvs)) BY DEF IsList
  <2>2. DOMAIN kvs = 1 .. Len(kvs) /\ Len(kvs) \in Nat BY <2>1, LenProperties
  <2>3. IsFiniteSet(DOMAIN kvs) BY <2>2, FS_Interval
  <2> DEFINE f == [i \in DOMAIN kvs |-> kvs[i].key]
  <2>4. f \in Surjection(DOMAIN kvs, names) BY DEF Surjection
  <2> QED BY <2>3, <2>4, FS_Surjection
<1> QED BY <1>2, <1>3, <1>4, FS_Subset

LEMMA NamedTyped ==
  ASSUME sent \in Exports
  PROVE  /\ Named \subseteq Key /\ Named \subseteq DOMAIN flat /\ IsFiniteSet(Named)
         /\ Paths \in SUBSET Seq(PathSeg)
         /\ \A k \in Named : /\ Path(k) \in Paths /\ Path(k) \in Seq(PathSeg)
                             /\ Path(k) # <<>> /\ Loaded(k) # NoValue
<1>1. DOMAIN flat \subseteq Key /\ IsFiniteSet(DOMAIN flat) BY ExportIs, FlatMapKeys DEF flat
<1>2. Named \subseteq DOMAIN flat BY DEF Named
<1>3. Named \subseteq Key /\ IsFiniteSet(Named) BY <1>1, <1>2, FS_Subset
<1>4. \A k \in Named : Path(k) # <<>> /\ Loaded(k) # NoValue BY DEF Named
<1> QED BY <1>2, <1>3, <1>4, PathTyped DEF Paths

LEMMA NewTrieIs ==
  ASSUME NEW P
  PROVE  /\ Tree(NewTrie) /\ Grown(NewTrie, P)
         /\ \A n \in DOMAIN NewTrie : ~HasValue(NewTrie, n)
<1>1. DOMAIN NewTrie = {Root} /\ NewTrie[Root] = NoValue BY DEF NewTrie
<1>2. Root \in Address /\ Len(Root) = 0 /\ Above(Root, 0) = Root
  BY RootIs, AboveAll DEF Address, Root
<1>3. Tree(NewTrie)
  <2>1. \A i \in 0 .. Len(Root) : i = 0 BY <1>2
  <2>2. \A i \in 1 .. Len(Root) : FALSE BY <1>2
  <2>3. Sprung(NewTrie, Root) BY <1>1, <1>2, <2>1, <2>2 DEF Sprung
  <2> QED BY <1>1, <2>3, FS_Singleton DEF Tree, HasValue
<1>4. \A t : ChildrenOf(NewTrie, Root, t) = {} BY <1>1, <1>2 DEF ChildrenOf
<1>5. Grown(NewTrie, P)
  BY <1>1, <1>4 DEF Grown, OnTheWay, AtRest, Single, HasBranches
<1> QED BY <1>1, <1>3, <1>5 DEF HasValue

LEMMA InvInit == Init => DecodeInv
<1> SUFFICES ASSUME Init PROVE DecodeInv OBVIOUS
<1>1. rest \in Requests /\ rest \in Seq(Range(rest)) /\ rest # <<>> BY RequestsAssumption DEF Init
<1>2. Range(rest) \subseteq Exports BY <1>1 DEF Exports
<1>3. rest \in Seq(Exports) BY <1>1, <1>2, SeqMonotonic
<1>4. sent \in Exports
  <2>1. 1 \in 1 .. Len(rest) BY <1>1, <1>3, EmptySeq, LenProperties
  <2> QED BY <1>3, <2>1, ElementOfSeq DEF Init
<1>5. SentInv BY <1>3, <1>4 DEF Init, SentInv
<1>6. TrieInv BY NewTrieIs DEF Init, TrieInv, Sourced
<1> QED BY <1>5, <1>6 DEF DecodeInv, RangeInv, DoneInv, Init

\* What is held stays held where the values of unclashing keys stay.
LEMMA HeldOn ==
  ASSUME sent \in Exports, Tree(trie), NEW U, NEW k \in Named, ~Clashes(Paths, Path(k)),
         Held(trie, k),
         \A m \in DOMAIN trie : HasValue(trie, m) /\ Segs(m) \in Paths /\ ~Clashes(Paths, Segs(m))
            => m \in DOMAIN U /\ U[m] = trie[m]
  PROVE  Held(U, k)
<1>1. PICK n \in DOMAIN trie, j \in Named :
         Segs(n) = Path(k) /\ Path(j) = Path(k) /\ trie[n] = Loaded(j)
  BY DEF Held
<1>2. HasValue(trie, n) /\ Segs(n) \in Paths BY <1>1, NamedTyped DEF HasValue
<1> QED BY <1>1, <1>2 DEF Held

LEMMA NewNodeIs ==
  ASSUME NEW T, NEW c
  PROVE  /\ DOMAIN WithNode(T, c) = DOMAIN T \cup {c}
         /\ \A m \in DOMAIN T : WithNode(T, c)[m] = T[m]
         /\ c \notin DOMAIN T => WithNode(T, c)[c] = NoValue
BY DEF WithNode

\* Where add's steps stand, and what they lead to.
LEMMA StepIs ==
  ASSUME sent \in Exports, Tree(trie), AtKey, Stepping
  PROVE  /\ cur \in Address /\ cur \in DOMAIN trie /\ Len(cur) \in Nat
         /\ Path(key) \in Paths /\ Path(key) \in Seq(PathSeg) /\ Len(Path(key)) \in Nat
         /\ key \in Named
         /\ Len(cur) < Len(Path(key)) /\ Len(cur) + 1 <= Len(Path(key))
         /\ Segs(cur) = Above(Path(key), Len(cur))
         /\ seg = Path(key)[Len(cur) + 1] /\ seg \in PathSeg
         /\ last <=> Len(cur) + 1 = Len(Path(key))
         /\ \A t \in {"branch", "index"} :
               Segs(Child(cur, t, seg)) = Above(Path(key), Len(cur) + 1)
<1>1. cur \in DOMAIN trie /\ key \in Named /\ Segs(cur) = Above(Path(key), Len(cur))
  BY DEF AtKey
<1>2. cur \in Address /\ Len(cur) \in Nat BY <1>1, TreeIs
<1>3. Path(key) \in Paths /\ Path(key) \in Seq(PathSeg) /\ Len(Path(key)) \in Nat
  BY <1>1, NamedTyped, LenProperties
<1>4. Len(cur) < Len(Path(key)) /\ Len(cur) + 1 <= Len(Path(key))
  BY <1>2, <1>3 DEF Stepping
<1>5. seg = Path(key)[Len(cur) + 1] /\ (last <=> Len(cur) + 1 = Len(Path(key)))
  BY DEF seg, last
<1>6. seg \in PathSeg
  <2>1. Len(cur) + 1 \in 1 .. Len(Path(key)) BY <1>2, <1>3, <1>4
  <2> QED BY <1>3, <1>5, <2>1, ElementOfSeq
<1>7. ASSUME NEW t \in {"branch", "index"}
      PROVE  Segs(Child(cur, t, seg)) = Above(Path(key), Len(cur) + 1)
  BY <1>1, <1>2, <1>3, <1>4, <1>5, NextIs
<1> QED BY <1>1, <1>2, <1>3, <1>4, <1>5, <1>6, <1>7

Tracks == {"branch", "index"}

\* The child that a step of add goes to.
LEMMA StepChild ==
  ASSUME NEW n \in Address, NEW s \in PathSeg, NEW t \in Tracks
  PROVE  /\ Child(n, t, s) \in Address /\ Len(Child(n, t, s)) = Len(n) + 1
         /\ Child(n, t, s) # Root
         /\ Child(n, t, s)[Len(Child(n, t, s))].track = t
         /\ Child(n, t, s)[Len(Child(n, t, s))].seg = s
         /\ Twin(Child(n, t, s)) = Child(n, "index", s)
<1> DEFINE c == Child(n, t, s)
           x == Child(n, "index", s)
<1>1. Len(n) \in Nat /\ t \in {"branch", "index"} BY AddressIs DEF Tracks
<1>2. /\ c \in Address /\ Len(c) = Len(n) + 1
      /\ c[Len(n) + 1].track = t /\ c[Len(n) + 1].seg = s
      /\ \A i \in 1 .. Len(n) : c[i] = n[i]
      /\ \A i \in 0 .. Len(n) : Above(c, i) = Above(n, i)
      /\ Above(c, Len(n)) = n
  <2>1. IsChildOf(c, n, t, s) BY <1>1, IsChild
  <2> HIDE DEF c
  <2> QED BY <2>1 DEF IsChildOf
<1> HIDE DEF c
<1>3. c # Root BY <1>1, <1>2, RootIs
<1>4. /\ Twin(c) \in Address /\ Len(Twin(c)) = Len(c)
      /\ Twin(c)[Len(c)].track = "index" /\ Twin(c)[Len(c)].seg = c[Len(c)].seg
      /\ Above(Twin(c), Len(c) - 1) = Above(c, Len(c) - 1)
  BY <1>2, <1>3, TwinIs
<1>5. Len(c) - 1 = Len(n) BY <1>1, <1>2
<1>6. Twin(c) = x
  <2>1. "index" \in {"branch", "index"} OBVIOUS
  <2> QED BY <1>2, <1>4, <1>5, <2>1, ChildOfParent
<1> QED BY <1>2, <1>3, <1>6 DEF c

\* What depends on the span alone stays with it.
LEMMA SameSent ==
  ASSUME sent' = sent
  PROVE  /\ flat' = flat /\ Named' = Named /\ Paths' = Paths
         /\ \A k : Loaded(k)' = Loaded(k)
         /\ \A k : Held(trie, k)' <=> Held(trie', k)
<1>1. flat' = flat BY DEF flat
<1>2. \A k : Loaded(k)' = Loaded(k) BY <1>1 DEF Loaded
<1>3. Named' = Named BY <1>1, <1>2 DEF Named
<1>4. Paths' = Paths BY <1>3 DEF Paths
<1> QED BY <1>1, <1>2, <1>3, <1>4 DEF Held

LEMMA SourcedNext ==
  ASSUME sent' = sent, Sourced,
         \A m \in DOMAIN trie' : HasValue(trie', m) => m \in DOMAIN trie /\ trie'[m] = trie[m]
  PROVE  Sourced'
<1>1. Named' = Named /\ \A k : Loaded(k)' = Loaded(k) BY SameSent
<1> QED BY <1>1 DEF Sourced, HasValue

\* While a key is added the others are kept.
LEMMA KeepsNext ==
  ASSUME sent \in Exports, sent' = sent, left' = left, key' = key, pc = "step", pc' = "step",
         Tree(trie), Keeps,
         \A m \in DOMAIN trie : HasValue(trie, m) /\ Segs(m) \in Paths /\ ~Clashes(Paths, Segs(m))
            => m \in DOMAIN trie' /\ trie'[m] = trie[m]
  PROVE  Keeps'
<1>1. /\ Named' = Named /\ Paths' = Paths /\ \A k : Held(trie, k)' <=> Held(trie', k)
  BY SameSent
<1>2. \A k \in Named : ~Clashes(Paths, Path(k)) /\ Held(trie, k) => Held(trie', k) BY HeldOn
<1> QED BY <1>1, <1>2 DEF Keeps

\* step, on either track: a new node at most.
LEMMA GrowStep ==
  ASSUME DecodeInv, NEW t \in {"branch", "index"}, Stepping,
         \/ t = "index" /\ IsIndex(seg) /\ ~last /\ ~HasBranches(trie, cur)
         \/ t = "branch" /\ (~IsIndex(seg) \/ (~last /\ HasBranches(trie, cur))),
         cur' = Child(cur, t, seg), trie' = WithNode(trie, cur'),
         UNCHANGED <<pc, rest, sent, left, key, span>>
  PROVE  DecodeInv'
<1>0. /\ sent \in Exports /\ Tree(trie) /\ Grown(trie, Paths) /\ AtKey /\ pc = "step" /\ Keeps
      /\ Sourced /\ Paths \in SUBSET Seq(PathSeg)
  BY NamedTyped DEF DecodeInv, SentInv, TrieInv, RangeInv, Stepping
<1>b. /\ t = "index" => IsIndex(seg) /\ ~last /\ ~HasBranches(trie, cur)
      /\ t = "branch" => ~IsIndex(seg) \/ (~last /\ HasBranches(trie, cur))
  OBVIOUS
<1>a. Segs(Child(cur, t, seg)) = Above(Path(key), Len(cur) + 1)
  BY <1>0, StepIs
<1>1. /\ cur \in Address /\ cur \in DOMAIN trie /\ Len(cur) \in Nat
      /\ Path(key) \in Paths /\ Path(key) \in Seq(PathSeg) /\ Len(Path(key)) \in Nat
      /\ key \in Named
      /\ Len(cur) < Len(Path(key)) /\ Len(cur) + 1 <= Len(Path(key))
      /\ Segs(cur) = Above(Path(key), Len(cur))
      /\ seg = Path(key)[Len(cur) + 1] /\ seg \in PathSeg
      /\ last <=> Len(cur) + 1 = Len(Path(key))
  BY <1>0, StepIs
<1>2. /\ cur' \in Address /\ Len(cur') = Len(cur) + 1 /\ cur' # Root
      /\ cur'[Len(cur')].track = t /\ cur'[Len(cur')].seg = seg
      /\ Twin(cur') = Child(cur, "index", seg)
  <2> DEFINE c == Child(cur, t, seg)
  <2>1. cur \in Address /\ seg \in PathSeg /\ t \in Tracks BY <1>1 DEF Tracks
  <2>2. /\ c \in Address /\ Len(c) = Len(cur) + 1 /\ c # Root
        /\ c[Len(c)].track = t /\ c[Len(c)].seg = seg
        /\ Twin(c) = Child(cur, "index", seg)
    BY ONLY <2>1, StepChild
  <2>3. cur' = c OBVIOUS
  <2> HIDE DEF c
  <2> QED BY ONLY <2>2, <2>3
<1>3. /\ DOMAIN trie' = DOMAIN trie \cup {cur'}
      /\ \A m \in DOMAIN trie : trie'[m] = trie[m]
      /\ cur' \notin DOMAIN trie => trie'[cur'] = NoValue
  <2> DEFINE U == WithNode(trie, cur')
  <2>1. /\ DOMAIN U = DOMAIN trie \cup {cur'}
        /\ \A m \in DOMAIN trie : U[m] = trie[m]
        /\ cur' \notin DOMAIN trie => U[cur'] = NoValue
    BY ONLY NewNodeIs
  <2>2. trie' = U OBVIOUS
  <2> HIDE DEF U
  <2> QED BY ONLY <2>1, <2>2
<1>4. Tree(trie') BY <1>0, <1>1, <1>b, GrowKeepsTree
<1>5. Grown(trie', Paths)
  <2> DEFINE P == Paths
             k == Path(key)
             s == seg
  <2>1. /\ P \in SUBSET Seq(PathSeg) /\ Grown(trie, P) /\ k \in P /\ Len(cur) < Len(k)
        /\ Segs(cur) = Above(k, Len(cur)) /\ s = k[Len(cur) + 1]
        /\ t = "index" => IsIndex(s) /\ Len(cur) + 1 < Len(k) /\ ~HasBranches(trie, cur)
        /\ t = "branch" => ~IsIndex(s) \/ Len(cur) + 1 = Len(k) \/ HasBranches(trie, cur)
    BY <1>0, <1>1, <1>b
  <2>2. trie' = WithNode(trie, Child(cur, t, s)) OBVIOUS
  <2> HIDE DEF P, k, s
  <2>3. Grown(trie', P) BY <1>0, <1>1, <2>1, <2>2, GrowKeepsGrown
  <2> QED BY <2>3 DEF P
<1>6. Sourced' BY <1>0, <1>3, SourcedNext DEF HasValue
<1>7. Keeps' BY <1>0, <1>3, KeepsNext
<1>8. /\ Named' = Named /\ Paths' = Paths BY SameSent
<1>9. ASSUME Len(cur') = Len(Path(key))
      PROVE  cur'[Len(cur')].track = "branch" /\ Twin(cur') \notin DOMAIN trie'
  <2>1. last /\ t = "branch" /\ ~IsIndex(seg) BY <1>1, <1>2, <1>9, <1>b
  <2>2. ~IsIndex(Twin(cur')[Len(Twin(cur'))].seg) /\ Twin(cur')[Len(Twin(cur'))].track = "index"
        /\ Len(Twin(cur')) \in 1 .. Len(Twin(cur'))
    <3> DEFINE x == Child(cur, "index", seg)
    <3>1. cur \in Address /\ seg \in PathSeg /\ "index" \in Tracks BY <1>1 DEF Tracks
    <3>2. /\ x \in Address /\ Len(x) = Len(cur) + 1 /\ x # Root
          /\ x[Len(x)].track = "index" /\ x[Len(x)].seg = seg
          /\ Twin(x) = Child(cur, "index", seg)
      BY ONLY <3>1, StepChild
    <3>3. Twin(cur') = x BY <1>2
    <3> HIDE DEF x
    <3> QED BY <1>1, <2>1, <3>2, <3>3
  <2>3. Twin(cur') \notin DOMAIN trie' BY <1>4, <2>2, TreeIs
  <2> QED BY <1>2, <2>1, <2>3
<1>10. AtKey'
  <2>1. Len(cur') <= Len(Path(key)) /\ Segs(cur') = Above(Path(key), Len(cur'))
    BY <1>a, <1>1, <1>2
  <2>2. key' = key /\ cur' \in DOMAIN trie' /\ key \in Named' BY <1>1, <1>3, <1>8
  <2> QED BY <1>9, <2>1, <2>2 DEF AtKey
<1>11. SentInv' BY <1>8, SameSent DEF DecodeInv, SentInv
<1>12. TrieInv' BY <1>4, <1>5, <1>6, <1>8 DEF TrieInv
<1> QED BY <1>0, <1>7, <1>10, <1>11, <1>12 DEF DecodeInv, RangeInv, DoneInv

\* step at the last digits of a key: the position of that number goes first.
LEMMA LastDigitsStep == DecodeInv /\ StepLastDigits => DecodeInv'
<1> SUFFICES ASSUME DecodeInv, StepLastDigits PROVE DecodeInv' OBVIOUS
<1> DEFINE x == Child(cur, "index", seg)
           c == Child(cur, "branch", seg)
           R == WithoutSubtree(trie, x)
<1>0. /\ sent \in Exports /\ Tree(trie) /\ Grown(trie, Paths) /\ AtKey /\ pc = "step" /\ Keeps
      /\ Sourced /\ Paths \in SUBSET Seq(PathSeg)
      /\ Stepping /\ IsIndex(seg) /\ last /\ cur' = c /\ trie' = WithNode(R, cur')
      /\ pc' = pc /\ rest' = rest /\ sent' = sent /\ left' = left /\ key' = key /\ span' = span
  BY NamedTyped DEF DecodeInv, SentInv, TrieInv, RangeInv, StepLastDigits, Stepping
<1>1. /\ cur \in Address /\ cur \in DOMAIN trie /\ Len(cur) \in Nat
      /\ Path(key) \in Paths /\ Path(key) \in Seq(PathSeg) /\ Len(Path(key)) \in Nat
      /\ key \in Named
      /\ Len(cur) < Len(Path(key)) /\ Len(cur) + 1 = Len(Path(key))
      /\ Segs(cur) = Above(Path(key), Len(cur))
      /\ seg = Path(key)[Len(cur) + 1] /\ seg \in PathSeg
  BY <1>0, StepIs
<1>2. Segs(c) = Above(Path(key), Len(cur) + 1) BY <1>0, StepIs
<1>3. "index" \in Tracks /\ "branch" \in Tracks BY DEF Tracks
<1>4. /\ x \in Address /\ Len(x) = Len(cur) + 1 /\ x # Root
      /\ x[Len(x)].track = "index" /\ x[Len(x)].seg = seg
      /\ Twin(x) = Child(cur, "index", seg)
  <2>1. cur \in Address /\ seg \in PathSeg BY <1>1
  <2> QED BY ONLY <2>1, <1>3, StepChild
<1>5. /\ c \in Address /\ Len(c) = Len(cur) + 1 /\ c # Root
      /\ c[Len(c)].track = "branch" /\ c[Len(c)].seg = seg
      /\ Twin(c) = Child(cur, "index", seg)
  <2>1. cur \in Address /\ seg \in PathSeg BY <1>1
  <2> QED BY ONLY <2>1, <1>3, StepChild
<1>6. /\ DOMAIN R \subseteq DOMAIN trie
      /\ \A p \in DOMAIN trie : p \in DOMAIN R <=> ~(Len(x) <= Len(p) /\ Above(p, Len(x)) = x)
      /\ \A p \in DOMAIN R : R[p] = trie[p]
  <2> HIDE DEF x
  <2> QED BY ONLY <1>0, <1>4, RemoveIs DEF R
<1>7. Tree(R) /\ Grown(R, Paths)
  <2> HIDE DEF x
  <2> QED BY ONLY <1>0, <1>4, RemoveKeepsTree, RemoveKeepsGrown DEF R
<1>8. \A m \in DOMAIN trie : HasValue(trie, m) /\ Segs(m) \in Paths /\ ~Clashes(Paths, Segs(m))
         => m \in DOMAIN R
  <2> SUFFICES ASSUME NEW m \in DOMAIN trie, HasValue(trie, m), Segs(m) \in Paths,
                      ~Clashes(Paths, Segs(m))
               PROVE  m \in DOMAIN R
    OBVIOUS
  <2> QED BY <1>0, <1>1, RemoveKeeps
<1> HIDE DEF R
<1>9. cur \in DOMAIN R
  <2>1. ~(Len(x) <= Len(cur)) BY <1>1, <1>4
  <2> QED BY <1>1, <1>6, <2>1
<1>10. x \notin DOMAIN R
  <2>1. Above(x, Len(x)) = x /\ Len(x) <= Len(x) BY <1>1, <1>4, AboveAll DEF Address
  <2> QED BY <1>6, <2>1
<1> HIDE DEF x
<1>11. Tree(WithNode(R, c)) BY <1>1, <1>7, <1>9, GrowKeepsTree
<1>12. Grown(WithNode(R, c), Paths)
  <2> DEFINE P == Paths
             k == Path(key)
             s == seg
  <2>1. /\ P \in SUBSET Seq(PathSeg) /\ Grown(R, P) /\ k \in P /\ Len(cur) < Len(k)
        /\ Segs(cur) = Above(k, Len(cur)) /\ s = k[Len(cur) + 1] /\ Len(cur) + 1 = Len(k)
    BY <1>0, <1>1, <1>7
  <2>2. c = Child(cur, "branch", s) OBVIOUS
  <2> HIDE DEF P, k, s, c
  <2>3. Grown(WithNode(R, c), P) BY <1>7, <1>9, <2>1, <2>2, GrowKeepsGrown
  <2> QED BY <2>3 DEF P
<1> HIDE DEF c
<1>13. trie' = WithNode(R, c) /\ cur' = c BY <1>0
<1>14. /\ DOMAIN trie' = DOMAIN R \cup {c}
       /\ \A m \in DOMAIN R : trie'[m] = R[m]
       /\ c \notin DOMAIN R => trie'[c] = NoValue
  <2> DEFINE U == WithNode(R, c)
  <2>1. /\ DOMAIN U = DOMAIN R \cup {c}
        /\ \A m \in DOMAIN R : U[m] = R[m]
        /\ c \notin DOMAIN R => U[c] = NoValue
    BY ONLY NewNodeIs
  <2>2. trie' = U BY <1>13
  <2> HIDE DEF U
  <2> QED BY ONLY <2>1, <2>2
<1>15. Sourced' BY <1>0, <1>6, <1>14, SourcedNext DEF HasValue
<1>16. Keeps' BY <1>0, <1>6, <1>8, <1>14, KeepsNext
<1>17. Named' = Named /\ Paths' = Paths /\ flat' = flat BY <1>0, SameSent
<1>18. AtKey'
  <2>1. Twin(c) = x /\ x # c BY <1>4, <1>5 DEF x
  <2>2. cur'[Len(cur')].track = "branch" /\ Twin(cur') \notin DOMAIN trie'
    BY <1>5, <1>10, <1>13, <1>14, <2>1
  <2>3. Len(cur') <= Len(Path(key)) /\ Segs(cur') = Above(Path(key), Len(cur'))
    BY <1>1, <1>2, <1>5, <1>13 DEF c
  <2>4. key' = key /\ cur' \in DOMAIN trie' /\ key \in Named' BY <1>0, <1>1, <1>13, <1>14, <1>17
  <2> QED BY <2>2, <2>3, <2>4 DEF AtKey
<1>19. SentInv' BY <1>0, <1>17 DEF DecodeInv, SentInv
<1>20. TrieInv' BY <1>11, <1>12, <1>13, <1>15, <1>17 DEF TrieInv
<1> QED BY <1>0, <1>16, <1>18, <1>19, <1>20 DEF DecodeInv, RangeInv, DoneInv

\* setValue at the node that the key leads to.
LEMMA SetStep == DecodeInv /\ SetValue => DecodeInv'
<1> SUFFICES ASSUME DecodeInv, SetValue PROVE DecodeInv' OBVIOUS
<1> DEFINE v == Loaded(key)
           D == Demoted(trie, cur)
           U == [D EXCEPT ![cur] = v]
<1>0. /\ sent \in Exports /\ Tree(trie) /\ Grown(trie, Paths) /\ AtKey /\ pc = "step" /\ Keeps
      /\ Sourced /\ Paths \in SUBSET Seq(PathSeg)
      /\ Len(cur) = Len(Path(key)) /\ trie' = U /\ pc' = "range"
      /\ rest' = rest /\ sent' = sent /\ left' = left /\ key' = key /\ cur' = cur
  BY NamedTyped DEF DecodeInv, SentInv, TrieInv, RangeInv, SetValue
<1>1. /\ key \in Named /\ cur \in DOMAIN trie /\ cur \in Address
      /\ Path(key) \in Seq(PathSeg) /\ Path(key) # <<>> /\ v # NoValue
      /\ cur[Len(cur)].track = "branch" /\ Twin(cur) \notin DOMAIN trie
      /\ Segs(cur) = Path(key) /\ cur # Root
  <2>1. /\ key \in Named /\ cur \in DOMAIN trie /\ Segs(cur) = Above(Path(key), Len(cur))
        /\ cur[Len(cur)].track = "branch" /\ Twin(cur) \notin DOMAIN trie
    BY <1>0 DEF AtKey
  <2>2. cur \in Address BY <1>0, <2>1, TreeIs
  <2>3. Path(key) \in Seq(PathSeg) /\ Path(key) # <<>> /\ v # NoValue BY <1>0, <2>1, NamedTyped
  <2>4. Segs(cur) = Path(key) BY <1>0, <2>1, <2>3, AboveAll
  <2>5. cur # Root BY <1>0, <2>3, RootIs, EmptySeq
  <2> QED BY <2>1, <2>2, <2>3, <2>4, <2>5
<1> HIDE DEF v
<1>2. /\ Tree(U) /\ DOMAIN U = DOMAIN D /\ cur \in DOMAIN D /\ U[cur] = v
      /\ \A p \in DOMAIN D \ {cur} : U[p] = D[p]
  BY <1>0, <1>1, SetDemotedKeepsTree
<1>3. Grown(U, Paths)
  <2> DEFINE P == Paths
  <2>1. Tree(trie) /\ Grown(trie, P) /\ cur \in DOMAIN trie /\ v # NoValue BY <1>0, <1>1
  <2> HIDE DEF P
  <2>2. Grown(U, P) BY ONLY <2>1, SetKeepsGrown
  <2> QED BY <2>2 DEF P
<1>4. \A q \in DOMAIN D : \E p \in DOMAIN trie : Segs(p) = Segs(q) /\ D[q] = trie[p]
  BY <1>0, <1>1, OriginIs
<1>5. \A m \in DOMAIN trie : HasValue(trie, m) /\ Segs(m) \in Paths /\ ~Clashes(Paths, Segs(m))
         => \E q \in DOMAIN D : Segs(q) = Segs(m) /\ D[q] = trie[m]
  <2> SUFFICES ASSUME NEW m \in DOMAIN trie, HasValue(trie, m), Segs(m) \in Paths,
                      ~Clashes(Paths, Segs(m))
               PROVE  \E q \in DOMAIN D : Segs(q) = Segs(m) /\ D[q] = trie[m]
    OBVIOUS
  <2> QED BY <1>0, <1>1, DemoteKeeps
<1> HIDE DEF D, U
<1>6. /\ Named' = Named /\ Paths' = Paths /\ flat' = flat
      /\ \A k : Loaded(k)' = Loaded(k)
      /\ \A k : Held(trie, k)' <=> Held(trie', k)
  BY <1>0, SameSent
<1>7. ASSUME NEW n \in DOMAIN U, HasValue(U, n)
      PROVE  \E k \in Named : Segs(n) = Path(k) /\ U[n] = Loaded(k)
  <2>1. CASE n = cur BY <1>1, <1>2, <2>1 DEF v
  <2>2. CASE n # cur
    <3>1. n \in DOMAIN D /\ U[n] = D[n] BY <1>2, <2>2
    <3>2. PICK p \in DOMAIN trie : Segs(p) = Segs(n) /\ D[n] = trie[p] BY <1>4, <3>1
    <3> QED BY <1>0, <1>7, <3>1, <3>2 DEF Sourced, HasValue
  <2> QED BY <2>1, <2>2
<1>8. Sourced' BY <1>0, <1>6, <1>7 DEF Sourced
<1>9. ASSUME NEW k \in Named, ~Clashes(Paths, Path(k)), k = key \/ Held(trie, k)
      PROVE  Held(U, k)
  <2>1. CASE k = key BY <1>1, <1>2, <2>1 DEF Held, v
  <2>2. CASE Held(trie, k)
    <3>1. PICK n \in DOMAIN trie, j \in Named :
             Segs(n) = Path(k) /\ Path(j) = Path(k) /\ trie[n] = Loaded(j)
      BY <2>2 DEF Held
    <3>2. HasValue(trie, n) /\ Segs(n) \in Paths BY <1>0, <3>1, NamedTyped DEF HasValue
    <3>3. PICK q \in DOMAIN D : Segs(q) = Segs(n) /\ D[q] = trie[n] BY <1>5, <1>9, <3>1, <3>2
    <3>4. CASE q = cur BY <1>1, <1>2, <3>1, <3>3, <3>4 DEF Held, v
    <3>5. CASE q # cur BY <1>2, <3>1, <3>3, <3>5 DEF Held
    <3> QED BY <3>4, <3>5
  <2> QED BY <1>9, <2>1, <2>2
<1>10. Keeps' BY <1>0, <1>6, <1>9 DEF Keeps
<1>11. SentInv' BY <1>0, <1>6 DEF DecodeInv, SentInv
<1>12. TrieInv' BY <1>0, <1>2, <1>3, <1>6, <1>8 DEF TrieInv
<1> QED BY <1>0, <1>10, <1>11, <1>12 DEF DecodeInv, RangeInv, DoneInv

LEMMA SpanKindTyped == \A values : SpanKind(values) \in SpanKinds \cup {"UNKNOWN"}
BY DEF SpanKind

\* A project name is never empty.
LEMMA ProjectNamed ==
  ASSUME NEW kvs, IsList(kvs)
  PROVE  ProjectName(kvs) # ""
<1> DEFINE Named2(i) == /\ kvs[i].key = <<Word("openinference"), Word("project"), Word("name")>>
                        /\ Texts({kvs[i].value} \ {NoValue}) \ {""} # {}
           named == {i \in DOMAIN kvs : Named2(i)}
           first == CHOOSE i \in named : \A j \in named : i <= j
<1>1. ProjectName(kvs) = IF named = {} THEN "default" ELSE kvs[first].value.text
  BY DEF ProjectName
<1>2. ASSUME named # {} PROVE kvs[first].value.text # ""
  <2>1. DOMAIN kvs \subseteq Nat
    <3>1. kvs \in Seq(Range(kvs)) BY DEF IsList
    <3> QED BY <3>1, LenProperties
  <2>2. named \subseteq Nat BY <2>1
  <2>3. PICK i \in named : \A j \in named : i <= j
    <3> HIDE DEF named
    <3> QED BY <1>2, <2>2, LeastNatural
  <2>4. first \in named BY <2>3
  <2>5. Named2(first) BY <2>4
  <2> HIDE DEF first
  <2> QED BY <2>5 DEF Texts
<1> QED BY <1>1, <1>2

LEMMA FinishStep == DecodeInv /\ Finish => DecodeInv'
<1> SUFFICES ASSUME DecodeInv, Finish PROVE DecodeInv' OBVIOUS
<1>0. /\ pc = "range" /\ left = {} /\ pc' = "done" /\ sent \in Exports
      /\ rest' = rest /\ sent' = sent /\ left' = left /\ trie' = trie
      /\ key' = key /\ cur' = cur
  BY DEF DecodeInv, SentInv, Finish
<1>1. PICK view \in Views(Merged(flat, Materialized(trie))) :
        span' = [project |-> ProjectName(sent.resource),
                 attributes |-> Materialized(trie),
                 kind |-> SpanKind(At(flat, KeySpanKind)),
                 status |-> Status(sent.status),
                 start |-> UnixNano(sent.start), end |-> UnixNano(sent.end),
                 events |-> DecodeEvents(sent.events),
                 extracted |-> Extract(view)]
  BY DEF Finish
<1>2. /\ Named' = Named /\ Paths' = Paths /\ flat' = flat
      /\ \A k : Loaded(k)' = Loaded(k) /\ (Held(trie, k)' <=> Held(trie', k))
  BY <1>0, SameSent
<1>3. /\ span'.kind \in SpanKinds \cup {"UNKNOWN"} /\ span'.project # ""
      /\ span'.start \in -IntSize .. IntSize /\ span'.end \in -IntSize .. IntSize
  <2>1. UnixNano(sent.start) \in -IntSize .. IntSize /\ UnixNano(sent.end) \in -IntSize .. IntSize
    BY <1>0, ExportIs, WrappedTyped DEF UnixNano
  <2>2. /\ span'.kind = SpanKind(At(flat, KeySpanKind)) /\ span'.project = ProjectName(sent.resource)
        /\ span'.start = UnixNano(sent.start) /\ span'.end = UnixNano(sent.end)
    BY <1>1
  <2> QED BY <1>0, <2>1, <2>2, ExportIs, SpanKindTyped, ProjectNamed
<1>4. /\ span'.attributes = Materialized(trie')
      /\ \E w \in Views(Merged(flat', Materialized(trie'))) : span'.extracted = Extract(w)
  BY <1>0, <1>1, <1>2
<1>5. Extracted' BY <1>3, <1>4 DEF Extracted
<1>6. Keeps' BY <1>0, <1>2 DEF DecodeInv, RangeInv, Keeps
<1>7. SentInv' BY <1>0, <1>2 DEF DecodeInv, SentInv
<1>8. TrieInv' BY <1>0, <1>2 DEF DecodeInv, TrieInv, Sourced
<1> QED BY <1>0, <1>5, <1>6, <1>7, <1>8 DEF DecodeInv, RangeInv, DoneInv

LEMMA NextSpanStep == DecodeInv /\ NextSpan => DecodeInv'
<1> SUFFICES ASSUME DecodeInv, NextSpan PROVE DecodeInv' OBVIOUS
<1>1. /\ rest \in Seq(Exports) /\ rest # <<>> /\ sent' = Head(rest) /\ rest' = Tail(rest)
      /\ left' = DOMAIN FlatMap(sent'.attributes) /\ trie' = NewTrie /\ pc' = "range"
  BY DEF DecodeInv, SentInv, NextSpan
<1>2. sent' \in Exports /\ rest' \in Seq(Exports) BY <1>1, HeadTailProperties
<1>3. left' = DOMAIN flat' BY <1>1 DEF flat
<1>4. SentInv' BY <1>1, <1>2, <1>3 DEF SentInv
<1>5. TrieInv' BY <1>1, NewTrieIs DEF TrieInv, Sourced
<1>6. Keeps' BY <1>3 DEF Keeps, Named
<1> QED BY <1>1, <1>4, <1>5, <1>6 DEF DecodeInv, RangeInv, DoneInv

LEMMA RangeStep ==
  ASSUME NEW k \in left
  PROVE  DecodeInv /\ (Skip(k) \/ Take(k)) => DecodeInv'
<1> SUFFICES ASSUME DecodeInv, Skip(k) \/ Take(k) PROVE DecodeInv' OBVIOUS
<1>0. /\ pc = "range" /\ left' = left \ {k} /\ sent \in Exports /\ Keeps /\ Tree(trie)
      /\ rest' = rest /\ sent' = sent /\ trie' = trie /\ k \in DOMAIN flat
  BY DEF DecodeInv, SentInv, RangeInv, TrieInv, Skip, Take
<1>1. /\ Named' = Named /\ Paths' = Paths /\ flat' = flat
      /\ \A j : Loaded(j)' = Loaded(j) /\ (Held(trie, j)' <=> Held(trie', j))
  BY <1>0, SameSent
<1>2. TrieInv' BY <1>0, <1>1 DEF DecodeInv, TrieInv, Sourced
<1>3. CASE Skip(k)
  <2>1. k \notin Named /\ pc' = "range" BY <1>0, <1>3 DEF Skip, Named
  <2>2. Keeps' BY <1>0, <1>1, <2>1 DEF Keeps
  <2>3. SentInv' BY <1>0, <1>1, <2>1 DEF DecodeInv, SentInv
  <2> QED BY <1>2, <2>1, <2>2, <2>3 DEF DecodeInv, RangeInv, DoneInv
<1>4. CASE Take(k)
  <2>1. k \in Named /\ pc' = "step" /\ key' = k /\ cur' = Root BY <1>0, <1>4 DEF Take, Named
  <2>2. Keeps' BY <1>0, <1>1, <2>1 DEF Keeps
  <2>3. SentInv' BY <1>0, <1>1, <2>1 DEF DecodeInv, SentInv
  <2>4. AtKey'
    <3>1. Path(k) \in Seq(PathSeg) /\ Path(k) # <<>> BY <1>0, <2>1, NamedTyped
    <3>2. Len(Path(k)) \in Nat \ {0} BY <3>1, EmptySeq
    <3>3. Len(Root) = 0 /\ Root \in Address /\ Above(Path(k), 0) = <<>> BY <3>1, RootIs, AboveAll
    <3>4. Segs(Root) = <<>> BY <3>3, SegsTyped, EmptySeq
    <3>5. Root \in DOMAIN trie BY <1>0 DEF Tree
    <3> QED BY <1>0, <1>1, <2>1, <3>2, <3>3, <3>4, <3>5 DEF AtKey
  <2> QED BY <1>2, <2>1, <2>2, <2>3, <2>4 DEF DecodeInv, RangeInv, DoneInv
<1> QED BY <1>3, <1>4

LEMMA InvNext == DecodeInv /\ [Next]_vars => DecodeInv'
<1> SUFFICES ASSUME DecodeInv, [Next]_vars PROVE DecodeInv' OBVIOUS
<1>1. CASE NextSpan BY <1>1, NextSpanStep
<1>2. ASSUME NEW k \in left, Skip(k) \/ Take(k) PROVE DecodeInv' BY <1>2, RangeStep
<1>3. CASE StepBranch
  <2>1. "branch" \in {"branch", "index"} OBVIOUS
  <2>2. /\ Stepping
        /\ ~IsIndex(seg) \/ (~last /\ HasBranches(trie, cur))
        /\ cur' = Child(cur, "branch", seg) /\ trie' = WithNode(trie, cur')
        /\ UNCHANGED <<pc, rest, sent, left, key, span>>
    BY <1>3 DEF StepBranch
  <2> QED BY <2>1, <2>2, GrowStep
<1>4. CASE StepIndex
  <2>1. "index" \in {"branch", "index"} OBVIOUS
  <2>2. /\ Stepping /\ IsIndex(seg) /\ ~last /\ ~HasBranches(trie, cur)
        /\ cur' = Child(cur, "index", seg) /\ trie' = WithNode(trie, cur')
        /\ UNCHANGED <<pc, rest, sent, left, key, span>>
    BY <1>4 DEF StepIndex
  <2> QED BY <2>1, <2>2, GrowStep
<1>5. CASE StepLastDigits BY <1>5, LastDigitsStep
<1>6. CASE SetValue BY <1>6, SetStep
<1>7. CASE Finish BY <1>7, FinishStep
<1>8. CASE UNCHANGED vars
  <2>1. /\ rest' = rest /\ sent' = sent /\ left' = left /\ trie' = trie
        /\ key' = key /\ cur' = cur /\ pc' = pc /\ span' = span
    BY <1>8 DEF vars
  <2>2. /\ Named' = Named /\ Paths' = Paths /\ flat' = flat
        /\ \A j : Loaded(j)' = Loaded(j) /\ (Held(trie, j)' <=> Held(trie', j))
    BY <2>1, SameSent
  <2>3. SentInv' /\ TrieInv' BY <2>1, <2>2 DEF DecodeInv, SentInv, TrieInv, Sourced
  <2>4. RangeInv' BY <2>1, <2>2 DEF DecodeInv, RangeInv, Keeps, AtKey
  <2>5. DoneInv' BY <2>1, <2>2 DEF DecodeInv, DoneInv, Extracted
  <2> QED BY <2>3, <2>4, <2>5 DEF DecodeInv
<1> QED BY <1>1, <1>2, <1>3, <1>4, <1>5, <1>6, <1>7, <1>8 DEF Next, Returned

\* The tree, what is in it and what is kept of the span, at every state.
THEOREM DecodeInvariant == Spec => []DecodeInv
BY InvInit, InvNext, PTL DEF Spec
-----------------------------------------------------------------------------
(* What the invariant says of the properties. *)

\* TypeOK, for all requests: the trie stays a tree through every step of
\* Unflatten's add, whose position is always on the way of its key.
THEOREM TypeCorrect == Spec => []TypeOK
<1>1. ASSUME DecodeInv PROVE TypeOK
  <2>1. /\ Tree(trie) /\ sent \in Exports
        /\ pc = "step" => AtKey
        /\ pc = "done" => Extracted
        /\ pc \in {"idle", "range", "step", "done"} /\ left \subseteq DOMAIN flat
    BY <1>1 DEF DecodeInv, SentInv, TrieInv, RangeInv, DoneInv
  <2>2. ASSUME NEW n \in DOMAIN trie \ {Root}
        PROVE  /\ Above(n, Len(n) - 1) \in DOMAIN trie
               /\ n[Len(n)].track = "index" => ~HasValue(trie, n)
    <3>1. n \in Address /\ Len(n) - 1 \in 0 .. Len(n) BY <2>1, TreeIs, ParentIs
    <3> QED BY <2>1, <3>1, TreeIs
  <2>3. ASSUME pc = "step"
        PROVE  /\ cur \in DOMAIN trie /\ key \in DOMAIN flat
               /\ Spells(cur, Above(Path(key), Len(cur)))
    <3>1. /\ key \in Named /\ cur \in DOMAIN trie /\ Len(cur) <= Len(Path(key))
          /\ Segs(cur) = Above(Path(key), Len(cur))
      BY <2>1, <2>3 DEF AtKey
    <3>2. cur \in Address /\ Segs(cur) \in Seq(PathSeg) BY <2>1, <3>1, TreeIs, SegsTyped
    <3>3. Spells(cur, Segs(cur)) BY <3>2, SpellsIs
    <3> QED BY <2>1, <3>1, <3>3, NamedTyped
  <2>4. Root \in DOMAIN trie /\ ~HasValue(trie, Root) BY <2>1 DEF Tree
  <2> QED BY <2>1, <2>2, <2>3, <2>4 DEF TypeOK, Extracted
<1> QED BY <1>1, DecodeInvariant, PTL

LEMMA SpelledIs ==
  ASSUME DecodeInv, NEW n \in DOMAIN trie, NEW k \in Named
  PROVE  Spells(n, Path(k)) <=> Segs(n) = Path(k)
<1>1. Tree(trie) /\ sent \in Exports BY DEF DecodeInv, SentInv, TrieInv
<1> QED BY <1>1, TreeIs, NamedTyped, SpellsIs

\* Whatever the order, Unflatten's tree holds values of this span's
\* attributes only, each where its key says.
THEOREM InventsNothing == Spec => []NothingInvented
<1>1. ASSUME DecodeInv PROVE NothingInvented
  BY <1>1, SpelledIs DEF DecodeInv, TrieInv, Sourced, NothingInvented
<1> QED BY <1>1, DecodeInvariant, PTL

\* A node whose path goes through no mixed node is materialized.
LEMMA UnclashingIsVisible ==
  ASSUME NEW T, NEW P, Tree(T), Grown(T, P), NEW n \in DOMAIN T, HasValue(T, n),
         Segs(n) \in P, ~Clashes(P, Segs(n))
  PROVE  n \in Visible(T)
<1>1. /\ n \in Address /\ Len(n) \in Nat /\ DOMAIN n = 1 .. Len(n)
      /\ n[Len(n)].track = "branch" /\ Twin(n) \notin DOMAIN T
  BY TreeIs, AddressIs
<1> SUFFICES ASSUME NEW i \in 1 .. Len(n), Hidden(T, n, i) PROVE FALSE
  BY <1>1 DEF Visible
<1> DEFINE m == Above(n, i - 1)
<1>2. i - 1 \in 0 .. Len(n) /\ i \in 0 .. Len(n) /\ i - 1 \in 0 .. i BY <1>1
<1>3. m \in DOMAIN T /\ m \in Address /\ Len(m) = i - 1 /\ Above(n, i) \in DOMAIN T
      /\ Above(n, i) \in Address /\ Len(Above(n, i)) = i
  BY <1>1, <1>2, TreeIs, AboveIs DEF Address
<1>4. Above(Above(n, i), i - 1) = m /\ Above(n, i)[i] = n[i]
  BY <1>1, <1>2, AboveIs, AboveAbove DEF Address
<1>5. Above(n, Len(m)) = m BY <1>3
<1> HIDE DEF m
<1>6. /\ Segs(n) \in Seq(PathSeg) /\ Len(m) < Len(Segs(n)) /\ Len(Segs(n)) = Len(n)
      /\ Segs(m) = Above(Segs(n), Len(m)) /\ Segs(n)[Len(m) + 1] = n[Len(m) + 1].seg
      /\ Len(m) + 1 = i
  <2>1. Len(n) > Len(m) /\ Len(m) + 1 = i BY <1>1, <1>3
  <2> QED BY <1>1, <1>3, <1>5, <2>1, WayIs
<1>7. ASSUME IsIndex(n[i].seg), i # Len(n)
      PROVE  /\ Indexes(Segs(n), Segs(m)) /\ ~Mixes(P, Segs(m)) /\ m # Root
  <2>1. Len(m) + 1 < Len(Segs(n)) BY <1>1, <1>6, <1>7
  <2>2. Indexes(Segs(n), Segs(m)) /\ (m = Root <=> Segs(m) = Root)
    BY <1>3, <1>6, <1>7, <2>1, PassesIs
  <2>3. ~Mixes(P, Segs(m)) BY <1>3, <1>6, <2>2, NoClashIs
  <2> QED BY <2>2, <2>3 DEF Mixes
<1>8. CASE /\ n[i].track = "index"
           /\ m = Root \/ (~HasValue(T, m) /\ HasBranches(T, m))
  <2>1. i # Len(n) BY <1>1, <1>8
  <2>2. IsIndex(n[i].seg) BY <1>8, TreeIs
  <2>3. Indexes(Segs(n), Segs(m)) /\ ~Mixes(P, Segs(m)) /\ m # Root BY <1>7, <2>1, <2>2
  <2> QED BY <1>3, <1>8, <2>3 DEF Grown, AtRest
<1>9. CASE /\ n[i].track = "branch" /\ HasValue(T, m)
           /\ Child(m, "index", n[i].seg) \in DOMAIN T
  <2> DEFINE x == Child(m, "index", n[i].seg)
  <2>1. n[i].seg \in PathSeg /\ "index" \in Tracks BY <1>1, AddressIs DEF Tracks
  <2>2. /\ x \in Address /\ Len(x) = Len(m) + 1 /\ x # Root
        /\ x[Len(x)].track = "index" /\ x[Len(x)].seg = n[i].seg
        /\ Twin(x) = Child(m, "index", n[i].seg)
    BY ONLY <1>3, <2>1, StepChild
  <2>3. Above(x, Len(m)) = m
    <3>1. "index" \in {"branch", "index"} /\ m \in Address BY <1>3
    <3> QED BY ONLY <2>1, <3>1, ChildIs
  <2> HIDE DEF x
  <2>4. x \in DOMAIN T BY <1>9 DEF x
  <2>5. IsIndex(n[i].seg)
    <3>1. Len(x) \in 1 .. Len(x) BY <1>6, <2>2
    <3> QED BY <2>2, <2>4, <3>1, TreeIs
  <2>6. i # Len(n)
    <3> SUFFICES ASSUME i = Len(n) PROVE FALSE OBVIOUS
    <3>1. n # Root BY <1>1, RootIs
    <3>2. /\ Twin(n) \in Address /\ Len(Twin(n)) = Len(n)
          /\ Twin(n)[Len(n)].track = "index" /\ Twin(n)[Len(n)].seg = n[Len(n)].seg
          /\ Above(Twin(n), Len(n) - 1) = m
      BY <1>1, <3>1, TwinIs DEF m
    <3>3. Len(Twin(n)) = Len(m) + 1 /\ Above(Twin(n), Len(m)) = m
          /\ Twin(n)[Len(Twin(n))].track = "index" /\ Twin(n)[Len(Twin(n))].seg = n[i].seg
      BY <1>3, <1>6, <3>2
    <3>4. "index" \in {"branch", "index"} /\ m \in Address /\ Twin(n) \in Address BY <1>3, <3>2
    <3>5. Twin(n) = Child(m, "index", n[i].seg) BY ONLY <2>1, <3>3, <3>4, ChildOfParent
    <3> QED BY <1>1, <1>9, <3>5
  <2>7. Indexes(Segs(n), Segs(m)) /\ ~Mixes(P, Segs(m)) BY <1>7, <2>5, <2>6
  <2>8. Above(n, i) \in ChildrenOf(T, m, "branch") BY <1>3, <1>4, <1>6, <1>9 DEF ChildrenOf
  <2>9. x \in ChildrenOf(T, m, "index") BY <2>2, <2>3, <2>4 DEF ChildrenOf
  <2> QED BY <1>3, <2>7, <2>8, <2>9 DEF Grown, AtRest, HasBranches, HasIndices
<1> QED BY <1>8, <1>9 DEF Hidden, m

\* At the end every attribute that does not clash is in the tree.
LEMMA UnclashingIsHeld ==
  ASSUME DecodeInv, pc = "done", NEW k \in Named, ~Clashes(Paths, Path(k))
  PROVE  \E n \in Visible(trie) : \E j \in Named :
            /\ n \in DOMAIN trie /\ HasValue(trie, n)
            /\ Segs(n) = Path(k) /\ Path(j) = Path(k) /\ trie[n] = Loaded(j)
<1>1. /\ Tree(trie) /\ Grown(trie, Paths) /\ sent \in Exports /\ Keeps /\ left = {}
  BY DEF DecodeInv, SentInv, TrieInv, RangeInv, DoneInv
<1>2. PICK n \in DOMAIN trie, j \in Named :
         Segs(n) = Path(k) /\ Path(j) = Path(k) /\ trie[n] = Loaded(j)
  BY <1>1 DEF Keeps, Held
<1>3. HasValue(trie, n) /\ Segs(n) \in Paths BY <1>1, <1>2, NamedTyped DEF HasValue
<1>4. n \in Visible(trie) BY <1>1, <1>2, <1>3, UnclashingIsVisible
<1> QED BY <1>2, <1>3, <1>4

\* An attribute is dropped for another of its path or because it goes through
\* a position of a mixed node, and for no other reason.
THEOREM ExplainsLoss == Spec => []LossExplained
<1>1. ASSUME DecodeInv PROVE LossExplained
  <2> SUFFICES ASSUME pc = "done", NEW k \in Named, ~Clashes(Paths, Path(k))
               PROVE  \E j \in Named : Path(j) = Path(k) /\ Kept(j)
    BY DEF LossExplained
  <2>1. PICK n \in Visible(trie), j \in Named :
            /\ n \in DOMAIN trie /\ HasValue(trie, n)
            /\ Segs(n) = Path(k) /\ Path(j) = Path(k) /\ trie[n] = Loaded(j)
    BY <1>1, UnclashingIsHeld
  <2>2. Spells(n, Path(j)) BY <1>1, <2>1, SpelledIs
  <2> QED BY <2>1, <2>2 DEF Kept
<1> QED BY <1>1, DecodeInvariant, PTL
-----------------------------------------------------------------------------
(* When no path clashes the finished trie has one node for each path, and  *)
(* its branches and positions are those that the paths ask for.            *)

Complete(T, P) ==
    /\ Tree(T) /\ Grown(T, P) /\ P \in SUBSET Seq(PathSeg)
    /\ \A p \in P : ~Clashes(P, p)
    /\ \A p \in P : \E n \in DOMAIN T : HasValue(T, n) /\ Segs(n) = p
    /\ \A n \in DOMAIN T : HasValue(T, n) => Segs(n) \in P

LEMMA CompleteIs ==
  ASSUME NEW T, NEW P, Complete(T, P)
  PROVE  /\ \A m, n \in DOMAIN T : Segs(m) = Segs(n) => m = n
         /\ \A n \in DOMAIN T : HasValue(T, n) <=> Segs(n) \in P
<1>1. \A m, n \in DOMAIN T : Segs(m) = Segs(n) => m = n BY DEF Complete, Grown, Single
<1> QED BY <1>1 DEF Complete

\* Below a node without a value a child is a position if a path of its
\* segments makes it one.
LEMMA TrackIs ==
  ASSUME NEW T, NEW P, Complete(T, P), NEW m \in DOMAIN T, ~HasValue(T, m),
         NEW p \in P, Len(m) < Len(p), Segs(m) = Above(p, Len(m)),
         NEW c \in DOMAIN T, Len(c) = Len(m) + 1, Above(c, Len(m)) = m,
         c[Len(c)].seg = p[Len(m) + 1]
  PROVE  c[Len(c)].track = "index" <=> Indexes(p, Segs(m))
<1>1. /\ Tree(T) /\ Grown(T, P) /\ p \in Seq(PathSeg) /\ ~Clashes(P, p)
      /\ m \in Address /\ c \in Address /\ Len(m) \in Nat /\ Len(p) \in Nat
  BY TreeIs, LenProperties DEF Complete
<1>2. /\ Indexes(p, Segs(m)) <=> IsIndex(p[Len(m) + 1]) /\ Len(m) + 1 < Len(p)
      /\ Len(c) \in 1 .. Len(c) /\ c[Len(c)].track \in {"branch", "index"}
      /\ c[Len(c)].seg \in PathSeg
  BY <1>1, PassesIs, AddressIs
<1>3. ASSUME Indexes(p, Segs(m)) PROVE c[Len(c)].track = "index"
  <2>1. ~Mixes(P, Segs(m)) BY <1>1, <1>3, NoClashIs
  <2>2. ~HasBranches(T, m) BY <1>1, <1>3, <2>1 DEF Grown, AtRest
  <2>3. c[Len(c)].track # "branch" BY <2>2 DEF HasBranches, ChildrenOf
  <2> QED BY <1>2, <2>3
<1>4. ASSUME c[Len(c)].track = "index" PROVE Indexes(p, Segs(m))
  <2>1. IsIndex(p[Len(m) + 1]) BY <1>1, <1>2, <1>4, TreeIs
  <2>2. Len(m) + 1 # Len(p)
    <3> SUFFICES ASSUME Len(m) + 1 = Len(p) PROVE FALSE OBVIOUS
    <3> DEFINE t == c[Len(c)].track
               s == p[Len(m) + 1]
    <3>1. c = Child(m, t, s)
      <4>1. t \in {"branch", "index"} /\ s \in PathSeg BY <1>2
      <4>2. m \in Address /\ c \in Address BY <1>1
      <4>3. c[Len(c)].track = t /\ c[Len(c)].seg = s OBVIOUS
      <4> HIDE DEF t, s
      <4> QED BY <4>1, <4>2, <4>3, ChildOfParent
    <3>2. Segs(Child(m, t, s)) = Above(p, Len(m) + 1)
      <4>1. t \in {"branch", "index"} /\ s = p[Len(m) + 1] BY <1>2
      <4> HIDE DEF t, s
      <4> QED BY <1>1, <4>1, NextIs
    <3>3. Segs(c) = p BY <1>1, <3>1, <3>2, AboveAll
    <3>4. HasValue(T, c) BY <3>3, CompleteIs
    <3> QED BY <1>1, <1>4, <3>4, TreeIs
  <2> QED BY <1>1, <1>2, <2>1, <2>2
<1> QED BY <1>3, <1>4

\* The positions below such a node are those that the paths give it.
LEMMA PositionsAre ==
  ASSUME NEW T, NEW P, Complete(T, P), NEW m \in DOMAIN T, ~HasValue(T, m)
  PROVE  /\ \A c \in ChildrenOf(T, m, "index") : \E p \in P :
               Indexes(p, Segs(m)) /\ p[Len(m) + 1] = c[Len(m) + 1].seg
         /\ \A p \in P : Indexes(p, Segs(m)) =>
               \E c \in ChildrenOf(T, m, "index") : p[Len(m) + 1] = c[Len(m) + 1].seg
         /\ \A b, c \in ChildrenOf(T, m, "index") :
               b[Len(m) + 1].seg = c[Len(m) + 1].seg => b = c
<1> DEFINE d == Len(m) + 1
           B == ChildrenOf(T, m, "index")
<1>1. Tree(T) /\ Grown(T, P) /\ P \in SUBSET Seq(PathSeg) BY DEF Complete
<1>2. m \in Address /\ Len(m) \in Nat /\ Segs(m) \in Seq(PathSeg) /\ Len(Segs(m)) = Len(m)
  BY <1>1, TreeIs, SegsTyped
<1>3. ASSUME NEW c \in B
      PROVE  /\ c \in DOMAIN T /\ c \in Address /\ Len(c) = d /\ Above(c, Len(m)) = m
             /\ c[d].track = "index" /\ IsIndex(c[d].seg) /\ c[d].seg \in PathSeg
  <2>1. c \in DOMAIN T /\ Len(c) = d /\ Above(c, Len(m)) = m /\ c[d].track = "index"
    BY DEF ChildrenOf
  <2>2. d \in 1 .. Len(c) /\ c \in Address BY <1>1, <1>2, <2>1, TreeIs
  <2> QED BY <1>1, <2>1, <2>2, TreeIs, AddressIs
<1>4. ASSUME NEW c \in B PROVE \E p \in P : Indexes(p, Segs(m)) /\ p[d] = c[d].seg
  <2>0. c # Root BY <1>2, <1>3, RootIs
  <2>1. PICK p \in P : Len(c) < Len(p) /\ Segs(c) = Above(p, Len(c))
    <3>1. PICK p \in P : /\ Len(c) <= Len(p) /\ Segs(c) = Above(p, Len(c))
                         /\ c[Len(c)].track = "index" => Len(c) < Len(p)
      BY <1>1, <1>3, <2>0 DEF Grown, OnTheWay
    <3> QED BY <1>3, <3>1
  <2>2. p \in Seq(PathSeg) /\ Len(p) \in Nat BY <1>1, LenProperties
  <2>3. Len(m) < Len(p) /\ Segs(m) = Above(p, Len(m)) /\ p[d] = c[d].seg
    <3>1. Len(c) = Len(m) + 1 /\ Len(c) <= Len(p) BY <1>2, <1>3, <2>1, <2>2
    <3> QED BY <1>2, <1>3, <2>1, <2>2, <3>1, SegsOfChild
  <2>4. Len(m) + 1 < Len(p) /\ IsIndex(p[Len(m) + 1]) BY <1>3, <2>1, <2>3
  <2>5. Indexes(p, Segs(m)) BY <1>2, <2>2, <2>3, <2>4, PassesIs
  <2> QED BY <2>3, <2>5
<1>5. ASSUME NEW p \in P, Indexes(p, Segs(m)) PROVE \E c \in B : p[d] = c[d].seg
  <2>1. PICK n \in DOMAIN T : Segs(n) = p BY DEF Complete
  <2>2. n \in Address /\ Len(n) \in Nat /\ Len(n) = Len(p) BY <1>1, <2>1, TreeIs, SegsTyped
  <2>3. d < Len(p) /\ Above(p, Len(m)) = Segs(m) BY <1>2, <1>5 DEF Indexes, Passes
  <2> DEFINE c == Above(n, d)
             w == Above(n, Len(m))
  <2>4. d \in 0 .. Len(n) /\ Len(m) \in 0 .. Len(n) /\ Len(m) \in 0 .. d BY <1>2, <2>2, <2>3
  <2>5. /\ c \in DOMAIN T /\ c \in Address /\ Len(c) = d /\ c[d] = n[d] /\ Above(c, Len(m)) = w
        /\ w \in DOMAIN T
    <3>1. d \in 1 .. d BY <1>2
    <3> QED BY <1>1, <2>2, <2>4, <3>1, TreeIs, AboveIs, AboveAbove DEF Address
  <2>6. w = m
    <3>1. Segs(w) = Above(p, Len(m)) BY <2>1, <2>2, <2>4, SegsAbove
    <3> HIDE DEF w
    <3> QED BY <2>3, <2>5, <3>1, CompleteIs
  <2>7. n[d].seg = p[d]
    <3>1. d \in 1 .. Len(n) BY <1>2, <2>2, <2>3
    <3> QED BY <2>1, <2>2, <3>1, SegsTyped
  <2> HIDE DEF c, w
  <2>8. c[Len(c)].track = "index"
    <3>1. /\ Len(m) < Len(p) /\ Segs(m) = Above(p, Len(m)) /\ Len(c) = Len(m) + 1
          /\ Above(c, Len(m)) = m /\ c[Len(c)].seg = p[Len(m) + 1]
      BY <1>2, <2>2, <2>3, <2>5, <2>6, <2>7
    <3> QED BY <1>5, <2>5, <3>1, TrackIs
  <2>9. c \in B BY <2>5, <2>6, <2>8 DEF ChildrenOf
  <2> QED BY <2>5, <2>7, <2>9
<1>6. ASSUME NEW b \in B, NEW c \in B, b[d].seg = c[d].seg PROVE b = c
  <2> DEFINE s == b[d].seg
  <2>1. "index" \in {"branch", "index"} /\ s \in PathSeg BY <1>3
  <2>2. /\ b \in Address /\ Len(b) = Len(m) + 1 /\ Above(b, Len(m)) = m
        /\ b[Len(b)].track = "index" /\ b[Len(b)].seg = s
    BY <1>3
  <2>3. /\ c \in Address /\ Len(c) = Len(m) + 1 /\ Above(c, Len(m)) = m
        /\ c[Len(c)].track = "index" /\ c[Len(c)].seg = s
    BY <1>3, <1>6
  <2> HIDE DEF s
  <2>4. b = Child(m, "index", s) BY ONLY <1>2, <2>1, <2>2, ChildOfParent
  <2>5. c = Child(m, "index", s) BY ONLY <1>2, <2>1, <2>3, ChildOfParent
  <2> QED BY <2>4, <2>5
<1> QED BY <1>4, <1>5, <1>6

\* A one-to-one correspondence keeps the count.
LEMMA SameCount ==
  ASSUME NEW S, IsFiniteSet(S), NEW R, NEW f \in [S -> R],
         \A x, y \in S : f[x] = f[y] => x = y, \A z \in R : \E x \in S : f[x] = z
  PROVE  IsFiniteSet(R) /\ Cardinality(R) = Cardinality(S)
<1>1. f \in Injection(S, R) BY DEF Injection, IsInjective
<1>2. f \in Surjection(S, R) BY DEF Surjection
<1>3. ExistsBijection(S, R) BY <1>1, <1>2 DEF Bijection, ExistsBijection
<1> QED BY <1>3, FS_Bijection

\* The positions the paths give to the children of a node.
Positions(P, n) == {q[Len(n) + 1] : q \in {q \in P : Indexes(q, n)}}

LowerPositions(P, n, v) == {s \in Positions(P, n) : s.num < v}
LowerIndices(T, m, v) == {b \in ChildrenOf(T, m, "index") : b[Len(m) + 1].seg.num < v}

\* sortedIndices counts the positions that the paths name.
LEMMA RankIs ==
  ASSUME NEW T, NEW P, Complete(T, P), NEW m \in DOMAIN T, ~HasValue(T, m), NEW v
  PROVE  Cardinality(LowerIndices(T, m, v)) = Cardinality(LowerPositions(P, Segs(m), v))
<1> DEFINE B == {b \in ChildrenOf(T, m, "index") : b[Len(m) + 1].seg.num < v}
           Q == {s \in Positions(P, Segs(m)) : s.num < v}
           f == [b \in B |-> b[Len(m) + 1].seg]
<1>1. Len(Segs(m)) = Len(m) BY TreeIs, SegsTyped DEF Complete
<1>2. Positions(P, Segs(m)) = {q[Len(m) + 1] : q \in {q \in P : Indexes(q, Segs(m))}}
  BY <1>1 DEF Positions
<1>3. IsFiniteSet(B)
  <2>1. B \in SUBSET DOMAIN T BY DEF ChildrenOf
  <2>2. IsFiniteSet(DOMAIN T) BY DEF Complete, Tree
  <2> HIDE DEF B
  <2> QED BY <2>1, <2>2, FS_Subset
<1>4. ASSUME NEW b \in B PROVE b[Len(m) + 1].seg \in Q
  <2>1. PICK p \in P : Indexes(p, Segs(m)) /\ p[Len(m) + 1] = b[Len(m) + 1].seg
    BY PositionsAre
  <2>2. p[Len(m) + 1] \in Positions(P, Segs(m)) BY <1>2, <2>1
  <2> QED BY <2>1, <2>2
<1>5. f \in [B -> Q] BY <1>4
<1>6. \A x, y \in B : f[x] = f[y] => x = y BY PositionsAre
<1>7. ASSUME NEW z \in Q PROVE \E x \in B : f[x] = z
  <2>1. PICK p \in P : Indexes(p, Segs(m)) /\ z = p[Len(m) + 1] /\ z.num < v BY <1>2
  <2>2. PICK c \in ChildrenOf(T, m, "index") : p[Len(m) + 1] = c[Len(m) + 1].seg
    BY <2>1, PositionsAre
  <2>3. c \in B BY <2>1, <2>2
  <2> QED BY <2>1, <2>2, <2>3
<1> HIDE DEF B, Q, f
<1>8. Cardinality(Q) = Cardinality(B) BY <1>3, <1>5, <1>6, <1>7, SameCount
<1> QED BY <1>8 DEF B, Q, LowerIndices, LowerPositions

\* A value of the finished trie is where the set of keys says.
LEMMA PlaceIs ==
  ASSUME NEW T, NEW P, Complete(T, P), NEW n \in DOMAIN T, Segs(n) \in P
  PROVE  Place(T, n) = Expected(P, Segs(n))
<1> DEFINE p == Segs(n)
<1>1. /\ Tree(T) /\ n \in Address /\ Len(n) \in Nat /\ DOMAIN n = 1 .. Len(n)
      /\ p \in Seq(PathSeg) /\ Len(p) = Len(n) /\ DOMAIN p = 1 .. Len(n)
      /\ \A i \in 1 .. Len(n) : p[i] = n[i].seg
  <2>1. Tree(T) /\ n \in Address BY TreeIs DEF Complete
  <2>2. p \in Seq(PathSeg) /\ Len(p) = Len(n) /\ \A i \in 1 .. Len(n) : p[i] = n[i].seg
    BY <2>1, SegsTyped
  <2>3. DOMAIN p = 1 .. Len(p) BY <2>2, LenProperties
  <2> QED BY <2>1, <2>2, <2>3, AddressIs
<1>2. p \in P OBVIOUS
<1> HIDE DEF p
<1> SUFFICES ASSUME NEW i \in 1 .. Len(n) PROVE Place(T, n)[i] = Expected(P, p)[i]
  <2>1. Place(T, n) = [i \in 1 .. Len(n) |-> Place(T, n)[i]] BY <1>1 DEF Place
  <2>2. Expected(P, p) = [i \in 1 .. Len(n) |-> Expected(P, p)[i]] BY <1>1 DEF Expected
  <2>3. Place(T, n) = Expected(P, p) BY <2>1, <2>2
  <2> QED BY <2>3 DEF p
<1> DEFINE m == Above(n, i - 1)
           c == Above(n, i)
           S == {b \in ChildrenOf(T, m, "index") : b[i].seg.num < n[i].seg.num}
           R == {s \in {q[i] : q \in {q \in P : Indexes(q, Above(p, i - 1))}} : s.num < p[i].num}
<1>3. Place(T, n)[i] =
        IF HasValue(T, m) THEN <<"dotted", n[i].seg>>
        ELSE IF n[i].track = "index" THEN <<"item", Cardinality(S)>>
        ELSE <<"key", n[i].seg>>
  BY <1>1 DEF Place, Rank
<1>4. Expected(P, p)[i] =
        IF Above(p, i - 1) \in P THEN <<"dotted", p[i]>>
        ELSE IF IsIndex(p[i]) /\ i < Len(p) THEN <<"item", Cardinality(R)>>
        ELSE <<"key", p[i]>>
  BY <1>1 DEF Expected
<1>5. i - 1 \in 0 .. Len(n) /\ i \in 0 .. Len(n) /\ i - 1 \in 0 .. i /\ i \in 1 .. i BY <1>1
<1>6. /\ m \in DOMAIN T /\ c \in DOMAIN T /\ m \in Address /\ Len(m) = i - 1 /\ Len(c) = i
      /\ Above(c, i - 1) = m /\ c[i] = n[i]
  <2>1. m \in DOMAIN T /\ c \in DOMAIN T BY <1>1, <1>5, TreeIs
  <2>2. m \in Address /\ Len(m) = i - 1 BY <1>1, <1>5, AboveIs DEF Address
  <2>3. Len(c) = i /\ \A j \in 1 .. i : c[j] = n[j] BY <1>1, <1>5, AboveIs DEF Address
  <2>4. Above(c, i - 1) = m BY <1>1, <1>5, AboveAbove DEF Address
  <2> QED BY <1>5, <2>1, <2>2, <2>3, <2>4
<1>7. Segs(m) = Above(p, i - 1) BY <1>1, <1>5, SegsAbove DEF p
<1>8. p[i] = n[i].seg /\ Len(m) + 1 = i /\ Len(m) < Len(p) BY <1>1, <1>6
<1>9. HasValue(T, m) <=> Above(p, i - 1) \in P BY <1>6, <1>7, CompleteIs
<1>10. CASE HasValue(T, m) BY <1>3, <1>4, <1>8, <1>9, <1>10
<1>11. CASE ~HasValue(T, m)
  <2> HIDE DEF m, c
  <2>1. Segs(m) = Above(p, Len(m)) /\ Len(c) = Len(m) + 1 /\ Above(c, Len(m)) = m
    BY <1>6, <1>7, <1>8
  <2>2. c[Len(c)].seg = p[Len(m) + 1] BY <1>6, <1>8
  <2>3. c[Len(c)].track = "index" <=> Indexes(p, Segs(m))
    BY <1>2, <1>6, <1>8, <1>11, <2>1, <2>2, TrackIs
  <2>4. Indexes(p, Segs(m)) <=> IsIndex(p[i]) /\ i < Len(p)
    BY <1>1, <1>6, <1>8, <2>1, PassesIs
  <2>5. n[i].track = "index" <=> IsIndex(p[i]) /\ i < Len(p) BY <1>6, <2>3, <2>4
  <2>6. Cardinality(S) = Cardinality(R)
    <3>1. R = LowerPositions(P, Segs(m), p[i].num)
      <4>1. Len(Segs(m)) + 1 = i BY <1>6, <1>8, SegsTyped
      <4> QED BY <1>7, <4>1 DEF LowerPositions, Positions
    <3>2. S = LowerIndices(T, m, p[i].num) BY <1>8 DEF LowerIndices
    <3> HIDE DEF S, R
    <3>3. Cardinality(LowerIndices(T, m, p[i].num)) = Cardinality(LowerPositions(P, Segs(m), p[i].num))
      <4>1. Complete(T, P) /\ m \in DOMAIN T /\ ~HasValue(T, m) BY <1>6, <1>11
      <4> QED BY ONLY <4>1, RankIs
    <3> QED BY <3>1, <3>2, <3>3
  <2> QED BY <1>3, <1>4, <1>8, <1>9, <1>11, <2>5, <2>6
<1> QED BY <1>10, <1>11

\* Of two positions below a node the lower number has the lower rank.
LEMMA RankDiffers ==
  ASSUME NEW P \in SUBSET Seq(PathSeg), IsFiniteSet(P),
         NEW n \in Seq(PathSeg), NEW s \in Positions(P, n), NEW r \in Positions(P, n), s.num \in Int, r.num \in Int,
         s.num < r.num
  PROVE  Cardinality(LowerPositions(P, n, s.num)) # Cardinality(LowerPositions(P, n, r.num))
<1> DEFINE S == {q \in Positions(P, n) : q.num < s.num}
           R == {q \in Positions(P, n) : q.num < r.num}
<1>1. IsFiniteSet(Positions(P, n)) /\ \A q \in Positions(P, n) : q.num \in Int
  <2> DEFINE Q == {q \in P : Indexes(q, n)}
             f == [q \in Q |-> q[Len(n) + 1]]
  <2>1. IsFiniteSet(Q) BY FS_Subset
  <2>2. f \in Surjection(Q, Positions(P, n)) BY DEF Surjection, Positions
  <2>3. IsFiniteSet(Positions(P, n))
    <3> HIDE DEF Q, f
    <3> QED BY <2>1, <2>2, FS_Surjection
  <2>4. ASSUME NEW q \in Q PROVE q[Len(n) + 1].num \in Int
    <3>1. q \in Seq(PathSeg) /\ Len(q) \in Nat /\ Len(n) \in Nat BY LenProperties
    <3>2. Len(n) + 1 \in 1 .. Len(q) BY <3>1 DEF Indexes, Passes
    <3>3. q[Len(n) + 1] \in PathSeg BY <3>1, <3>2, ElementOfSeq
    <3> QED BY <3>3 DEF PathSeg
  <2> QED BY <2>3, <2>4 DEF Positions
<1>2. S \in SUBSET R /\ s \in R /\ s \notin S BY <1>1
<1>3. IsFiniteSet(R) BY <1>1, FS_Subset
<1> HIDE DEF S, R
<1>4. Cardinality(R) # Cardinality(S) BY <1>2, <1>3, FS_Subset
<1> QED BY <1>4 DEF S, R, LowerPositions

\* No two paths are given the same place.
LEMMA ExpectedDiffers ==
  ASSUME NEW P \in SUBSET Seq(PathSeg), IsFiniteSet(P), NEW p \in P, NEW q \in P,
         Expected(P, p) = Expected(P, q)
  PROVE  p = q
<1>1. /\ p \in Seq(PathSeg) /\ q \in Seq(PathSeg) /\ Len(p) \in Nat /\ Len(q) \in Nat
      /\ DOMAIN p = 1 .. Len(p) /\ DOMAIN q = 1 .. Len(q)
  BY LenProperties
<1>2. Len(p) = Len(q)
  <2>1. DOMAIN Expected(P, p) = 1 .. Len(p) /\ DOMAIN Expected(P, q) = 1 .. Len(q)
    BY <1>1 DEF Expected
  <2>2. 1 .. Len(p) = 1 .. Len(q) BY <2>1
  <2>3. Len(p) <= Len(q)
    <3>1. Len(p) = 0 \/ Len(p) \in 1 .. Len(p) BY <1>1
    <3>2. Len(p) = 0 \/ Len(p) \in 1 .. Len(q) BY ONLY <2>2, <3>1
    <3> QED BY <1>1, <3>2
  <2>4. Len(q) <= Len(p)
    <3>1. Len(q) = 0 \/ Len(q) \in 1 .. Len(q) BY <1>1
    <3>2. Len(q) = 0 \/ Len(q) \in 1 .. Len(p) BY ONLY <2>2, <3>1
    <3> QED BY <1>1, <3>2
  <2>5. Len(p) \in Nat /\ Len(q) \in Nat BY <1>1
  <2> QED BY ONLY <2>3, <2>4, <2>5
<1>3. ASSUME NEW i \in 1 .. Len(p), \A j \in 1 .. i - 1 : p[j] = q[j] PROVE p[i] = q[i]
  <2> DEFINE n == Above(p, i - 1)
  <2>1. i - 1 \in 0 .. Len(p) /\ i \in 1 .. Len(q) /\ i \in Nat BY <1>1, <1>2
  <2>2. n \in Seq(PathSeg) /\ Len(n) = i - 1 /\ \A j \in 1 .. i - 1 : n[j] = p[j]
    BY <1>1, <2>1, AboveIs
  <2>3. /\ Above(q, i - 1) \in Seq(PathSeg) /\ Len(Above(q, i - 1)) = i - 1
        /\ \A j \in 1 .. i - 1 : Above(q, i - 1)[j] = q[j]
    BY <1>1, <1>2, <2>1, AboveIs
  <2>4. Above(q, i - 1) = n BY <1>3, <2>2, <2>3, SeqEqual
  <2> HIDE DEF n
  <2>5. Len(n) + 1 = i BY <2>1, <2>2
  <2> DEFINE E(s) == Cardinality(LowerPositions(P, n, s[i].num))
             at(s) == IF n \in P THEN <<"dotted", s[i]>>
                      ELSE IF IsIndex(s[i]) /\ i < Len(s) THEN <<"item", E(s)>>
                      ELSE <<"key", s[i]>>
  <2>6. Positions(P, n) = {x[i] : x \in {x \in P : Indexes(x, n)}} BY <2>5 DEF Positions
  <2>7. Expected(P, p)[i] = at(p) BY <1>1, <2>6 DEF Expected, LowerPositions, n
  <2>8. Expected(P, q)[i] = at(q) BY <1>1, <2>1, <2>4, <2>6 DEF Expected, LowerPositions
  <2>9. at(p) = at(q) BY <2>7, <2>8
  <2>10. p[i] \in PathSeg /\ q[i] \in PathSeg BY <1>1, <2>1, ElementOfSeq
  <2>11. CASE n \notin P /\ IsIndex(p[i]) /\ i < Len(p) /\ IsIndex(q[i])
    <3>1. E(p) = E(q)
      <4> HIDE DEF E
      <4> QED BY <1>2, <2>9, <2>11
    <3>2. Indexes(p, n) /\ Indexes(q, n)
      <4>1. Len(p) > Len(n) /\ Len(q) > Len(n) /\ Len(p) > Len(n) + 1 /\ Len(q) > Len(n) + 1
        BY <1>1, <1>2, <2>1, <2>5, <2>11
      <4>2. Above(p, Len(n)) = n /\ Above(q, Len(n)) = n BY <2>2, <2>4 DEF n
      <4> QED BY <2>5, <2>11, <4>1, <4>2 DEF Indexes, Passes
    <3>3. p[i] \in Positions(P, n) /\ q[i] \in Positions(P, n) BY <2>6, <3>2
    <3>4. p[i].num \in Int /\ q[i].num \in Int BY <2>10 DEF PathSeg
    <3>5. ~(p[i].num < q[i].num) /\ ~(q[i].num < p[i].num)
      BY <2>2, <3>1, <3>3, <3>4, RankDiffers
    <3>6. p[i].num = q[i].num BY <3>4, <3>5
    <3>7. p[i].word = q[i].word BY <2>11 DEF IsIndex
    <3>8. /\ p[i] = [word |-> p[i].word, num |-> p[i].num]
          /\ q[i] = [word |-> q[i].word, num |-> q[i].num]
      BY ONLY <2>10 DEF PathSeg
    <3> QED BY <3>6, <3>7, <3>8
  <2> HIDE DEF E
  <2>12. CASE ~(n \notin P /\ IsIndex(p[i]) /\ i < Len(p) /\ IsIndex(q[i]))
    <3> DEFINE item(s) == IsIndex(s[i]) /\ i < Len(s)
    <3>1. CASE n \in P
      <4>1. at(p)[2] = p[i] /\ at(q)[2] = q[i] BY <3>1
      <4> HIDE DEF at
      <4> QED BY <2>9, <4>1
    <3>2. CASE n \notin P /\ ~item(p) /\ ~item(q)
      <4>1. at(p)[2] = p[i] /\ at(q)[2] = q[i] BY <3>2
      <4> HIDE DEF at
      <4> QED BY <2>9, <4>1
    <3>3. CASE n \notin P /\ item(p) /\ ~item(q)
      <4>1. at(p)[1] = "item" /\ at(q)[1] = "key" BY <3>3
      <4> HIDE DEF at
      <4> QED BY <2>9, <4>1
    <3>4. CASE n \notin P /\ ~item(p) /\ item(q)
      <4>1. at(p)[1] = "key" /\ at(q)[1] = "item" BY <3>4
      <4> HIDE DEF at
      <4> QED BY <2>9, <4>1
    <3> QED BY <1>2, <2>12, <3>1, <3>2, <3>3, <3>4
  <2> QED BY <2>11, <2>12
<1> DEFINE N == {k \in Nat : k <= Len(p) => \A j \in 1 .. k : p[j] = q[j]}
<1>4. 0 \in N OBVIOUS
<1>5. ASSUME NEW k \in Nat, k \in N PROVE k + 1 \in N
  <2> SUFFICES ASSUME k + 1 <= Len(p) PROVE \A j \in 1 .. k + 1 : p[j] = q[j] OBVIOUS
  <2>1. k + 1 \in 1 .. Len(p) /\ (k + 1) - 1 = k BY <1>1
  <2>2. \A j \in 1 .. k : p[j] = q[j] BY <1>1, <1>5
  <2>3. p[k + 1] = q[k + 1] BY <1>3, <2>1, <2>2
  <2>4. \A j \in 1 .. k + 1 : j \in 1 .. k \/ j = k + 1 OBVIOUS
  <2> QED BY <2>2, <2>3, <2>4
<1>6. Len(p) \in N
  <2> HIDE DEF N
  <2> QED BY <1>1, <1>4, <1>5, Upward
<1> QED BY <1>1, <1>2, <1>6, SeqEqual

\* The finished tree of a span none of whose paths clash.
LEMMA DoneIsComplete ==
  ASSUME DecodeInv, pc = "done", \A p \in Paths : ~Clashes(Paths, p)
  PROVE  Complete(trie, Paths) /\ Visible(trie) = {n \in DOMAIN trie : HasValue(trie, n)}
<1>1. Tree(trie) /\ Grown(trie, Paths) /\ Sourced /\ sent \in Exports
  BY DEF DecodeInv, SentInv, TrieInv
<1>2. Paths \in SUBSET Seq(PathSeg) BY <1>1, NamedTyped
<1>3. ASSUME NEW p \in Paths PROVE \E n \in DOMAIN trie : HasValue(trie, n) /\ Segs(n) = p
  <2>1. PICK k \in Named : p = Path(k) BY DEF Paths
  <2> QED BY <2>1, UnclashingIsHeld
<1>4. \A n \in DOMAIN trie : HasValue(trie, n) => Segs(n) \in Paths BY <1>1 DEF Sourced, Paths
<1>5. \A n \in DOMAIN trie : HasValue(trie, n) => n \in Visible(trie)
  BY <1>1, <1>4, UnclashingIsVisible
<1>6. Visible(trie) = {n \in DOMAIN trie : HasValue(trie, n)} BY <1>5 DEF Visible
<1> QED BY <1>1, <1>2, <1>3, <1>4, <1>6 DEF Complete

LEMMA PathsFinite == sent \in Exports => IsFiniteSet(Paths)
<1> SUFFICES ASSUME sent \in Exports PROVE IsFiniteSet(Paths) OBVIOUS
<1> DEFINE f == [k \in Named |-> Path(k)]
<1>1. f \in Surjection(Named, Paths) BY DEF Surjection, Paths
<1> HIDE DEF f
<1> QED BY <1>1, NamedTyped, FS_Surjection

\* Unflatten's rules, for all requests and every order of the Go map: the
\* tree of a span none of whose nodes mixes positions with plain keys is the
\* one that the set of its keys asks for.
THEOREM ForgetsOrder == Spec => []OrderIsIrrelevant
<1>1. ASSUME DecodeInv PROVE OrderIsIrrelevant
  <2> SUFFICES ASSUME pc = "done", \A p \in Paths : ~Clashes(Paths, p)
               PROVE  /\ {l.at : l \in span.attributes} = {Expected(Paths, p) : p \in Paths}
                      /\ Cardinality(span.attributes) = Cardinality(Paths)
                      /\ \A l \in span.attributes : \E k \in Named :
                            l = [at |-> Expected(Paths, Path(k)), value |-> Loaded(k)]
    BY DEF OrderIsIrrelevant
  <2> DEFINE P == Paths
             W == {n \in DOMAIN trie : HasValue(trie, n)}
             leaf(n) == [at |-> Place(trie, n), value |-> trie[n]]
  <2>1. Complete(trie, P) /\ Visible(trie) = W BY <1>1, DoneIsComplete
  <2>2. sent \in Exports /\ Sourced /\ span.attributes = Materialized(trie)
    BY <1>1 DEF DecodeInv, SentInv, TrieInv, DoneInv, Extracted
  <2>3. span.attributes = {leaf(n) : n \in W} BY <2>1, <2>2 DEF Materialized
  <2>4. P \in SUBSET Seq(PathSeg) /\ IsFiniteSet(P) BY <2>2, NamedTyped, PathsFinite
  <2>5. ASSUME NEW n \in W PROVE Segs(n) \in P /\ leaf(n).at = Expected(P, Segs(n))
    <3>1. n \in DOMAIN trie /\ Segs(n) \in P BY <2>1 DEF Complete
    <3> HIDE DEF P
    <3> QED BY <2>1, <3>1, PlaceIs
  <2>6. \A p \in P : \E n \in W : Segs(n) = p BY <2>1 DEF Complete
  <2>7. \A m, n \in W : Segs(m) = Segs(n) => m = n BY <2>1, CompleteIs
  <2>8. {l.at : l \in span.attributes} = {Expected(P, p) : p \in P}
    <3> HIDE DEF P, W, leaf
    <3> QED BY <2>3, <2>5, <2>6
  <2>9. Cardinality(span.attributes) = Cardinality(P)
    <3> DEFINE node(p) == CHOOSE n \in W : Segs(n) = p
               f == [p \in P |-> leaf(node(p))]
    <3> HIDE DEF P, W, leaf
    <3>1. \A p \in P : node(p) \in W /\ Segs(node(p)) = p BY <2>6
    <3>2. \A n \in W : node(Segs(n)) = n BY <2>5, <2>7, <3>1
    <3> HIDE DEF node
    <3>3. f \in [P -> span.attributes] BY <2>3, <3>1
    <3>4. ASSUME NEW p \in P, NEW q \in P, f[p] = f[q] PROVE p = q
      <4>1. Expected(P, p) = Expected(P, q) BY <2>5, <3>1, <3>4
      <4> QED BY <2>4, <4>1, ExpectedDiffers
    <3>5. ASSUME NEW l \in span.attributes PROVE \E p \in P : f[p] = l
      <4>1. PICK n \in W : l = leaf(n) BY <2>3
      <4> QED BY <2>5, <3>2, <4>1
    <3> HIDE DEF f
    <3> QED BY <2>4, <3>3, <3>4, <3>5, SameCount
  <2>10. ASSUME NEW l \in span.attributes
         PROVE  \E k \in Named : l = [at |-> Expected(P, Path(k)), value |-> Loaded(k)]
    <3>1. PICK n \in W : l = leaf(n) BY <2>3
    <3>2. PICK k \in Named : Segs(n) = Path(k) /\ trie[n] = Loaded(k) BY <2>2 DEF Sourced
    <3>3. Place(trie, n) = Expected(P, Path(k)) BY <2>5, <3>2
    <3> HIDE DEF P
    <3> QED BY <3>1, <3>2, <3>3
  <2> QED BY <2>8, <2>9, <2>10
<1> QED BY <1>1, DecodeInvariant, PTL
-----------------------------------------------------------------------------
(* What Merge finds under a convention's key.                              *)

\* Until takes the steps before the first of the given kinds.
LEMMA UntilIs ==
  ASSUME NEW S, NEW at \in Seq(S), NEW kinds
  PROVE  \E c \in 0 .. Len(at) :
            /\ Until(at, kinds) = Above(at, c)
            /\ \A i \in 1 .. c : at[i][1] \notin kinds
            /\ c < Len(at) => at[c + 1][1] \in kinds
<1>0. Len(at) \in Nat /\ DOMAIN at = 1 .. Len(at) BY LenProperties
<1> DEFINE W == {i \in 1 .. Len(at) + 1 : i = Len(at) + 1 \/ at[i][1] \in kinds}
           I == {i \in DOMAIN at : \A j \in 1 .. i : at[j][1] \notin kinds}
<1>1. PICK m \in W : \A i \in W : m <= i
  <2>1. W \in SUBSET Nat /\ Len(at) + 1 \in W BY <1>0
  <2> HIDE DEF W
  <2> QED BY <2>1, LeastNatural
<1> DEFINE c == m - 1
<1>2. m \in 1 .. Len(at) + 1 /\ c \in 0 .. Len(at) /\ c + 1 = m /\ c \in Nat BY <1>0
<1>3. \A i \in 1 .. c : at[i][1] \notin kinds
  <2> SUFFICES ASSUME NEW i \in 1 .. c, at[i][1] \in kinds PROVE FALSE OBVIOUS
  <2>1. i \in 1 .. Len(at) + 1 /\ i < m BY <1>0, <1>2
  <2>2. i \in W BY <2>1
  <2> QED BY <1>1, <1>2, <2>1, <2>2
<1>4. c < Len(at) => at[c + 1][1] \in kinds BY <1>0, <1>2
<1>5. I = 1 .. c
  <2>1. ASSUME NEW i \in 1 .. c PROVE i \in I
    <3>1. i \in DOMAIN at /\ \A j \in 1 .. i : j \in 1 .. c BY <1>0, <1>2
    <3> QED BY <1>3, <3>1
  <2>2. ASSUME NEW i \in I PROVE i \in 1 .. c
    <3> SUFFICES ASSUME ~(i <= c) PROVE FALSE BY <1>0, <1>2
    <3>1. i \in 1 .. Len(at) /\ m \in 1 .. i /\ c < Len(at) BY <1>0, <1>2
    <3> QED BY <1>2, <1>4, <3>1
  <2> QED BY <2>1, <2>2
<1>6. Cardinality(I) = c
  <2>0. 1 \in Int /\ c \in Int BY <1>2
  <2> HIDE DEF c, I
  <2>1. Cardinality(1 .. c) = IF 1 > c THEN 0 ELSE c - 1 + 1 BY ONLY <2>0, FS_Interval
  <2>2. Cardinality(1 .. c) = c BY <1>2, <2>1
  <2> QED BY <1>5, <2>2
<1>7. Until(at, kinds) = Above(at, c) BY <1>6 DEF Until, Above
<1> QED BY <1>2, <1>3, <1>4, <1>7

\* A place is a sequence of steps, of which those to items hide their key.
LEMMA PlaceShape ==
  ASSUME NEW T, NEW n \in Address
  PROVE  /\ \E S : Place(T, n) \in Seq(S)
         /\ Len(Place(T, n)) = Len(n) /\ Len(n) \in Nat
         /\ \A i \in 1 .. Len(n) :
               /\ Place(T, n)[i][1] \in {"dotted", "item", "key"}
               /\ Place(T, n)[i][1] = "item" <=> ~HasValue(T, Above(n, i - 1)) /\ n[i].track = "index"
               /\ Place(T, n)[i][1] = "dotted" <=> HasValue(T, Above(n, i - 1))
               /\ Place(T, n)[i][1] # "item" => Place(T, n)[i][2] = n[i].seg
<1> DEFINE at == Place(T, n)
           S == {at[i] : i \in 1 .. Len(n)}
<1>1. Len(n) \in Nat /\ DOMAIN n = 1 .. Len(n) BY AddressIs
<1>2. at = [i \in 1 .. Len(n) |-> at[i]] BY <1>1 DEF Place
<1>3. at \in Seq(S) /\ Len(at) = Len(n)
  <2>1. \A i \in 1 .. Len(n) : at[i] \in S OBVIOUS
  <2> HIDE DEF at, S
  <2>2. at \in [1 .. Len(n) -> S] BY <1>2, <2>1
  <2> QED BY <1>1, <2>2
<1>4. ASSUME NEW i \in 1 .. Len(n)
      PROVE  /\ at[i][1] \in {"dotted", "item", "key"}
             /\ at[i][1] = "item" <=> ~HasValue(T, Above(n, i - 1)) /\ n[i].track = "index"
             /\ at[i][1] = "dotted" <=> HasValue(T, Above(n, i - 1))
             /\ at[i][1] # "item" => at[i][2] = n[i].seg
  <2>1. at[i] = IF HasValue(T, Above(n, i - 1)) THEN <<"dotted", n[i].seg>>
                ELSE IF n[i].track = "index" THEN <<"item", Rank(T, n, i)>>
                ELSE <<"key", n[i].seg>>
    BY <1>1 DEF Place
  <2> HIDE DEF at
  <2>2. CASE HasValue(T, Above(n, i - 1)) BY <2>1, <2>2
  <2>3. CASE ~HasValue(T, Above(n, i - 1)) /\ n[i].track = "index"
    <3>1. at[i] = <<"item", Rank(T, n, i)>> BY <2>1, <2>3
    <3>2. at[i][1] = "item" BY <3>1
    <3> QED BY <2>3, <3>2
  <2>4. CASE ~HasValue(T, Above(n, i - 1)) /\ n[i].track # "index" BY <2>1, <2>4
  <2> QED BY <2>2, <2>3, <2>4
<1> QED BY <1>1, <1>3, <1>4

\* The keys that lead to a node before the first array on the way.
LEMMA HeadIs ==
  ASSUME NEW T, NEW n \in Address
  PROVE  \E c \in 0 .. Len(n) :
            /\ Segments(Until(Place(T, n), {"item"})) = Above(Segs(n), c)
            /\ Len(Segments(Until(Place(T, n), {"item"}))) = c
            /\ \A i \in 1 .. c : Place(T, n)[i][1] # "item"
            /\ c < Len(n) => Place(T, n)[c + 1][1] = "item"
<1> DEFINE at == Place(T, n)
<1>1. /\ \E S : at \in Seq(S)
      /\ Len(at) = Len(n) /\ Len(n) \in Nat
      /\ \A i \in 1 .. Len(n) : at[i][1] # "item" => at[i][2] = n[i].seg
  BY PlaceShape
<1> HIDE DEF at
<1>2. PICK S : at \in Seq(S) BY <1>1
<1>3. PICK c \in 0 .. Len(at) : /\ Until(at, {"item"}) = Above(at, c)
                                /\ \A i \in 1 .. c : at[i][1] \notin {"item"}
                                /\ c < Len(at) => at[c + 1][1] \in {"item"}
  BY <1>2, UntilIs
<1> DEFINE h == Segments(Above(at, c))
<1>4. c \in Nat /\ c \in 0 .. Len(n) /\ \A i \in 1 .. c : i \in 1 .. Len(n) BY <1>1
<1>5. /\ Above(at, c) \in Seq(S) /\ Len(Above(at, c)) = c
      /\ \A i \in 1 .. c : Above(at, c)[i] = at[i]
  BY <1>2, AboveIs
<1>6. DOMAIN Above(at, c) = 1 .. c BY <1>5, LenProperties
<1>7. /\ Above(Segs(n), c) \in Seq(PathSeg) /\ Len(Above(Segs(n), c)) = c
      /\ \A i \in 1 .. c : Above(Segs(n), c)[i] = n[i].seg
  <2>1. /\ Segs(n) \in Seq(PathSeg) /\ Len(Segs(n)) = Len(n)
        /\ \A i \in 1 .. Len(n) : Segs(n)[i] = n[i].seg
    BY SegsTyped
  <2>2. c \in 0 .. Len(Segs(n)) BY <1>4, <2>1
  <2>3. /\ Above(Segs(n), c) \in Seq(PathSeg) /\ Len(Above(Segs(n), c)) = c
        /\ \A i \in 1 .. c : Above(Segs(n), c)[i] = Segs(n)[i]
    BY <2>1, <2>2, AboveIs
  <2> QED BY <1>4, <2>1, <2>3
<1>8. h = [i \in 1 .. c |-> Above(Segs(n), c)[i]]
  <2>1. \A i \in 1 .. c : Above(at, c)[i][2] = Above(Segs(n), c)[i]
    BY <1>1, <1>3, <1>4, <1>5, <1>7
  <2> QED BY <1>6, <2>1 DEF Segments
<1>9. DOMAIN Above(Segs(n), c) = 1 .. c BY <1>7, LenProperties
<1>10. h = Above(Segs(n), c) BY <1>7, <1>8, <1>9
<1> HIDE DEF h
<1> QED BY <1>3, <1>1, <1>4, <1>7, <1>10 DEF at, h

\* The entries that one leaf gives.
FlatOf(l) ==
    LET head == Segments(Until(l.at, {"item"}))
    IN IF Len(head) < Len(l.at) THEN {<<head, Structure>>}
       ELSE IF l.value.type = "map"
       THEN {<<head \o f, l.value.fields[f]>> : f \in DOMAIN l.value.fields}
       ELSE {<<head, l.value>>}

Leaf(T, n) == [at |-> Place(T, n), value |-> T[n]]

LEMMA FlattenedIs ==
  ASSUME NEW T
  PROVE  /\ Materialized(T) = {Leaf(T, n) : n \in Visible(T)}
         /\ Flattened(Materialized(T)) = UNION {FlatOf(Leaf(T, n)) : n \in Visible(T)}
<1>1. Materialized(T) = {Leaf(T, n) : n \in Visible(T)} BY DEF Materialized, Leaf
<1>2. \A leaves : Flattened(leaves) = UNION {FlatOf(l) : l \in leaves} BY DEF Flattened, FlatOf
<1> QED BY <1>1, <1>2

\* flattenTopLevel of a leaf: what is below an array is a structure, a map
\* that is a value is walked into.
LEMMA FlatOfIs ==
  ASSUME NEW T, NEW n \in Address
  PROVE  \E c \in 0 .. Len(n) :
            \/ /\ c < Len(n) /\ ~HasValue(T, Above(n, c)) /\ n[c + 1].track = "index"
               /\ FlatOf(Leaf(T, n)) = {<<Above(Segs(n), c), Structure>>}
            \/ /\ c = Len(n) /\ \A i \in 1 .. Len(n) : Place(T, n)[i][1] # "item"
               /\ T[n].type = "map"
               /\ FlatOf(Leaf(T, n)) = {<<Segs(n) \o f, T[n].fields[f]>> : f \in DOMAIN T[n].fields}
            \/ /\ c = Len(n) /\ \A i \in 1 .. Len(n) : Place(T, n)[i][1] # "item"
               /\ T[n].type # "map"
               /\ FlatOf(Leaf(T, n)) = {<<Segs(n), T[n]>>}
<1> DEFINE h == Segments(Until(Place(T, n), {"item"}))
<1>1. PICK c \in 0 .. Len(n) :
         /\ h = Above(Segs(n), c) /\ Len(h) = c
         /\ \A i \in 1 .. c : Place(T, n)[i][1] # "item"
         /\ c < Len(n) => Place(T, n)[c + 1][1] = "item"
  BY HeadIs
<1>2. /\ Len(Place(T, n)) = Len(n) /\ Len(n) \in Nat
      /\ \A i \in 1 .. Len(n) :
            Place(T, n)[i][1] = "item" <=> ~HasValue(T, Above(n, i - 1)) /\ n[i].track = "index"
  BY PlaceShape
<1>3. FlatOf(Leaf(T, n)) =
         IF Len(h) < Len(Place(T, n)) THEN {<<h, Structure>>}
         ELSE IF T[n].type = "map"
         THEN {<<h \o f, T[n].fields[f]>> : f \in DOMAIN T[n].fields}
         ELSE {<<h, T[n]>>}
  <2>1. Leaf(T, n).at = Place(T, n) /\ Leaf(T, n).value = T[n] BY DEF Leaf
  <2> QED BY <2>1 DEF FlatOf
<1> HIDE DEF h
<1>4. CASE c < Len(n)
  <2>1. c + 1 \in 1 .. Len(n) /\ (c + 1) - 1 = c BY <1>2, <1>4
  <2>2. ~HasValue(T, Above(n, c)) /\ n[c + 1].track = "index" BY <1>1, <1>2, <1>4, <2>1
  <2>3. FlatOf(Leaf(T, n)) = {<<Above(Segs(n), c), Structure>>} BY <1>1, <1>2, <1>3, <1>4
  <2> QED BY <1>4, <2>2, <2>3
<1>5. CASE ~(c < Len(n))
  <2>1. c = Len(n) BY <1>2, <1>5
  <2>2. h = Segs(n)
    <3>1. Segs(n) \in Seq(PathSeg) /\ Len(Segs(n)) = Len(n) BY SegsTyped
    <3> QED BY <1>1, <2>1, <3>1, AboveAll
  <2>3. FlatOf(Leaf(T, n)) =
          IF T[n].type = "map" THEN {<<Segs(n) \o f, T[n].fields[f]>> : f \in DOMAIN T[n].fields}
          ELSE {<<Segs(n), T[n]>>}
    BY <1>1, <1>2, <1>3, <2>1, <2>2
  <2> QED BY <1>1, <2>1, <2>3
<1> QED BY <1>4, <1>5

\* A view takes for each key the value of one of its entries.
LEMMA ViewIs ==
  ASSUME NEW E, NEW view \in Views(E)
  PROVE  /\ DOMAIN view = Keys(E)
         /\ \A k \in Keys(E) : \E e \in E : e[1] = k /\ e[2] = view[k]
<1> DEFINE values(k) == {e[2] : e \in {e \in E : e[1] = k}}
           D == {k \in Keys(E) : Cardinality(values(k)) > 1}
           of(w) == [k \in Keys(E) |-> IF k \in D THEN w[k] ELSE CHOOSE v \in values(k) : TRUE]
           W == {w \in [D -> {e[2] : e \in E}] : \A k \in D : w[k] \in values(k)}
<1>1. Views(E) = {of(w) : w \in W} BY DEF Views
<1>2. PICK w \in W : view = of(w) BY <1>1
<1>3. DOMAIN view = Keys(E) BY <1>2
<1>4. ASSUME NEW k \in Keys(E) PROVE \E e \in E : e[1] = k /\ e[2] = view[k]
  <2>1. PICK e \in E : e[1] = k BY DEF Keys
  <2>2. e[2] \in values(k) BY <2>1
  <2>3. (CHOOSE v \in values(k) : TRUE) \in values(k) BY <2>2
  <2>4. k \in D => w[k] \in values(k) BY <1>2
  <2>5. view[k] \in values(k)
    <3> HIDE DEF D, W, values
    <3> QED BY <1>2, <2>3, <2>4
  <2> QED BY <2>5
<1> QED BY <1>3, <1>4

\* What is decoded from a list are values of the list.
LEMMA FlatMapValues ==
  ASSUME NEW kvs, IsList(kvs), NEW k \in DOMAIN FlatMap(kvs)
  PROVE  IsValue(FlatMap(kvs)[k])
<1> DEFINE set == {i \in DOMAIN kvs : kvs[i].value # NoValue}
           S == {i \in set : kvs[i].key = k}
           x == CHOOSE i \in set : kvs[i].key = k /\ \A j \in set : kvs[j].key = k => j <= i
<1>1. DOMAIN kvs = 1 .. Len(kvs) /\ Len(kvs) \in Nat
  <2>1. kvs \in Seq(Range(kvs)) BY DEF IsList
  <2> QED BY <2>1, LenProperties
<1>2. k \in {kvs[i].key : i \in set} /\ FlatMap(kvs)[k] = kvs[x].value BY DEF FlatMap
<1>3. S \in SUBSET Nat /\ S # {} /\ IsFiniteSet(S)
  <2>1. IsFiniteSet(1 .. Len(kvs)) BY <1>1, FS_Interval
  <2>2. S \in SUBSET (1 .. Len(kvs)) BY <1>1
  <2>3. IsFiniteSet(S) BY <2>1, <2>2, FS_Subset
  <2> QED BY <1>2, <2>2, <2>3
<1>4. \E m \in S : \A j \in S : j <= m
  <2> DEFINE B == {b \in Nat : \A j \in S : j <= b}
  <2>1. Len(kvs) \in B BY <1>1
  <2>2. PICK b \in B : \A y \in B : b <= y
    <3> HIDE DEF B
    <3>1. B \in SUBSET Nat BY DEF B
    <3> QED BY <2>1, <3>1, LeastNatural
  <2>3. b \in S
    <3> SUFFICES ASSUME b \notin S PROVE FALSE OBVIOUS
    <3>1. PICK j \in S : TRUE BY <1>3
    <3>2. j \in Nat /\ j <= b /\ j >= 1 BY <1>1, <3>1
    <3>3. b - 1 \in B
      <4>1. \A y \in S : y \in Nat /\ y <= b /\ y # b BY <1>3
      <4> HIDE DEF S
      <4> QED BY <3>2, <4>1
    <3> QED BY <2>2, <3>3
  <2> QED BY <2>3
<1>5. x \in set
  <2>1. PICK m \in S : \A j \in S : j <= m BY <1>4
  <2> QED BY <2>1
<1> HIDE DEF x
<1> QED BY <1>2, <1>5 DEF IsList

LEMMA LoadedIs ==
  ASSUME sent \in Exports, NEW k \in Named
  PROVE  /\ Loaded(k) # NoValue
         /\ Loaded(k).type = "map" => DOMAIN Loaded(k).fields \subseteq Seq(PathSeg)
<1>1. k \in DOMAIN flat /\ Loaded(k) # NoValue BY NamedTyped
<1>2. IsValue(flat[k])
  <2>1. IsList(sent.attributes) BY ExportIs
  <2> QED BY <1>1, <2>1, FlatMapValues DEF flat
<1>3. IsValue(Loaded(k)) BY <1>2, JsonAssumption DEF Loaded, LoadJSONString
<1> QED BY <1>1, <1>3 DEF IsValue, PathSeg

\* Digits are all that a trie takes for a position.
IsWords(p) == \A i \in 1 .. Len(p) : ~IsIndex(p[i])

LEMMA WordsAreBranches ==
  ASSUME NEW T, Tree(T), NEW n \in DOMAIN T, NEW c \in 0 .. Len(n), IsWords(Above(Segs(n), c))
  PROVE  \A i \in 1 .. c : n[i].track = "branch"
<1>1. n \in Address /\ Len(n) \in Nat BY TreeIs
<1>2. /\ Segs(n) \in Seq(PathSeg) /\ Len(Segs(n)) = Len(n)
      /\ \A i \in 1 .. Len(n) : Segs(n)[i] = n[i].seg
  BY <1>1, SegsTyped
<1>3. c \in 0 .. Len(Segs(n)) BY <1>1, <1>2
<1>4. Len(Above(Segs(n), c)) = c /\ \A i \in 1 .. c : Above(Segs(n), c)[i] = Segs(n)[i]
  BY <1>2, <1>3, AboveIs
<1>5. ASSUME NEW i \in 1 .. c PROVE n[i].track = "branch"
  <2>1. i \in 1 .. Len(n) BY <1>1
  <2>2. ~IsIndex(n[i].seg) BY <1>2, <1>4, <2>1 DEF IsWords
  <2>3. n[i].track # "index" BY <2>1, <2>2, TreeIs
  <2> QED BY <1>1, <2>1, <2>3, AddressIs
<1> QED BY <1>5

\* Such paths never clash, and lead to one node.
LEMMA WordsLead ==
  ASSUME NEW T, Tree(T), NEW m \in DOMAIN T, NEW n \in DOMAIN T, Segs(m) = Segs(n),
         IsWords(Segs(n))
  PROVE  m = n
<1>1. m \in Address /\ n \in Address /\ Len(m) \in Nat /\ Len(n) \in Nat BY TreeIs
<1>2. /\ Len(Segs(m)) = Len(m) /\ Len(Segs(n)) = Len(n)
      /\ \A i \in 1 .. Len(m) : Segs(m)[i] = m[i].seg
      /\ \A i \in 1 .. Len(n) : Segs(n)[i] = n[i].seg
      /\ Segs(m) \in Seq(PathSeg)
  BY <1>1, SegsTyped
<1>3. Len(m) = Len(n) BY <1>2
<1>4. Above(Segs(m), Len(m)) = Segs(m) /\ Above(Segs(n), Len(n)) = Segs(n)
  BY <1>2, AboveAll
<1>5. Len(m) \in 0 .. Len(m) /\ Len(n) \in 0 .. Len(n) BY <1>1
<1>6. (\A i \in 1 .. Len(m) : m[i].track = "branch") /\ \A i \in 1 .. Len(n) : n[i].track = "branch"
  BY <1>4, <1>5, WordsAreBranches
<1>7. \A i \in 1 .. Len(m) : m[i].track = n[i].track /\ m[i].seg = n[i].seg BY <1>2, <1>3, <1>6
<1> QED BY <1>1, <1>3, <1>7, SameAddress

\* Where something is said of a key of words for certain, the key is among the
\* explicit ones.
LEMMA SettledEntry ==
  ASSUME DecodeInv, pc = "done", NEW K, IsWords(K), Settled(K)
  PROVE  K \in Keys(Flattened(Materialized(trie)))
<1>1. Tree(trie) /\ sent \in Exports BY DEF DecodeInv, SentInv, TrieInv
<1>2. PICK P \in Paths : \A j \in Named : Path(j) = P => Says(j, K) # {} BY DEF Settled
<1>3. PICK k \in Named : Path(k) = P BY DEF Paths
<1>4. P \in Seq(PathSeg) /\ Len(P) \in Nat /\ DOMAIN P = 1 .. Len(P)
  BY <1>1, NamedTyped, LenProperties
<1>5. ASSUME NEW j \in Named, Path(j) = P
      PROVE  \/ Loaded(j).type = "map" /\ \E f \in DOMAIN Loaded(j).fields : P \o f = K
             \/ Loaded(j).type # "map" /\ P = K
  BY <1>2, <1>5 DEF Says
<1>6. IsWords(P)
  <2>1. CASE P = K BY <2>1
  <2>2. ASSUME Loaded(k).type = "map", NEW f \in DOMAIN Loaded(k).fields, P \o f = K
        PROVE  IsWords(P)
    <3>1. f \in Seq(PathSeg) /\ Len(f) \in Nat BY <1>1, <2>2, LoadedIs, LenProperties
    <3>2. Len(K) = Len(P) + Len(f) /\ \A i \in 1 .. Len(P) : K[i] = P[i]
      BY <1>4, <2>2, <3>1, ConcatProperties
    <3>3. \A i \in 1 .. Len(P) : i \in 1 .. Len(K) BY <1>4, <3>1, <3>2
    <3> QED BY <3>2, <3>3 DEF IsWords
  <2> QED BY <1>3, <1>5, <2>1, <2>2
<1>7. ~Clashes(Paths, P)
  <2>1. \A i \in 1 .. Len(P) - 1 : i \in 1 .. Len(P) BY <1>4
  <2> QED BY <1>6, <2>1 DEF Clashes, IsWords
<1>8. PICK n \in Visible(trie), j \in Named :
         /\ n \in DOMAIN trie /\ HasValue(trie, n)
         /\ Segs(n) = P /\ Path(j) = P /\ trie[n] = Loaded(j)
  BY <1>3, <1>7, UnclashingIsHeld
<1>9. n \in Address /\ Len(n) \in Nat BY <1>1, <1>8, TreeIs
<1>10. \A i \in 1 .. Len(n) : n[i].track = "branch"
  <2>1. Above(Segs(n), Len(n)) = P /\ Len(n) \in 0 .. Len(n)
    BY <1>4, <1>8, <1>9, SegsTyped, AboveAll
  <2> QED BY <1>1, <1>6, <1>8, <2>1, WordsAreBranches
<1>11. \E e \in FlatOf(Leaf(trie, n)) : e[1] = K
  <2>1. PICK c \in 0 .. Len(n) :
           \/ /\ c < Len(n) /\ ~HasValue(trie, Above(n, c)) /\ n[c + 1].track = "index"
              /\ FlatOf(Leaf(trie, n)) = {<<Above(Segs(n), c), Structure>>}
           \/ /\ c = Len(n) /\ \A i \in 1 .. Len(n) : Place(trie, n)[i][1] # "item"
              /\ trie[n].type = "map"
              /\ FlatOf(Leaf(trie, n)) =
                   {<<Segs(n) \o f, trie[n].fields[f]>> : f \in DOMAIN trie[n].fields}
           \/ /\ c = Len(n) /\ \A i \in 1 .. Len(n) : Place(trie, n)[i][1] # "item"
              /\ trie[n].type # "map"
              /\ FlatOf(Leaf(trie, n)) = {<<Segs(n), trie[n]>>}
    BY <1>9, FlatOfIs
  <2>2. ~(c < Len(n) /\ n[c + 1].track = "index")
    <3> SUFFICES ASSUME c < Len(n), n[c + 1].track = "index" PROVE FALSE OBVIOUS
    <3>1. c + 1 \in 1 .. Len(n) BY <1>9
    <3> QED BY <1>10, <3>1
  <2>3. CASE Loaded(j).type = "map"
    <3>1. PICK f \in DOMAIN Loaded(j).fields : P \o f = K BY <1>5, <1>8, <2>3
    <3>2. <<P \o f, Loaded(j).fields[f]>> \in FlatOf(Leaf(trie, n))
      BY <1>8, <2>1, <2>2, <2>3
    <3> QED BY <3>1, <3>2
  <2>4. CASE Loaded(j).type # "map"
    <3>1. P = K BY <1>5, <1>8, <2>4
    <3>2. <<P, Loaded(j)>> \in FlatOf(Leaf(trie, n)) BY <1>8, <2>1, <2>2, <2>4
    <3> QED BY <3>1, <3>2
  <2> QED BY <2>3, <2>4
<1> QED BY <1>8, <1>11, FlattenedIs DEF Keys

\* Every explicit entry of a key is what an attribute says of it.
LEMMA ExplicitEntries ==
  ASSUME DecodeInv, NEW e \in Flattened(Materialized(trie))
  PROVE  e[2] \in Explicit(e[1])
<1>1. Tree(trie) /\ Sourced /\ sent \in Exports BY DEF DecodeInv, SentInv, TrieInv
<1>2. PICK m \in Visible(trie) : e \in FlatOf(Leaf(trie, m)) BY FlattenedIs
<1>3. m \in DOMAIN trie /\ HasValue(trie, m) BY DEF Visible
<1>4. PICK j \in Named : Segs(m) = Path(j) /\ trie[m] = Loaded(j) BY <1>1, <1>3 DEF Sourced
<1>5. /\ m \in Address /\ Len(m) \in Nat
      /\ \A i \in 1 .. Len(m) : m[i].track = "index" => IsIndex(m[i].seg)
  BY <1>1, <1>3, TreeIs
<1>6. PICK c \in 0 .. Len(m) :
         \/ /\ c < Len(m) /\ ~HasValue(trie, Above(m, c)) /\ m[c + 1].track = "index"
            /\ FlatOf(Leaf(trie, m)) = {<<Above(Segs(m), c), Structure>>}
         \/ /\ c = Len(m) /\ \A i \in 1 .. Len(m) : Place(trie, m)[i][1] # "item"
            /\ trie[m].type = "map"
            /\ FlatOf(Leaf(trie, m)) =
                 {<<Segs(m) \o f, trie[m].fields[f]>> : f \in DOMAIN trie[m].fields}
         \/ /\ c = Len(m) /\ \A i \in 1 .. Len(m) : Place(trie, m)[i][1] # "item"
            /\ trie[m].type # "map"
            /\ FlatOf(Leaf(trie, m)) = {<<Segs(m), trie[m]>>}
  BY <1>5, FlatOfIs
<1>7. CASE /\ c < Len(m) /\ m[c + 1].track = "index"
           /\ FlatOf(Leaf(trie, m)) = {<<Above(Segs(m), c), Structure>>}
  <2> DEFINE p == Segs(m)
             K == Above(p, c)
  <2>1. e[1] = K /\ e[2] = Structure BY <1>2, <1>7
  <2>2. /\ p \in Seq(PathSeg) /\ Len(p) = Len(m)
        /\ \A i \in 1 .. Len(m) : p[i] = m[i].seg
    BY <1>5, SegsTyped
  <2>3. K \in Seq(PathSeg) /\ Len(K) = c /\ \A i \in 1 .. c : K[i] = p[i]
    BY <1>5, <2>2, AboveIs
  <2>4. IsStrictPrefix(K, p)
    <3>1. Above(K, Len(K)) = K BY <2>3, AboveAll
    <3>2. Len(K) <= Len(p) /\ K # p BY <1>5, <1>7, <2>2, <2>3
    <3> QED BY <2>3, <3>1, <3>2 DEF IsStrictPrefix, IsPrefix, Above
  <2>5. IsIndex(p[Len(K) + 1])
    <3>1. c + 1 \in 1 .. Len(m) BY <1>5, <1>7
    <3> QED BY <1>5, <1>7, <2>2, <2>3, <3>1
  <2>6. p \in Paths BY <1>4 DEF Paths
  <2> HIDE DEF K, p
  <2>7. \E q \in Paths : IsStrictPrefix(K, q) /\ IsIndex(q[Len(K) + 1])
    BY ONLY <2>4, <2>5, <2>6, Zenon
  <2>8. Structure \in Explicit(K) BY <2>7, Zenon DEF Explicit
  <2> QED BY <2>1, <2>8
<1>8. CASE trie[m].type = "map" /\ FlatOf(Leaf(trie, m)) =
              {<<Segs(m) \o f, trie[m].fields[f]>> : f \in DOMAIN trie[m].fields}
  <2>1. PICK f \in DOMAIN trie[m].fields : e = <<Segs(m) \o f, trie[m].fields[f]>> BY <1>2, <1>8
  <2>2. e[2] \in Says(j, e[1]) BY <1>4, <1>8, <2>1 DEF Says
  <2> QED BY <2>2 DEF Explicit
<1>9. CASE trie[m].type # "map" /\ FlatOf(Leaf(trie, m)) = {<<Segs(m), trie[m]>>}
  <2>1. e = <<Path(j), Loaded(j)>> BY <1>2, <1>4, <1>9
  <2>2. e[2] \in Says(j, e[1]) BY <1>4, <1>9, <2>1 DEF Says
  <2> QED BY <2>2 DEF Explicit
<1> QED BY <1>6, <1>7, <1>8, <1>9

\* asInt finds one integer at most in a value.
LEMMA AsIntIs ==
  ASSUME NEW v
  PROVE  /\ \A x, y \in AsInt({v}) : x = y
         /\ AsInt({v}) # {} => v.type \in {"int", "float", "string"}
         /\ \A S : v \in S => AsInt({v}) \subseteq AsInt(S)
<1> DEFINE ints(S) == {w.num : w \in {w \in S : w.type = "int"}}
           floats(S) == {Truncated(w.tenths) : w \in {w \in S : w.type = "float"}}
           texts(S) == {Numeric[t] : t \in Texts(S) \cap DOMAIN Numeric}
<1>1. \A S : AsInt(S) = ints(S) \cup floats(S) \cup texts(S) BY DEF AsInt
<1>2. \A x \in ints({v}) : x = v.num /\ v.type = "int" OBVIOUS
<1>3. \A x \in floats({v}) : x = Truncated(v.tenths) /\ v.type = "float" OBVIOUS
<1>4. \A x \in texts({v}) : x = Numeric[v.text] /\ v.type = "string" BY DEF Texts
<1>5. \A S : v \in S => /\ ints({v}) \subseteq ints(S) /\ floats({v}) \subseteq floats(S)
                        /\ texts({v}) \subseteq texts(S)
  BY DEF Texts
<1> HIDE DEF ints, floats, texts
<1> QED BY <1>1, <1>2, <1>3, <1>4, <1>5

\* The paths of the conventions.
LEMMA WordsPath ==
  ASSUME NEW E, NEW k \in Seq(E), \A i \in 1 .. Len(k) : k[i].word # ""
  PROVE  /\ Len(Path(k)) = Len(k) /\ IsWords(Path(k))
         /\ \A i \in 1 .. Len(k) : Path(k)[i].word = k[i].word
<1>1. DOMAIN k = 1 .. Len(k) BY KeyIs
<1>2. \A i \in DOMAIN k : ~IsBlank(k[i]) BY <1>1 DEF IsBlank
<1>3. Len(Path(k)) = Len(k) /\ \A i \in 1 .. Len(k) : Path(k)[i] = CanonicalSeg(k[i])
  BY <1>2, PathOfWords
<1>4. \A s : CanonicalSeg(s).word = s.word BY DEF CanonicalSeg
<1>5. \A i \in 1 .. Len(k) : Path(k)[i].word = k[i].word BY <1>3, <1>4
<1>6. \A i \in 1 .. Len(k) : ~IsIndex(Path(k)[i]) BY <1>5 DEF IsIndex
<1> QED BY <1>3, <1>5, <1>6 DEF IsWords

LEMMA PairIs ==
  ASSUME NEW u, NEW v
  PROVE  /\ <<u>> \o <<v>> \in Seq({u, v}) /\ Len(<<u>> \o <<v>>) = 2
         /\ (<<u>> \o <<v>>)[1] = u /\ (<<u>> \o <<v>>)[2] = v
         /\ \A i \in 1 .. 2 : i = 1 \/ i = 2
<1> DEFINE E == {u, v}
<1>1. <<u>> \in Seq(E) /\ <<v>> \in Seq(E) OBVIOUS
<1> QED BY <1>1, ConcatProperties

LEMMA TripleIs ==
  ASSUME NEW u, NEW v, NEW w
  PROVE  /\ <<u, v, w>> \in Seq({u, v, w}) /\ Len(<<u, v, w>>) = 3
         /\ <<u, v, w>>[1] = u /\ <<u, v, w>>[2] = v /\ <<u, v, w>>[3] = w
         /\ \A i \in 1 .. 3 : i = 1 \/ i = 2 \/ i = 3
         /\ <<u>> \o (<<v>> \o <<w>>) = <<u, v, w>>
<1> DEFINE E == {u, v, w}
<1>1. <<u>> \in Seq(E) /\ <<v>> \in Seq(E) /\ <<w>> \in Seq(E) OBVIOUS
<1>2. <<u, v, w>> \in Seq(E) /\ Len(<<u, v, w>>) = 3 OBVIOUS
<1>3. <<u, v, w>>[1] = u /\ <<u, v, w>>[2] = v /\ <<u, v, w>>[3] = w OBVIOUS
<1>4. \A i \in 1 .. 3 : i = 1 \/ i = 2 \/ i = 3 OBVIOUS
<1> DEFINE q == <<u>>
           s == <<v>> \o <<w>>
           t == q \o s
<1>5. s \in Seq(E) /\ Len(s) = 2 /\ s[1] = v /\ s[2] = w BY <1>1, ConcatProperties
<1>6. q \in Seq(E) /\ Len(q) = 1 /\ q[1] = u OBVIOUS
<1> HIDE DEF q, s, E
<1>7. t \in Seq(E) /\ Len(t) = 3 /\ t[1] = u /\ t[2] = s[1] /\ t[3] = s[2]
  <2>1. /\ t \in Seq(E) /\ Len(t) = Len(q) + Len(s)
        /\ \A i \in 1 .. Len(q) + Len(s) : t[i] = IF i <= Len(q) THEN q[i] ELSE s[i - Len(q)]
    BY ONLY <1>5, <1>6, ConcatProperties
  <2> HIDE DEF t
  <2>2. Len(q) + Len(s) = 3 /\ 2 - Len(q) = 1 /\ 3 - Len(q) = 2 BY <1>5, <1>6
  <2>3. \A i \in 1 .. 3 : t[i] = IF i <= 1 THEN q[i] ELSE s[i - 1] BY <1>6, <2>1, <2>2
  <2>4. t[1] = q[1] /\ t[2] = s[2 - 1] /\ t[3] = s[3 - 1] BY <2>3
  <2> QED BY <1>6, <2>1, <2>2, <2>4
<1> HIDE DEF t
<1>8. t = <<u, v, w>>
  <2>1. \A i \in 1 .. 3 : t[i] = <<u, v, w>>[i] BY <1>3, <1>4, <1>5, <1>7
  <2> QED BY <1>2, <1>7, <2>1, SeqEqual
<1> QED BY <1>2, <1>3, <1>4, <1>8 DEF q, s, t, E

LEMMA QuadIs ==
  ASSUME NEW u, NEW v, NEW w, NEW x
  PROVE  /\ <<u, v, w, x>> \in Seq({u, v, w, x}) /\ Len(<<u, v, w, x>>) = 4
         /\ <<u, v, w, x>>[1] = u /\ <<u, v, w, x>>[2] = v
         /\ <<u, v, w, x>>[3] = w /\ <<u, v, w, x>>[4] = x
         /\ \A i \in 1 .. 4 : i = 1 \/ i = 2 \/ i = 3 \/ i = 4
         /\ <<u>> \o (<<v>> \o <<w, x>>) = <<u, v, w, x>>
<1> DEFINE E == {u, v, w, x}
           b == <<v>>
           d == <<w, x>>
           q == <<u>>
           s == b \o d
           t == q \o s
           z == <<u, v, w, x>>
<1>1. z \in Seq(E) /\ Len(z) = 4 OBVIOUS
<1>2. z[1] = u /\ z[2] = v /\ z[3] = w /\ z[4] = x OBVIOUS
<1>3. \A i \in 1 .. 4 : i = 1 \/ i = 2 \/ i = 3 \/ i = 4 OBVIOUS
<1>4. /\ b \in Seq(E) /\ Len(b) = 1 /\ b[1] = v
      /\ d \in Seq(E) /\ Len(d) = 2 /\ d[1] = w /\ d[2] = x
      /\ q \in Seq(E) /\ Len(q) = 1 /\ q[1] = u
  OBVIOUS
<1> HIDE DEF b, d, q, z, E
<1>5. s \in Seq(E) /\ Len(s) = 3 /\ s[1] = v /\ s[2] = w /\ s[3] = x
  <2>1. /\ s \in Seq(E) /\ Len(s) = Len(b) + Len(d)
        /\ \A i \in 1 .. Len(b) + Len(d) : s[i] = IF i <= Len(b) THEN b[i] ELSE d[i - Len(b)]
    BY ONLY <1>4, ConcatProperties
  <2> HIDE DEF s
  <2>2. Len(s) = 3 /\ \A i \in 1 .. 3 : s[i] = IF i <= 1 THEN b[i] ELSE d[i - 1] BY <1>4, <2>1
  <2>3. s[1] = b[1] /\ s[2] = d[2 - 1] /\ s[3] = d[3 - 1] BY <2>2
  <2> QED BY <1>4, <2>1, <2>2, <2>3
<1> HIDE DEF s
<1>6. t \in Seq(E) /\ Len(t) = 4 /\ t[1] = u /\ t[2] = s[1] /\ t[3] = s[2] /\ t[4] = s[3]
  <2>1. /\ t \in Seq(E) /\ Len(t) = Len(q) + Len(s)
        /\ \A i \in 1 .. Len(q) + Len(s) : t[i] = IF i <= Len(q) THEN q[i] ELSE s[i - Len(q)]
    BY ONLY <1>4, <1>5, ConcatProperties
  <2> HIDE DEF t
  <2>2. Len(t) = 4 /\ \A i \in 1 .. 4 : t[i] = IF i <= 1 THEN q[i] ELSE s[i - 1]
    BY <1>4, <1>5, <2>1
  <2>3. t[1] = q[1] /\ t[2] = s[2 - 1] /\ t[3] = s[3 - 1] /\ t[4] = s[4 - 1] BY <2>2
  <2>4. 2 - 1 = 1 /\ 3 - 1 = 2 /\ 4 - 1 = 3 OBVIOUS
  <2>5. t[2] = s[1] /\ t[3] = s[2] /\ t[4] = s[3] BY <2>3, <2>4
  <2>6. t[1] = u BY <1>4, <2>3
  <2> QED BY <2>1, <2>2, <2>5, <2>6
<1> HIDE DEF t
<1>7. t = z
  <2>1. \A i \in 1 .. 4 : t[i] = z[i] BY <1>2, <1>3, <1>5, <1>6
  <2> QED BY <1>1, <1>6, <2>1, SeqEqual
<1> QED BY <1>1, <1>2, <1>3, <1>7 DEF q, b, d, s, t, z, E

LEMMA TwoWords ==
  ASSUME NEW u, NEW v, u # "", v # ""
  PROVE  LET p == Path(<<Word(u)>> \o <<Word(v)>>)
         IN  Len(p) = 2 /\ IsWords(p) /\ p[1].word = u
<1> DEFINE E == {Word(u), Word(v)}
           k == <<Word(u)>> \o <<Word(v)>>
<1>1. /\ k \in Seq(E) /\ Len(k) = 2 /\ k[1] = Word(u) /\ k[2] = Word(v)
      /\ \A i \in 1 .. 2 : i = 1 \/ i = 2
  BY ONLY PairIs
<1>2. Word(u).word = u /\ Word(v).word = v BY DEF Word
<1> HIDE DEF k, E
<1>3. \A i \in 1 .. Len(k) : k[i].word # "" BY <1>1, <1>2
<1>4. /\ Len(Path(k)) = Len(k) /\ IsWords(Path(k))
      /\ \A i \in 1 .. Len(k) : Path(k)[i].word = k[i].word
  BY <1>1, <1>3, WordsPath
<1>5. 1 \in 1 .. Len(k) BY ONLY <1>1
<1>6. Path(k)[1].word = u BY <1>1, <1>2, <1>4, <1>5
<1> QED BY <1>1, <1>4, <1>6 DEF k

LEMMA ThreeWords ==
  ASSUME NEW u, NEW v, NEW w, u # "", v # "", w # ""
  PROVE  LET p == Path(<<Word(u), Word(v), Word(w)>>)
         IN  Len(p) = 3 /\ IsWords(p) /\ p[1].word = u
<1> DEFINE E == {Word(u), Word(v), Word(w)}
           k == <<Word(u), Word(v), Word(w)>>
<1>1. /\ k \in Seq(E) /\ Len(k) = 3 /\ k[1] = Word(u) /\ k[2] = Word(v) /\ k[3] = Word(w)
      /\ \A i \in 1 .. 3 : i = 1 \/ i = 2 \/ i = 3
  BY ONLY TripleIs
<1>2. Word(u).word = u /\ Word(v).word = v /\ Word(w).word = w BY DEF Word
<1> HIDE DEF k, E
<1>3. \A i \in 1 .. Len(k) : k[i].word # "" BY <1>1, <1>2
<1>4. /\ Len(Path(k)) = Len(k) /\ IsWords(Path(k))
      /\ \A i \in 1 .. Len(k) : Path(k)[i].word = k[i].word
  BY <1>1, <1>3, WordsPath
<1>5. 1 \in 1 .. Len(k) BY ONLY <1>1
<1>6. Path(k)[1].word = u BY <1>1, <1>2, <1>4, <1>5
<1> QED BY <1>1, <1>4, <1>6 DEF k

\* Has the path four segments, all words, of which u is the first?
FourFrom(p, u) == Len(p) = 4 /\ IsWords(p) /\ p[1].word = u

LEMMA FourWords ==
  ASSUME NEW u, NEW v, NEW w, NEW x, u # "", v # "", w # "", x # ""
  PROVE  FourFrom(Path(<<Word(u), Word(v), Word(w), Word(x)>>), u)
<1> DEFINE E == {Word(u), Word(v), Word(w), Word(x)}
           k == <<Word(u), Word(v), Word(w), Word(x)>>
<1>1. /\ k \in Seq(E) /\ Len(k) = 4
      /\ k[1] = Word(u) /\ k[2] = Word(v) /\ k[3] = Word(w) /\ k[4] = Word(x)
      /\ \A i \in 1 .. 4 : i = 1 \/ i = 2 \/ i = 3 \/ i = 4
  BY ONLY QuadIs
<1>2. Word(u).word = u /\ Word(v).word = v /\ Word(w).word = w /\ Word(x).word = x BY DEF Word
<1> HIDE DEF k, E
<1>3. \A i \in 1 .. Len(k) : k[i].word # "" BY <1>1, <1>2
<1>4. /\ Len(Path(k)) = Len(k) /\ IsWords(Path(k))
      /\ \A i \in 1 .. Len(k) : Path(k)[i].word = k[i].word
  BY <1>1, <1>3, WordsPath
<1>5. 1 \in 1 .. Len(k) BY ONLY <1>1
<1>6. Path(k)[1].word = u BY <1>1, <1>2, <1>4, <1>5
<1> QED BY <1>1, <1>4, <1>6 DEF k, FourFrom

\* Is the path that of a key which begins with "llm."?
BelowLlm(p) == Len(p) > 1 /\ p[1].word = "llm"

LEMMA ConventionsAre ==
  /\ IsWords(KeyLLMModelName) /\ IsWords(KeyTokenCountTotal)
  /\ \A count \in DOMAIN CountKeys : IsWords(CountKeys[count]) /\ BelowLlm(CountKeys[count])
  /\ BelowLlm(KeyLLMModelName) /\ BelowLlm(KeyTokenCountTotal)
  /\ KeyTokenCountTotal # KeyLLMModelName /\ KeyTokenCountTotal # Path(KeySpanKind)
<1> DEFINE count(w) == Path(<<Word("llm"), Word("token_count"), Word(w)>>)
           detail(w) == Path(<<Word("llm"), Word("token_count"), Word("prompt_details"), Word(w)>>)
           Three(p, u) == Len(p) = 3 /\ IsWords(p) /\ p[1].word = u
<1>1. \A w : Count(<<Word(w)>>) = count(w)
  <2>1. \A w : <<Word("llm")>> \o (<<Word("token_count")>> \o <<Word(w)>>)
               = <<Word("llm"), Word("token_count"), Word(w)>>
    BY TripleIs
  <2> QED BY <2>1 DEF Count, Llm
<1>2. \A w : Count(<<Word("prompt_details"), Word(w)>>) = detail(w)
  <2>1. \A w : <<Word("llm")>> \o (<<Word("token_count")>> \o <<Word("prompt_details"), Word(w)>>)
               = <<Word("llm"), Word("token_count"), Word("prompt_details"), Word(w)>>
    BY QuadIs
  <2> QED BY <2>1 DEF Count, Llm
<1>3. /\ KeyTokenCountPrompt = count("prompt") /\ KeyTokenCountCompletion = count("completion")
      /\ KeyTokenCountTotal = count("total")
      /\ KeyTokenCountPromptCache = detail("cache_read")
      /\ KeyTokenCountPromptCacheW = detail("cache_write")
  BY <1>1, <1>2 DEF KeyTokenCountPrompt, KeyTokenCountCompletion, KeyTokenCountTotal,
                    KeyTokenCountPromptCache, KeyTokenCountPromptCacheW
<1>4. \A w : w # "" =>
         Len(count(w)) = 3 /\ IsWords(count(w)) /\ count(w)[1].word = "llm"
  <2>1. "llm" # "" /\ "token_count" # "" OBVIOUS
  <2>2. \A u, v, w : u # "" /\ v # "" /\ w # ""
                     => Three(Path(<<Word(u), Word(v), Word(w)>>), u)
    BY ThreeWords
  <2>3. \A w : w # "" => Three(count(w), "llm")
    <3> HIDE DEF Three
    <3> QED BY <2>1, <2>2, Zenon
  <2> QED BY <2>3
<1>5. \A w : w # "" =>
         Len(detail(w)) = 4 /\ IsWords(detail(w)) /\ detail(w)[1].word = "llm"
  <2>1. "llm" # "" /\ "token_count" # "" /\ "prompt_details" # "" OBVIOUS
  <2>2. \A u, v, w, x : u # "" /\ v # "" /\ w # "" /\ x # ""
                        => FourFrom(Path(<<Word(u), Word(v), Word(w), Word(x)>>), u)
    BY FourWords, Zenon
  <2>3. \A w : w # "" => FourFrom(detail(w), "llm") BY <2>1, <2>2, Zenon
  <2> QED BY <2>3 DEF FourFrom
<1>6. Len(KeyLLMModelName) = 2 /\ IsWords(KeyLLMModelName) /\ KeyLLMModelName[1].word = "llm"
  <2>1. "llm" # "" /\ "model_name" # "" OBVIOUS
  <2>2. KeyLLMModelName = Path(<<Word("llm")>> \o <<Word("model_name")>>)
    BY DEF KeyLLMModelName, Llm
  <2> QED BY <2>1, <2>2, TwoWords
<1>7. Path(KeySpanKind)[1].word = "openinference"
  <2>1. "openinference" # "" /\ "span" # "" /\ "kind" # "" OBVIOUS
  <2>2. KeySpanKind = <<Word("openinference"), Word("span"), Word("kind")>> BY DEF KeySpanKind
  <2>3. \A u, v, w : u # "" /\ v # "" /\ w # ""
                     => Path(<<Word(u), Word(v), Word(w)>>)[1].word = u
    BY ThreeWords
  <2> QED BY <2>1, <2>2, <2>3, Zenon
<1>8. /\ "prompt" # "" /\ "completion" # "" /\ "total" # ""
      /\ "cache_read" # "" /\ "cache_write" # ""
  OBVIOUS
<1> HIDE DEF count, detail
<1>9. /\ IsWords(KeyTokenCountPrompt) /\ BelowLlm(KeyTokenCountPrompt)
      /\ IsWords(KeyTokenCountCompletion) /\ BelowLlm(KeyTokenCountCompletion)
      /\ IsWords(KeyTokenCountPromptCache) /\ BelowLlm(KeyTokenCountPromptCache)
      /\ IsWords(KeyTokenCountPromptCacheW) /\ BelowLlm(KeyTokenCountPromptCacheW)
  <2>0. 3 > 1 /\ 4 > 1 OBVIOUS
  <2>1. ASSUME NEW w, w # "" PROVE IsWords(count(w)) /\ BelowLlm(count(w))
    BY <1>4, <2>0, <2>1 DEF BelowLlm
  <2>2. ASSUME NEW w, w # "" PROVE IsWords(detail(w)) /\ BelowLlm(detail(w))
    BY <1>5, <2>0, <2>2 DEF BelowLlm
  <2> QED BY <1>3, <1>8, <2>1, <2>2
<1>10. /\ Len(KeyTokenCountTotal) = 3 /\ IsWords(KeyTokenCountTotal)
       /\ KeyTokenCountTotal[1].word = "llm"
  BY <1>3, <1>4, <1>8
<1>11. \A c \in DOMAIN CountKeys : IsWords(CountKeys[c]) /\ BelowLlm(CountKeys[c])
  BY <1>9 DEF CountKeys
<1> QED BY <1>6, <1>7, <1>10, <1>11 DEF BelowLlm

\* What the extractors read under a key of words of which something is said.
LEMMA ExplicitView ==
  ASSUME DecodeInv, pc = "done", SynthesizeFromGenAI(flat) # {},
         NEW K, IsWords(K), Settled(K),
         NEW view \in Views(Merged(flat, Materialized(trie)))
  PROVE  \E v \in Explicit(K) : At(view, K) = {v}
<1> DEFINE M == Merged(flat, Materialized(trie))
           X == Flattened(Materialized(trie))
<1>1. M = X \cup {e \in SynthesizeFromGenAI(flat) : e[1] \notin Keys(X)} BY DEF Merged
<1>2. K \in Keys(X) BY SettledEntry
<1>3. \A e \in X : e[2] \in Explicit(e[1]) BY ExplicitEntries
<1> HIDE DEF X, M
<1>4. DOMAIN view = Keys(M) /\ \A j \in Keys(M) : \E e \in M : e[1] = j /\ e[2] = view[j]
  BY ViewIs DEF M
<1>5. K \in Keys(M) BY <1>1, <1>2 DEF Keys
<1>6. PICK e \in M : e[1] = K /\ e[2] = view[K] BY <1>4, <1>5
<1>7. e \in X BY <1>1, <1>2, <1>6
<1>8. view[K] \in Explicit(K) BY <1>3, <1>6, <1>7
<1> QED BY <1>4, <1>5, <1>8 DEF At

\* How extractTokenUsage shows what it reads.
LEMMA CountsShown ==
  ASSUME NEW view, span.extracted.usage = ExtractTokenUsage(view)
  PROVE  /\ \A count \in DOMAIN CountKeys :
               Shown(count) = OrZero(AsInt(At(view, CountKeys[count])))
         /\ AsInt(At(view, KeyTokenCountTotal)) # {} =>
               Shown("total") = OrZero(AsInt(At(view, KeyTokenCountTotal)))
<1> DEFINE p == AsInt(At(view, KeyTokenCountPrompt))
           c == AsInt(At(view, KeyTokenCountCompletion))
           t == AsInt(At(view, KeyTokenCountTotal))
           r == AsInt(At(view, KeyTokenCountPromptCache))
           w == AsInt(At(view, KeyTokenCountPromptCacheW))
           u == [prompt |-> OrZero(p), completion |-> OrZero(c),
                 cacheRead |-> OrZero(r), cacheWrite |-> OrZero(w),
                 total |-> IF t # {} THEN OrZero(t) ELSE OrZero(p) + OrZero(c)]
           none == p = {} /\ c = {} /\ t = {} /\ OrZero(r) = 0 /\ OrZero(w) = 0
<1>1. ExtractTokenUsage(view) = IF none THEN {} ELSE {u} BY DEF ExtractTokenUsage
<1>2. \A x : OrZero({x}) = x BY DEF OrZero
<1>3. OrZero({}) = 0 BY DEF OrZero
<1>4. /\ CountKeys.prompt = KeyTokenCountPrompt
      /\ CountKeys.completion = KeyTokenCountCompletion
      /\ CountKeys.cacheRead = KeyTokenCountPromptCache
      /\ CountKeys.cacheWrite = KeyTokenCountPromptCacheW
      /\ DOMAIN CountKeys = {"prompt", "completion", "cacheRead", "cacheWrite"}
  BY DEF CountKeys
<1>5. /\ u.prompt = OrZero(p) /\ u.completion = OrZero(c)
      /\ u.cacheRead = OrZero(r) /\ u.cacheWrite = OrZero(w)
      /\ t # {} => u.total = OrZero(t)
  OBVIOUS
<1> HIDE DEF u
<1>6. CASE none
  <2>1. \A count : Shown(count) = 0
    <3>1. \A count : {v[count] : v \in span.extracted.usage} = {} BY <1>1, <1>6
    <3> QED BY <1>3, <3>1 DEF Shown
  <2>2. OrZero(p) = 0 /\ OrZero(c) = 0 /\ OrZero(r) = 0 /\ OrZero(w) = 0 /\ t = {}
    BY <1>3, <1>6
  <2> HIDE DEF p, c, r, w, t, none
  <2> QED BY <1>4, <2>1, <2>2 DEF p, c, r, w, t
<1>7. CASE ~none
  <2>1. \A count : Shown(count) = u[count]
    <3>1. span.extracted.usage = {u} BY <1>1, <1>7
    <3>2. \A count : {v[count] : v \in span.extracted.usage} = {u[count]} BY <3>1
    <3> QED BY <1>2, <3>2 DEF Shown
  <2> HIDE DEF none
  <2>2. /\ Shown("prompt") = OrZero(p) /\ Shown("completion") = OrZero(c)
        /\ Shown("cacheRead") = OrZero(r) /\ Shown("cacheWrite") = OrZero(w)
        /\ t # {} => Shown("total") = OrZero(t)
    BY <1>5, <2>1
  <2> QED BY <1>4, <2>2
<1> QED BY <1>6, <1>7

\* semconv.Merge, for all requests: beside gen_ai attributes the model, the
\* four counts and the total are what an explicit attribute says wherever one
\* says something, in whatever order maps that yield a key twice are walked.
THEOREM ExplicitIsTaken == Spec => []ExplicitWins
<1>1. ASSUME DecodeInv PROVE ExplicitWins
  <2> SUFFICES ASSUME pc = "done", SynthesizeFromGenAI(flat) # {}
               PROVE
                 /\ Settled(KeyLLMModelName) =>
                       \E v \in Explicit(KeyLLMModelName) : span.extracted.model = AsString({v})
                 /\ \A count \in DOMAIN CountKeys : Settled(CountKeys[count]) =>
                       \E v \in Explicit(CountKeys[count]) : Shown(count) = OrZero(AsInt({v}))
                 /\ Settled(KeyTokenCountTotal) =>
                       \E v \in Explicit(KeyTokenCountTotal) : AsInt({v}) \subseteq {Shown("total")}
    BY DEF ExplicitWins
  <2>1. PICK view \in Views(Merged(flat, Materialized(trie))) : span.extracted = Extract(view)
    BY <1>1 DEF DecodeInv, DoneInv, Extracted
  <2>2. /\ span.extracted.usage = ExtractTokenUsage(view)
        /\ span.extracted.model = AsString(At(view, KeyLLMModelName))
    BY <2>1 DEF Extract
  <2>3. ASSUME NEW K, IsWords(K), Settled(K) PROVE \E v \in Explicit(K) : At(view, K) = {v}
    BY <1>1, <2>1, <2>3, ExplicitView
  <2>4. ASSUME Settled(KeyLLMModelName)
        PROVE  \E v \in Explicit(KeyLLMModelName) : span.extracted.model = AsString({v})
    BY <2>2, <2>3, <2>4, ConventionsAre
  <2>5. ASSUME NEW count \in DOMAIN CountKeys, Settled(CountKeys[count])
        PROVE  \E v \in Explicit(CountKeys[count]) : Shown(count) = OrZero(AsInt({v}))
    <3>1. PICK v \in Explicit(CountKeys[count]) : At(view, CountKeys[count]) = {v}
      BY <2>3, <2>5, ConventionsAre
    <3>2. Shown(count) = OrZero(AsInt(At(view, CountKeys[count]))) BY <2>2, CountsShown
    <3> QED BY <3>1, <3>2
  <2>6. ASSUME Settled(KeyTokenCountTotal)
        PROVE  \E v \in Explicit(KeyTokenCountTotal) : AsInt({v}) \subseteq {Shown("total")}
    <3>1. PICK v \in Explicit(KeyTokenCountTotal) : At(view, KeyTokenCountTotal) = {v}
      BY <2>3, <2>6, ConventionsAre
    <3>2. AsInt({v}) # {} => Shown("total") = OrZero(AsInt({v})) BY <2>2, <3>1, CountsShown
    <3>3. AsInt({v}) # {} => OrZero(AsInt({v})) \in AsInt({v}) BY DEF OrZero
    <3>4. \A x, y \in AsInt({v}) : x = y BY AsIntIs
    <3> DEFINE t == AsInt({v})
               s == Shown("total")
    <3>5. t \subseteq {s}
      <4>1. t # {} => s \in t BY <3>2, <3>3
      <4>2. \A x, y \in t : x = y BY <3>4
      <4> HIDE DEF t, s
      <4> QED BY <4>1, <4>2
    <3> QED BY <3>5
  <2> QED BY <2>4, <2>5, <2>6
<1> QED BY <1>1, DecodeInvariant, PTL

\* An entry of the tree's top level: its key goes on behind a value only.
LEMMA TopLevelEntry ==
  ASSUME NEW T, Tree(T), NEW e \in TopLevel(Materialized(T))
  PROVE  \E n \in Visible(T) : \E d \in 1 .. Len(n) :
            /\ e = <<Above(Segs(n), d), IF d < Len(n) THEN Structure ELSE T[n]>>
            /\ \A i \in 1 .. d : Place(T, n)[i][1] # "item"
            /\ \A i \in 2 .. d : HasValue(T, Above(n, i - 1))
<1> DEFINE top(l) == LET tail == Until(Tail(l.at), {"key", "item"})
                     IN  <<Segments(<<l.at[1]>> \o tail),
                           IF Len(tail) + 1 < Len(l.at) THEN Structure ELSE l.value>>
<1>1. \A leaves : TopLevel(leaves) = {top(l) : l \in leaves}
  <2>1. \A leaves : TopLevel(leaves) = UNION {{top(l)} : l \in leaves} BY DEF TopLevel
  <2> HIDE DEF top
  <2> QED BY <2>1
<1>2. PICK n \in Visible(T) : e = top(Leaf(T, n))
  <2> HIDE DEF top
  <2> QED BY <1>1, FlattenedIs
<1> DEFINE at == Place(T, n)
           tail == Until(Tail(at), {"key", "item"})
<1>3. /\ n \in DOMAIN T /\ HasValue(T, n) /\ n \in Address /\ Len(n) \in Nat /\ n # Root
      /\ DOMAIN n = 1 .. Len(n)
  <2>1. n \in DOMAIN T /\ HasValue(T, n) BY DEF Visible
  <2> QED BY <2>1, TreeIs, AddressIs
<1>4. Len(n) >= 1 BY <1>3, RootIs
<1>5. e = <<Segments(<<at[1]>> \o tail), IF Len(tail) + 1 < Len(at) THEN Structure ELSE T[n]>>
  BY <1>2 DEF Leaf
<1> HIDE DEF top
<1>6. /\ \E S : at \in Seq(S)
      /\ Len(at) = Len(n)
      /\ \A i \in 1 .. Len(n) :
            /\ at[i][1] \in {"dotted", "item", "key"}
            /\ at[i][1] = "item" <=> ~HasValue(T, Above(n, i - 1)) /\ n[i].track = "index"
            /\ at[i][1] = "dotted" <=> HasValue(T, Above(n, i - 1))
            /\ at[i][1] # "item" => at[i][2] = n[i].seg
  BY <1>3, PlaceShape
<1> HIDE DEF at
<1>7. PICK S : at \in Seq(S) BY <1>6
<1>8. /\ Tail(at) \in Seq(S) /\ Len(Tail(at)) = Len(n) - 1
      /\ \A i \in 1 .. Len(n) - 1 : Tail(at)[i] = at[i + 1]
  <2>1. at # <<>> BY <1>4, <1>6, EmptySeq
  <2> QED BY <1>6, <1>7, <2>1, HeadTailProperties
<1> DEFINE r == Tail(at)
<1>9. r \in Seq(S) /\ Len(r) = Len(n) - 1 /\ Len(r) \in Nat BY <1>3, <1>4, <1>8
<1>10. PICK c \in 0 .. Len(r) :
          /\ tail = Above(r, c)
          /\ \A i \in 1 .. c : r[i][1] \notin {"key", "item"}
  BY <1>9, UntilIs
<1>11. tail \in Seq(S) /\ Len(tail) = c /\ \A i \in 1 .. c : tail[i] = r[i]
  <2> HIDE DEF r, tail
  <2> QED BY <1>9, <1>10, AboveIs
<1> DEFINE d == c + 1
<1>12. c \in Nat /\ d \in 1 .. Len(n) /\ \A i \in 1 .. d : i \in 1 .. Len(n)
  <2>1. c \in 0 .. Len(n) - 1 BY ONLY <1>9, <1>10
  <2> QED BY ONLY <1>3, <1>4, <2>1
<1>13. \A i \in 2 .. d : i - 1 \in 1 .. c /\ i - 1 \in 1 .. Len(n) - 1 /\ (i - 1) + 1 = i
  BY ONLY <1>3, <1>12
<1> HIDE DEF tail
<1>14. ASSUME NEW i \in 2 .. d PROVE at[i][1] = "dotted"
  <2>1. r[i - 1] = at[i] BY <1>8, <1>13
  <2>2. at[i][1] \notin {"key", "item"} BY <1>10, <1>13, <2>1
  <2>3. i \in 1 .. Len(n) BY <1>12
  <2> QED BY <1>6, <2>2, <2>3
<1> HIDE DEF r
<1>15. at[1][1] # "item"
  <2> SUFFICES ASSUME at[1][1] = "item" PROVE FALSE OBVIOUS
  <2>1. 1 \in 1 .. Len(n) BY <1>3, <1>4
  <2>2. n[1].track = "index" BY <1>6, <2>1
  <2>3. Above(n, 1 - 1) = Root BY <1>3, AboveAll DEF Address, Root
  <2>4. Hidden(T, n, 1) BY <2>2, <2>3 DEF Hidden
  <2> QED BY <1>3, <2>1, <2>4 DEF Visible
<1>16. \A i \in 1 .. d : at[i][1] # "item"
  <2>1. \A i \in 1 .. d : i = 1 \/ i \in 2 .. d BY <1>12
  <2> QED BY <1>14, <1>15, <2>1
<1>17. ASSUME NEW i \in 2 .. d PROVE HasValue(T, Above(n, i - 1))
  <2>1. i \in 1 .. Len(n) /\ at[i][1] = "dotted"
    <3>1. i \in 1 .. d BY ONLY <1>12, i \in 2 .. d
    <3> QED BY <1>12, <1>14, <3>1
  <2> QED BY <1>6, <2>1
<1>18. e[1] = Above(Segs(n), d)
  <2> DEFINE s == <<at[1]>>
             w == s \o tail
             a == Above(Segs(n), d)
  <2>1. s \in Seq(S) /\ Len(s) = 1 /\ s[1] = at[1]
    <3>1. 1 \in 1 .. Len(at) BY <1>3, <1>4, <1>6
    <3>2. at[1] \in S BY <1>7, <3>1, ElementOfSeq
    <3> QED BY <3>2
  <2> HIDE DEF s
  <2>2. /\ w \in Seq(S) /\ Len(w) = Len(s) + Len(tail)
        /\ \A i \in 1 .. Len(s) + Len(tail) :
              w[i] = IF i <= Len(s) THEN s[i] ELSE tail[i - Len(s)]
    BY ONLY <1>11, <2>1, ConcatProperties
  <2> HIDE DEF w
  <2>3. Len(s) + Len(tail) = d /\ Len(w) = d /\ DOMAIN w = 1 .. d
    <3>1. Len(s) + Len(tail) = d BY <1>11, <1>12, <2>1
    <3>2. DOMAIN w = 1 .. Len(w) BY <2>2, LenProperties
    <3> QED BY <2>2, <3>1, <3>2
  <2>4. a \in Seq(PathSeg) /\ Len(a) = d /\ \A i \in 1 .. d : a[i] = n[i].seg
    <3>1. /\ Segs(n) \in Seq(PathSeg) /\ Len(Segs(n)) = Len(n)
          /\ \A i \in 1 .. Len(n) : Segs(n)[i] = n[i].seg
      BY <1>3, SegsTyped
    <3>2. d \in 0 .. Len(Segs(n)) BY <1>3, <1>12, <3>1
    <3>3. a \in Seq(PathSeg) /\ Len(a) = d /\ \A i \in 1 .. d : a[i] = Segs(n)[i]
      BY <3>1, <3>2, AboveIs
    <3> HIDE DEF a, d
    <3> QED BY <1>12, <3>1, <3>3
  <2>5. ASSUME NEW i \in 1 .. d PROVE w[i][2] = n[i].seg
    <3>1. w[i] = IF i <= 1 THEN s[i] ELSE tail[i - 1] BY <2>1, <2>2, <2>3
    <3>2. at[i][2] = n[i].seg BY <1>6, <1>12, <1>16
    <3>3. CASE i = 1 BY <2>1, <3>1, <3>2, <3>3
    <3>4. CASE i # 1
      <4>1. i \in 2 .. d /\ ~(i <= 1) BY <1>12, <3>4
      <4>2. w[i] = tail[i - 1] BY <3>1, <4>1
      <4>3. tail[i - 1] = at[i] BY <1>8, <1>11, <1>13, <4>1 DEF r
      <4> QED BY <3>2, <4>2, <4>3
    <3> QED BY <3>3, <3>4
  <2>6. Segments(w) = [i \in 1 .. d |-> n[i].seg] BY <2>3, <2>5 DEF Segments
  <2>7. DOMAIN a = 1 .. d /\ a = [i \in 1 .. d |-> a[i]]
    <3> HIDE DEF a, d
    <3> QED BY <2>4, LenProperties
  <2>8. Segments(w) = a
    <3> HIDE DEF a, d
    <3> QED BY <2>4, <2>6, <2>7
  <2>9. e[1] = Segments(w) BY <1>5 DEF w, s
  <2> QED BY <2>8, <2>9
<1>19. e = <<Above(Segs(n), d), IF d < Len(n) THEN Structure ELSE T[n]>>
  <2>1. Len(tail) + 1 = d /\ Len(at) = Len(n) BY <1>6, <1>11
  <2>2. e = <<e[1], IF d < Len(n) THEN Structure ELSE T[n]>> BY <1>5, <2>1
  <2> QED BY <1>18, <2>2
<1> HIDE DEF d
<1> QED BY <1>12, <1>16, <1>17, <1>19 DEF at

\* Only a leaf that is no structure and no map has an integer, and it is an
\* entry of the flattened tree where it is one of the top level's.
LEMMA TopLevelIs ==
  ASSUME NEW T, Tree(T), NEW e \in TopLevel(Materialized(T)), AsInt({e[2]}) # {}
  PROVE  e \in Flattened(Materialized(T))
<1>1. e[2].type \in {"int", "float", "string"} BY AsIntIs
<1>2. PICK n \in Visible(T) : \E d \in 1 .. Len(n) :
            /\ e = <<Above(Segs(n), d), IF d < Len(n) THEN Structure ELSE T[n]>>
            /\ \A i \in 1 .. d : Place(T, n)[i][1] # "item"
  BY TopLevelEntry
<1>2a. PICK d \in 1 .. Len(n) :
            /\ e = <<Above(Segs(n), d), IF d < Len(n) THEN Structure ELSE T[n]>>
            /\ \A i \in 1 .. d : Place(T, n)[i][1] # "item"
  BY <1>2
<1>3. n \in DOMAIN T /\ n \in Address /\ Len(n) \in Nat
  <2>1. n \in DOMAIN T BY DEF Visible
  <2> QED BY <2>1, TreeIs
<1>4. d = Len(n)
  <2> SUFFICES ASSUME d # Len(n) PROVE FALSE OBVIOUS
  <2>1. d < Len(n) BY <1>3
  <2>2. e[2] = Structure BY <1>2a, <2>1
  <2>3. e[2].type = "structure" BY <2>2 DEF Structure
  <2> QED BY <1>1, <2>3
<1>5. e = <<Segs(n), T[n]>>
  <2>1. ~(d < Len(n)) BY <1>3, <1>4
  <2>2. Above(Segs(n), d) = Segs(n) BY <1>3, <1>4, SegsTyped, AboveAll
  <2> QED BY <1>2a, <2>1, <2>2
<1>6. e[2] = T[n] BY <1>5
<1>7. e \in FlatOf(Leaf(T, n))
  <2>1. PICK c \in 0 .. Len(n) :
           \/ /\ c < Len(n) /\ ~HasValue(T, Above(n, c)) /\ n[c + 1].track = "index"
              /\ FlatOf(Leaf(T, n)) = {<<Above(Segs(n), c), Structure>>}
           \/ /\ c = Len(n) /\ \A i \in 1 .. Len(n) : Place(T, n)[i][1] # "item"
              /\ T[n].type = "map"
              /\ FlatOf(Leaf(T, n)) = {<<Segs(n) \o f, T[n].fields[f]>> : f \in DOMAIN T[n].fields}
           \/ /\ c = Len(n) /\ \A i \in 1 .. Len(n) : Place(T, n)[i][1] # "item"
              /\ T[n].type # "map"
              /\ FlatOf(Leaf(T, n)) = {<<Segs(n), T[n]>>}
    BY <1>3, FlatOfIs
  <2>2. ~(c < Len(n) /\ ~HasValue(T, Above(n, c)) /\ n[c + 1].track = "index")
    <3> SUFFICES ASSUME c < Len(n), ~HasValue(T, Above(n, c)), n[c + 1].track = "index"
                 PROVE  FALSE
      OBVIOUS
    <3>1. c + 1 \in 1 .. Len(n) /\ (c + 1) - 1 = c BY <1>3
    <3>2. Place(T, n)[c + 1][1] = "item" BY <1>3, <3>1, PlaceShape
    <3> QED BY <1>2a, <1>4, <3>1, <3>2
  <2>3. T[n].type # "map" BY <1>1, <1>6
  <2> QED BY <1>5, <2>1, <2>2, <2>3
<1> QED BY <1>7, FlattenedIs

\* What is synthesized under another key than the kind's and the model's is
\* an integer.
LEMMA SynthesizedInts ==
  ASSUME NEW map, NEW e \in SynthesizeFromGenAI(map),
         e[1] # Path(KeySpanKind), e[1] # KeyLLMModelName
  PROVE  \E n : e = <<e[1], [type |-> "int", num |-> n]>>
<1>1. \A k, values : e \in Entries(k, values) => e[1] = k /\ \E v \in values : e = <<e[1], v>>
  BY DEF Entries
<1>2. \A k, ints : e \in Entries(k, Ints(ints)) =>
                      \E n : e = <<e[1], [type |-> "int", num |-> n]>>
  BY <1>1 DEF Ints
<1>3. PICK kinds, models, p, c, t, r, w :
         e \in Entries(Path(KeySpanKind), kinds)
                 \cup Entries(KeyLLMModelName, models)
                 \cup Entries(KeyTokenCountPrompt, Ints(p))
                 \cup Entries(KeyTokenCountCompletion, Ints(c))
                 \cup Entries(KeyTokenCountTotal, Ints(t))
                 \cup Entries(KeyTokenCountPromptCache, Ints(r))
                 \cup Entries(KeyTokenCountPromptCacheW, Ints(w))
  BY DEF SynthesizeFromGenAI
<1> QED BY <1>1, <1>2, <1>3

LEMMA IntIs ==
  ASSUME NEW n
  PROVE  AsInt({[type |-> "int", num |-> n]}) = {n}
<1> DEFINE v == [type |-> "int", num |-> n]
<1>1. v.type = "int" /\ v.num = n OBVIOUS
<1> HIDE DEF v
<1>2. n \in AsInt({v}) BY <1>1 DEF AsInt
<1>3. \A x, y \in AsInt({v}) : x = y BY AsIntIs
<1> QED BY <1>2, <1>3 DEF v

\* extractTokenUsage, for all requests: a total is the sum of the counts
\* beside it, the integer of an entry of the tree, or synthesized.
THEOREM TotalsExplained == Spec => []TotalExplained
<1>1. ASSUME DecodeInv PROVE TotalExplained
  <2> DEFINE KT == KeyTokenCountTotal
             X == Flattened(Materialized(trie))
             syn == SynthesizeFromGenAI(flat)
             M == Merged(flat, Materialized(trie))
             under(S) == AsInt({e[2] : e \in {e \in S : e[1] = KT}})
  <2> SUFFICES ASSUME pc = "done", NEW u \in span.extracted.usage
               PROVE  \/ u.total = u.prompt + u.completion
                      \/ u.total \in under(X)
                      \/ <<KT, [type |-> "int", num |-> u.total]>> \in syn
    <3>1. pc = "done" => span.attributes = Materialized(trie) BY <1>1 DEF DecodeInv, DoneInv, Extracted
    <3> QED BY <3>1 DEF TotalExplained
  <2>1. Tree(trie) BY <1>1 DEF DecodeInv, TrieInv
  <2>2. PICK view \in Views(M) : span.extracted = Extract(view)
    BY <1>1 DEF DecodeInv, DoneInv, Extracted
  <2>3. u \in ExtractTokenUsage(view) BY <2>2 DEF Extract
  <2> DEFINE t == AsInt(At(view, KT))
  <2>4. /\ t = {} => u.total = u.prompt + u.completion
        /\ t # {} => u.total = OrZero(t)
    BY <2>3 DEF ExtractTokenUsage
  <2>5. CASE t = {} BY <2>4, <2>5
  <2>6. CASE t # {}
    <3> HIDE DEF M, X, syn
    <3>1. KT \in DOMAIN view /\ t = AsInt({view[KT]})
      <4>1. AsInt({}) = {} BY DEF AsInt, Texts
      <4> QED BY <2>6, <4>1 DEF At
    <3>2. PICK e \in M : e[1] = KT /\ e[2] = view[KT] BY <2>2, <3>1, ViewIs
    <3> HIDE DEF KT
    <3>3. AsInt({e[2]}) = t BY <3>1, <3>2
    <3> HIDE DEF t
    <3>4. u.total \in AsInt({e[2]}) BY <2>4, <2>6, <3>3 DEF OrZero
    <3>5. ASSUME e \in X PROVE u.total \in under(X)
      <4>1. e[2] \in {f[2] : f \in {f \in X : f[1] = KT}} BY <3>2, <3>5
      <4> QED BY <3>4, <4>1, AsIntIs
    <3>6. CASE syn = {}
      <4>1. e \in TopLevel(Materialized(trie)) BY <3>2, <3>6 DEF M, Merged, syn
      <4>2. AsInt({e[2]}) # {} BY <2>6, <3>3
      <4>3. e \in X BY <2>1, <4>1, <4>2, TopLevelIs DEF X
      <4> QED BY <3>5, <4>3
    <3>7. CASE syn # {}
      <4>1. e \in X \/ e \in syn BY <3>2, <3>7 DEF M, Merged, syn, X
      <4>2. ASSUME e \in syn PROVE <<KT, [type |-> "int", num |-> u.total]>> \in syn
        <5>1. e[1] # Path(KeySpanKind) /\ e[1] # KeyLLMModelName BY <3>2, ConventionsAre DEF KT
        <5>2. PICK n : e = <<e[1], [type |-> "int", num |-> n]>>
          BY <4>2, <5>1, SynthesizedInts DEF syn
        <5>3. e[2] = [type |-> "int", num |-> n] BY <5>2
        <5>4. u.total = n BY <3>4, <5>3, IntIs
        <5> QED BY <3>2, <4>2, <5>2, <5>4
      <4> QED BY <3>5, <4>1, <4>2
    <3> QED BY <3>6, <3>7
  <2> QED BY <2>5, <2>6
<1> QED BY <1>1, DecodeInvariant, PTL

\* A key of several segments is at the top level only beside a value under
\* its first segment.
LEMMA LongKeyBesideShort ==
  ASSUME NEW T, Tree(T), NEW e \in TopLevel(Materialized(T)), Len(e[1]) > 1
  PROVE  \E m \in DOMAIN T : /\ HasValue(T, m)
                            /\ Len(Segs(m)) = 1 /\ Segs(m)[1] = e[1][1]
<1>1. PICK n \in Visible(T) : \E d \in 1 .. Len(n) :
            /\ e = <<Above(Segs(n), d), IF d < Len(n) THEN Structure ELSE T[n]>>
            /\ \A i \in 2 .. d : HasValue(T, Above(n, i - 1))
  BY TopLevelEntry
<1>1a. PICK d \in 1 .. Len(n) :
            /\ e = <<Above(Segs(n), d), IF d < Len(n) THEN Structure ELSE T[n]>>
            /\ \A i \in 2 .. d : HasValue(T, Above(n, i - 1))
  BY <1>1
<1>2. n \in DOMAIN T /\ n \in Address /\ Len(n) \in Nat
  <2>1. n \in DOMAIN T BY DEF Visible
  <2> QED BY <2>1, TreeIs
<1>3. /\ Segs(n) \in Seq(PathSeg) /\ Len(Segs(n)) = Len(n)
      /\ \A i \in 1 .. Len(n) : Segs(n)[i] = n[i].seg
  BY <1>2, SegsTyped
<1>4. d \in 0 .. Len(Segs(n)) /\ 1 \in 1 .. Len(n) /\ 1 \in 0 .. Len(n) BY <1>2, <1>3
<1>5. /\ Len(Above(Segs(n), d)) = d
      /\ \A i \in 1 .. d : Above(Segs(n), d)[i] = Segs(n)[i]
  BY <1>3, <1>4, AboveIs
<1>6. e[1] = Above(Segs(n), d) BY <1>1a
<1>7. 2 \in 2 .. d /\ 2 - 1 = 1 /\ 1 \in 1 .. d BY <1>2, <1>5, <1>6
<1> DEFINE m == Above(n, 1)
<1>8. HasValue(T, m) BY <1>1a, <1>7
<1>9. m \in DOMAIN T BY <1>2, <1>4, TreeIs
<1>10. Segs(m) = Above(Segs(n), 1) BY <1>2, <1>4, SegsAbove
<1>11. Len(Segs(m)) = 1 /\ Segs(m)[1] = Segs(n)[1]
  <2>1. 1 \in 0 .. Len(Segs(n)) /\ 1 \in 1 .. 1 BY <1>3, <1>4
  <2>2. /\ Len(Above(Segs(n), 1)) = 1
        /\ \A i \in 1 .. 1 : Above(Segs(n), 1)[i] = Segs(n)[i]
    BY ONLY <1>3, <2>1, AboveIs
  <2> QED BY ONLY <1>10, <2>1, <2>2
<1>12. e[1][1] = Segs(n)[1] BY <1>5, <1>6, <1>7
<1> HIDE DEF m
<1> QED BY <1>8, <1>9, <1>11, <1>12

\* Merge without gen_ai attributes, as extractTokenUsage and the model's
\* extractor find it: unless an attribute is called "llm" alone, the keys they
\* look up are not in the nested tree, whatever the span says under them.
NothingExtracted ==
    /\ pc = "done" /\ SynthesizeFromGenAI(flat) = {}
    /\ \A p \in Paths : p[1].word = "llm" => Len(p) > 1
    => span.extracted.usage = {} /\ span.extracted.model = ""

\* Merge and Extract, for all requests: without gen_ai attributes no usage and
\* no model is extracted, explicit convention attributes or not, as long as
\* none is called "llm" alone.
THEOREM CountsNeedGenAI == Spec => []NothingExtracted
<1>1. ASSUME DecodeInv PROVE NothingExtracted
  <2> SUFFICES ASSUME pc = "done", SynthesizeFromGenAI(flat) = {},
                      \A p \in Paths : p[1].word = "llm" => Len(p) > 1
               PROVE  span.extracted.usage = {} /\ span.extracted.model = ""
    BY DEF NothingExtracted
  <2>1. Tree(trie) /\ Sourced BY <1>1 DEF DecodeInv, TrieInv
  <2> DEFINE M == Merged(flat, Materialized(trie))
  <2>2. PICK view \in Views(M) : span.extracted = Extract(view)
    BY <1>1 DEF DecodeInv, DoneInv, Extracted
  <2>3. M = TopLevel(Materialized(trie)) BY DEF Merged
  <2> HIDE DEF M
  <2>4. DOMAIN view = Keys(M) BY <2>2, ViewIs
  <2>5. ASSUME NEW K, BelowLlm(K) PROVE At(view, K) = {}
    <3> SUFFICES ASSUME K \in Keys(M) PROVE FALSE BY <2>4 DEF At
    <3>1. PICK e \in M : e[1] = K BY DEF Keys
    <3>2. Len(e[1]) > 1 /\ e[1][1].word = "llm" BY <2>5, <3>1 DEF BelowLlm
    <3>3. PICK m \in DOMAIN trie : /\ HasValue(trie, m)
                                   /\ Len(Segs(m)) = 1 /\ Segs(m)[1] = e[1][1]
      BY <2>1, <2>3, <3>1, <3>2, LongKeyBesideShort
    <3>4. PICK j \in Named : Segs(m) = Path(j) BY <2>1, <3>3 DEF Sourced
    <3>5. Path(j) \in Paths /\ Path(j)[1].word = "llm" /\ Len(Path(j)) = 1
      BY <3>2, <3>3, <3>4 DEF Paths
    <3>6. Len(Path(j)) > 1 BY <3>5, Zenon
    <3>7. ~(1 > 1) OBVIOUS
    <3> QED BY <3>5, <3>6, <3>7
  <2>6. /\ At(view, KeyTokenCountPrompt) = {} /\ At(view, KeyTokenCountCompletion) = {}
        /\ At(view, KeyTokenCountPromptCache) = {} /\ At(view, KeyTokenCountPromptCacheW) = {}
        /\ At(view, KeyTokenCountTotal) = {} /\ At(view, KeyLLMModelName) = {}
    <3>1. /\ CountKeys.prompt = KeyTokenCountPrompt
          /\ CountKeys.completion = KeyTokenCountCompletion
          /\ CountKeys.cacheRead = KeyTokenCountPromptCache
          /\ CountKeys.cacheWrite = KeyTokenCountPromptCacheW
          /\ DOMAIN CountKeys = {"prompt", "completion", "cacheRead", "cacheWrite"}
      BY DEF CountKeys
    <3>2. \A count \in DOMAIN CountKeys : At(view, CountKeys[count]) = {}
      BY <2>5, ConventionsAre
    <3> QED BY <2>5, <3>1, <3>2, ConventionsAre
  <2>7. AsInt({}) = {} /\ OrZero({}) = 0 /\ AsString({}) = ""
    BY DEF AsInt, OrZero, AsString, Texts
  <2>8. ExtractTokenUsage(view) = {} BY <2>6, <2>7 DEF ExtractTokenUsage
  <2>9. span.extracted.usage = ExtractTokenUsage(view)
        /\ span.extracted.model = AsString(At(view, KeyLLMModelName))
    BY <2>2 DEF Extract
  <2> QED BY <2>6, <2>7, <2>8, <2>9
<1> QED BY <1>1, DecodeInvariant, PTL
=============================================================================
