----------------------------- MODULE Attributes -----------------------------
(***************************************************************************)
(* internal/attrs: flat dotted keys and the tree they expand to.           *)
(*                                                                         *)
(* The tree is Unflatten's trie.  A node is known by its address, the      *)
(* children that lead to it from the root: each on one of the two tracks,  *)
(* "branch" (a map key) or "index" (a candidate for an array position).    *)
(* The trie maps the addresses of its nodes to their values.               *)
(***************************************************************************)
EXTENDS Integers, Sequences, SequencesExt, FiniteSets

CONSTANTS
    IntSize,     \* how many values an int has: 2^64 in the program
    JsonKeys,    \* jsonStringKeys
    Json,        \* the texts that are JSON -> what they decode to
    NoValue      \* nil

ASSUME IntSizeAssumption == IntSize \in Nat \ {0}

-----------------------------------------------------------------------------
(* Keys.  A key is what strings.Split leaves: its segments without their   *)
(* blanks, each a word or a row of digits.                                 *)

Word(w)   == [word |-> w, digits |-> <<>>]
Digits(d) == [word |-> "", digits |-> d]

Key == Seq([word : STRING, digits : Seq(0 .. 9)])

IsBlank(s) == s.word = "" /\ s.digits = <<>>

\* An int as the machine wraps it.
Wrapped(n) ==
    LET low == n % IntSize IN IF 2 * low >= IntSize THEN low - IntSize ELSE low

\* plainInt: leading zeros count for nothing, long rows of digits overflow.
PlainInt(digits) == FoldLeft(LAMBDA n, d : Wrapped(n * 10 + d), 0, digits)

\* canonicalSeg: a row of digits is respelled as the integer it stands for.
CanonicalSeg(s) ==
    [word |-> s.word, num |-> IF s.digits = <<>> THEN 0 ELSE PlainInt(s.digits)]

\* digitValue of a canonical segment: an overflow below zero is spelled with
\* a sign and is no position.
IsIndex(s) == s.word = "" /\ s.num >= 0

\* segments, then canonicalSeg on each of them.
Path(key) ==
    FoldLeft(LAMBDA path, s : IF IsBlank(s) THEN path ELSE Append(path, CanonicalSeg(s)),
             <<>>, key)

\* A value, as far as its shape goes: the fields of a map are found by paths.
IsValue(v) ==
    v = NoValue \/ (v.type = "map" => DOMAIN v.fields \subseteq Seq([word : STRING, num : Int]))

ASSUME JsonAssumption == \A text \in DOMAIN Json : IsValue(Json[text])

\* LoadJSONStrings: what a known key's text decodes to, null being nil; a
\* text that does not parse stays.
LoadJSONString(key, value) ==
    IF key \in JsonKeys /\ value.type = "string" /\ value.text \in DOMAIN Json
    THEN Json[value.text] ELSE value
-----------------------------------------------------------------------------
(* The trie. *)

Root == <<>>

NewTrie == [a \in {Root} |-> NoValue]

Child(n, track, s) == Append(n, [track |-> track, seg |-> s])

\* The address of the node at depth i on the way to a.
Above(a, i) == SubSeq(a, 1, i)

ChildrenOf(trie, n, track) ==
    {a \in DOMAIN trie : /\ Len(a) = Len(n) + 1
                         /\ Above(a, Len(n)) = n
                         /\ a[Len(a)].track = track}

HasBranches(trie, n) == ChildrenOf(trie, n, "branch") # {}
HasIndices(trie, n)  == ChildrenOf(trie, n, "index") # {}

HasValue(trie, n) == trie[n] # NoValue

\* Does address a lead along the segments of path p?
Spells(a, p) == Len(a) = Len(p) /\ \A i \in DOMAIN a : a[i].seg = p[i]

\* The trie with a node at address a, a new one if there was none.
WithNode(trie, a) ==
    [b \in DOMAIN trie \cup {a} |-> IF b \in DOMAIN trie THEN trie[b] ELSE NoValue]

\* Mutant: the node unlinked and what is below it kept.
WithoutNode(trie, a) == [b \in DOMAIN trie \ {a} |-> trie[b]]

\* delete(n.indices, idx): the child goes with all that is below it.
WithoutSubtree(trie, a) ==
    [b \in {b \in DOMAIN trie : ~IsPrefix(a, b)} |-> trie[b]]

\* The address at which a node that is below an index of n, or is that index,
\* is found when the index has become a branch; and the other way round.
OnTrack(a, n, track) == [a EXCEPT ![Len(n) + 1].track = track]

IsBelow(a, n, track) ==
    Len(a) > Len(n) /\ Above(a, Len(n)) = n /\ a[Len(n) + 1].track = track

\* setValue's loop: the indices of n become branches, and a branch of the
\* same key is replaced with all that is below it.
Demoted(trie, n) ==
    LET indices == {a \in DOMAIN trie : IsBelow(a, n, "index")}
        moved == {OnTrack(a, n, "branch") : a \in indices}
        replaced == {a \in DOMAIN trie :
                       /\ IsBelow(a, n, "branch")
                       /\ OnTrack(Above(a, Len(n) + 1), n, "index") \in DOMAIN trie}
        kept == DOMAIN trie \ (indices \cup replaced)
    IN [a \in kept \cup moved |->
          IF a \in kept THEN trie[a] ELSE trie[OnTrack(a, n, "index")]]
-----------------------------------------------------------------------------
(* What the trie materializes to, as its leaves: where a value is and which *)
(* it is.  A step of a leaf's place is a key of a map, a key written behind *)
(* a dot into the key before it, or an item of an array.                    *)

\* Mutant: materializeInto without its loop over the indices.
HiddenBelowValue(trie, a, i) ==
    LET n == Above(a, i - 1) IN
    a[i].track = "index" /\ (n = Root \/ HasValue(trie, n) \/ HasBranches(trie, n))

\* Materialization never reaches the child that step i of address a takes:
\* an index of the root, an index beside branches of a node without a value,
\* or a branch whose key an index of the same, valued, node writes over.
Hidden(trie, a, i) ==
    LET n == Above(a, i - 1) IN
    \/ /\ a[i].track = "index"
       /\ n = Root \/ (~HasValue(trie, n) /\ HasBranches(trie, n))
    \/ /\ a[i].track = "branch" /\ HasValue(trie, n)
       /\ Child(n, "index", a[i].seg) \in DOMAIN trie
       /\ i = Len(a) \/ ~HasValue(trie, Above(a, i))

\* Mutant: an item put at its index, with holes before it.
RankWithHoles(trie, a, i) == a[i].seg.num

\* The position of an index among those of its node: sortedIndices.
Rank(trie, a, i) ==
    Cardinality({b \in ChildrenOf(trie, Above(a, i - 1), "index") :
                    b[i].seg.num < a[i].seg.num})

Place(trie, a) ==
    [i \in DOMAIN a |->
        IF HasValue(trie, Above(a, i - 1)) THEN <<"dotted", a[i].seg>>
        ELSE IF a[i].track = "index" THEN <<"item", Rank(trie, a, i)>>
        ELSE <<"key", a[i].seg>>]

Visible(trie) ==
    {a \in DOMAIN trie : HasValue(trie, a) /\ \A i \in DOMAIN a : ~Hidden(trie, a, i)}

\* materializeRoot.
Materialized(trie) ==
    {[at |-> Place(trie, a), value |-> trie[a]] : a \in Visible(trie)}
-----------------------------------------------------------------------------
(* What the expansion should be, from the keys alone. *)

Passes(p, n) == Len(p) > Len(n) /\ Above(p, Len(n)) = n

\* Does path p name a position below n, digits that it goes on from?
Indexes(p, n) == Passes(p, n) /\ IsIndex(p[Len(n) + 1]) /\ Len(p) > Len(n) + 1

\* Do the paths use the children of n both as positions and as plain keys?
\* Nothing of the root can be a position.
Mixes(paths, n) ==
    /\ \E p \in paths : Indexes(p, n)
    /\ n = Root \/ \E p \in paths : Passes(p, n) /\ ~Indexes(p, n)

\* Does path p go through a position of a node whose children are mixed?
Clashes(paths, p) ==
    \E i \in 1 .. Len(p) - 1 : IsIndex(p[i]) /\ Mixes(paths, Above(p, i - 1))

\* "arrays only for mappings": the place of path p.
Expected(paths, p) ==
    [i \in DOMAIN p |->
        IF Above(p, i - 1) \in paths THEN <<"dotted", p[i]>>
        ELSE IF IsIndex(p[i]) /\ i < Len(p)
        THEN <<"item", Cardinality({s \in {q[i] : q \in {q \in paths : Indexes(q, Above(p, i - 1))}} :
                                      s.num < p[i].num})>>
        ELSE <<"key", p[i]>>]
=============================================================================
