---------------------------- MODULE LedgerProofs ----------------------------
(***************************************************************************)
(* The store implements the ledger: what InsertSpan and InsertSpans keep   *)
(* incrementally is what a recount over the stored spans gives.            *)
(*                                                                         *)
(* A balanced row says what its counters are in terms of its children's.   *)
(* That this makes them the sums over all descendants takes an induction,  *)
(* and the induction takes rows without a cycle, which propagateToAncestors *)
(* guarantees in its own way: it does not return when it meets one.        *)
(***************************************************************************)
EXTENDS SpanTablesProofs

-----------------------------------------------------------------------------
(* The rows have no cycle. *)

\* Row a is its own ancestor.
OnCycle(rows, a) == a \in Lineage(rows, rows[a].trace, rows[a].parent)

Acyclic(rows) == \A a \in DOMAIN rows : ~OnCycle(rows, a)

\* No table has a cycle, but for one that the new row has closed and the walk
\* of propagateToAncestors is about to meet.
AcyclicInv ==
    /\ Acyclic(db.spans)
    /\ InBatch /\ pc # "idle" => Acyclic(save.spans)
    /\ pc # "propagate" => Acyclic(work.spans)
    /\ pc = "propagate" =>
          /\ arg.id \in DOMAIN work.spans
          /\ work.spans[arg.id].trace = arg.trace
          /\ work.spans[arg.id].parent = arg.parent
          /\ \A a \in DOMAIN work.spans :
                OnCycle(work.spans, a) =>
                    arg.id \in Lineage(work.spans, work.spans[a].trace, work.spans[a].parent)

\* The walk depends on ids, traces and parents alone.
LEMMA LineageSame ==
  ASSUME NEW rows, NEW new, DOMAIN new = DOMAIN rows,
         \A a \in DOMAIN rows : new[a].trace = rows[a].trace /\ new[a].parent = rows[a].parent,
         NEW t, NEW i
  PROVE  Lineage(new, t, i) = Lineage(rows, t, i)
BY DEF Lineage, UpClosed

\* A walk that comes back to its start's child and passes i does so again
\* from i on.
LEMMA CycleFromAnywhere ==
  ASSUME NEW rows, NEW a \in DOMAIN rows, OnCycle(rows, a),
         NEW i \in Lineage(rows, rows[a].trace, rows[a].parent), a # i
  PROVE  a \in Lineage(rows, rows[a].trace, rows[i].parent)
<1> DEFINE t == rows[a].trace  p == rows[a].parent  L(x) == Lineage(rows, t, x)
           S == {x \in L(p) : a \in L(x)}
<1>1. a \in L(p) /\ i \in L(p) BY DEF OnCycle
<1>2. S \in SUBSET DOMAIN rows BY LineageClosed
<1>3. p \in DOMAIN rows /\ rows[p].trace = t => p \in S
  BY <1>1, LineageClosed
<1>4. UpClosed(rows, t, S)
  <2> SUFFICES ASSUME NEW x \in S, NEW y \in DOMAIN rows,
                      rows[y].trace = t, rows[x].parent = y
               PROVE  y \in S
    BY DEF UpClosed
  <2>1. y \in L(p) BY LineageClosed DEF UpClosed
  <2>2. a \in {x} \cup L(y)
    <3>1. x \in DOMAIN rows BY <1>2
    <3> QED BY <3>1, LineageStep
  <2>3. CASE a = x BY <1>1, <2>1, <2>3
  <2>4. CASE a \in L(y) BY <2>1, <2>4
  <2> QED BY <2>2, <2>3, <2>4
<1>5. i \in S
  <2>1. L(p) \subseteq S
    <3> HIDE DEF S
    <3> QED BY <1>2, <1>3, <1>4, LineageLeast
  <2> QED BY <1>1, <2>1
<1>6. i \in DOMAIN rows BY <1>2, <1>5
<1>7. a \in {i} \cup L(rows[i].parent)
  BY <1>5, <1>6, LineageStep
<1> QED BY <1>7

\* A walk that does not come to a new row is a walk of the old rows.
LEMMA LineageBefore ==
  ASSUME NEW rows, NEW i, i \notin DOMAIN rows, NEW row, NEW t, NEW j,
         i \notin Lineage(Put(rows, i, row), t, j)
  PROVE  Lineage(Put(rows, i, row), t, j) \subseteq Lineage(rows, t, j)
<1> DEFINE new == Put(rows, i, row)
           N == Lineage(new, t, j)  O == Lineage(rows, t, j)  S == N \cap O
<1>1. /\ DOMAIN new = DOMAIN rows \cup {i}
      /\ \A a \in DOMAIN rows : new[a] = rows[a]
  BY DEF Put
<1>2. /\ N \in SUBSET DOMAIN new /\ UpClosed(new, t, N)
      /\ j \in DOMAIN new /\ new[j].trace = t => j \in N
  BY LineageClosed
<1>3. /\ O \in SUBSET DOMAIN rows /\ UpClosed(rows, t, O)
      /\ j \in DOMAIN rows /\ rows[j].trace = t => j \in O
  BY LineageClosed
<1> HIDE DEF new, N, O
<1>4. i \notin N BY DEF N, new
<1>5. S \in SUBSET DOMAIN new BY <1>2
<1>6. j \in DOMAIN new /\ new[j].trace = t => j \in S
  BY <1>1, <1>2, <1>3, <1>4
<1>7. UpClosed(new, t, S)
  BY <1>1, <1>2, <1>3, <1>4 DEF UpClosed
<1>8. N \subseteq S
  <2> HIDE DEF S
  <2> QED BY <1>5, <1>6, <1>7, LineageLeast DEF N
<1> QED BY <1>8 DEF N, O, new

\* A cycle that a new row closes passes the new row.
LEMMA CycleThroughNew ==
  ASSUME NEW rows, Acyclic(rows), NEW i, i \notin DOMAIN rows, NEW row,
         NEW a \in DOMAIN Put(rows, i, row), OnCycle(Put(rows, i, row), a)
  PROVE  i \in Lineage(Put(rows, i, row), Put(rows, i, row)[a].trace, Put(rows, i, row)[a].parent)
<1> DEFINE new == Put(rows, i, row)
           L == Lineage(new, new[a].trace, new[a].parent)
<1> SUFFICES ASSUME i \notin L PROVE FALSE
  OBVIOUS
<1>1. a \in L BY DEF OnCycle
<1>2. a \in DOMAIN rows /\ new[a] = rows[a] BY <1>1 DEF Put
<1>3. L \subseteq Lineage(rows, new[a].trace, new[a].parent) BY LineageBefore
<1> HIDE DEF new, L
<1> QED BY <1>1, <1>2, <1>3 DEF Acyclic, OnCycle

\* When the walk of propagateToAncestors ends there was no cycle.
LEMMA EndedWalkNoCycle ==
  ASSUME NEW rows, NEW i \in DOMAIN rows,
         WalkEnds(rows, rows[i].trace, rows[i].parent),
         \A a \in DOMAIN rows :
            OnCycle(rows, a) => i \in Lineage(rows, rows[a].trace, rows[a].parent)
  PROVE  Acyclic(rows)
<1> SUFFICES ASSUME NEW a \in DOMAIN rows, OnCycle(rows, a) PROVE FALSE
  BY DEF Acyclic
<1>1. i \in Lineage(rows, rows[a].trace, rows[a].parent) OBVIOUS
<1>2. rows[a].trace = rows[i].trace BY <1>1, LineageInTrace
<1>3. a \in Lineage(rows, rows[i].trace, rows[i].parent)
  <2>1. CASE a = i BY <2>1 DEF OnCycle
  <2>2. CASE a # i BY <1>1, <1>2, <2>2, CycleFromAnywhere
  <2> QED BY <2>1, <2>2
<1>4. a \notin Lineage(rows, rows[i].trace, rows[a].parent)
  BY <1>3 DEF WalkEnds
<1> QED BY <1>2, <1>4 DEF OnCycle

\* No row, no cycle.
LEMMA InitAcyclic == BatchInit => AcyclicInv
BY DEF BatchInit, Init, EmptyTables, NoRows, AcyclicInv, Acyclic, InBatch

\* A statement leaves no cycle behind, but for the one the new row closes.
LEMMA StatementAcyclic ==
  ASSUME BatchTyped, TablesInv, AcyclicInv, Statements
  PROVE  /\ pc' # "propagate" => Acyclic(work'.spans)
         /\ pc' = "propagate" =>
              /\ arg.id \in DOMAIN work'.spans
              /\ work'.spans[arg.id].trace = arg.trace
              /\ work'.spans[arg.id].parent = arg.parent
              /\ \A a \in DOMAIN work'.spans :
                    OnCycle(work'.spans, a) =>
                      arg.id \in Lineage(work'.spans, work'.spans[a].trace, work'.spans[a].parent)
<1>0. TypeOK BY DEF BatchTyped
<1>1. CASE \/ Serialize \/ CachedProject \/ StoredProject \/ CreateProject
           \/ WidenTrace \/ CreateTrace \/ DuplicateRow
  <2>1. work'.spans = work.spans
    BY <1>0, <1>1, CreateProjectTables, WidenTraceTables, CreateTraceTables
    DEF Serialize, CachedProject, StoredProject, DuplicateRow, TypeOK
  <2>2. pc # "propagate" /\ pc' # "propagate"
    BY <1>1 DEF Serialize, CachedProject, StoredProject, CreateProject, WidenTrace,
                CreateTrace, DuplicateRow
  <2> QED BY <2>1, <2>2 DEF AcyclicInv
<1>2. CASE InsertRow
  <2>1. /\ work'.spans = Put(work.spans, arg.id, NewRow)
        /\ arg.id \notin DOMAIN work.spans /\ pc = "insert" /\ pc' = "propagate"
    BY <1>0, <1>2, InsertRowTables DEF InsertRow
  <2>2. NewRow.trace = arg.trace /\ NewRow.parent = arg.parent BY DEF NewRow
  <2>3. Acyclic(work.spans) BY <2>1 DEF AcyclicInv
  <2>4. arg.id \in DOMAIN work'.spans /\ work'.spans[arg.id] = NewRow
    BY <2>1 DEF Put
  <2> HIDE DEF NewRow
  <2> QED BY <2>1, <2>2, <2>3, <2>4, CycleThroughNew
<1>3. CASE Propagate
  <2> DEFINE rows == work.spans  new == work'.spans
  <2>1. /\ pc = "propagate" /\ pc' = "commit" /\ WalkEnds(rows, arg.trace, arg.parent)
        /\ new = Raised(rows, Lineage(rows, arg.trace, arg.parent), totals)
        /\ IsTable(rows, SpanIds, SpanRow) /\ totals \in Tally
    BY <1>0, <1>3, PropagateTables DEF Propagate, TypeOK, AreTables
  <2>2. Acyclic(rows) BY <2>1, EndedWalkNoCycle DEF AcyclicInv
  <2>3. DOMAIN new = DOMAIN rows /\ \A a \in DOMAIN rows :
           new[a].trace = rows[a].trace /\ new[a].parent = rows[a].parent
    BY <2>1, RaisedRows
  <2>4. Acyclic(new)
    BY <2>2, <2>3, LineageSame DEF Acyclic, OnCycle
  <2> QED BY <2>1, <2>4
<1> QED BY <1>1, <1>2, <1>3 DEF Statements, TxStep

\* A step leaves no cycle behind.
LEMMA NextAcyclic ==
  BatchTyped /\ TablesInv /\ AcyclicInv /\ [BatchNext]_<<vars, batchVars>> => AcyclicInv'
<1> SUFFICES ASSUME BatchTyped, TablesInv, AcyclicInv, [BatchNext]_<<vars, batchVars>>
             PROVE  AcyclicInv'
  OBVIOUS
<1>1. CASE Statements
  <2>1. UNCHANGED <<db, arg, save>> /\ (InBatch' <=> InBatch) /\ pc # "idle"
    BY <1>1, StatementTables DEF Statements, InBatch
  <2> QED BY <1>1, <2>1, StatementAcyclic DEF AcyclicInv
<1>2. CASE Starts
  <2>1. InBatch' <=> InBatch BY <1>2 DEF Starts, InBatch
  <2> QED BY <1>2, <2>1 DEF Starts, AcyclicInv
<1>3. CASE Drops \/ Commits \/ Releases
  BY <1>3 DEF Drops, Commits, Releases, AcyclicInv
<1>4. CASE Returns BY <1>4 DEF Returns, AcyclicInv
<1>5. CASE Stutters
  BY <1>5 DEF Stutters, vars, batchVars, AcyclicInv, InBatch
<1> QED BY <1>1, <1>2, <1>3, <1>4, <1>5, Shapes
-----------------------------------------------------------------------------
(* A span's descendants in the ledger and in the table. *)

\* The row of a stored span.
LEMMA RowOf ==
  ASSUME UniqueIds, NEW rows, NEW A \in SUBSET Spans, SpansOf(rows, A), NEW s \in A
  PROVE  s.id \in DOMAIN rows /\ Shows(rows[s.id], s)
<1>1. s.id \in DOMAIN rows BY DEF SpansOf
<1>2. PICK r \in A : r.id = s.id /\ Shows(rows[s.id], r) BY <1>1 DEF SpansOf
<1>3. r = s BY <1>2 DEF UniqueIds
<1> QED BY <1>1, <1>2, <1>3

\* Finitely many ids make finitely many spans.
LEMMA StoredFinite ==
  ASSUME NEW rows, DOMAIN rows \subseteq SpanIds, UniqueIds,
         NEW A \in SUBSET Spans, SpansOf(rows, A)
  PROVE  IsFiniteSet(A)
<1> DEFINE f == [i \in DOMAIN rows |-> CHOOSE s \in A : s.id = i]
<1>1. \A i \in DOMAIN rows : \E s \in A : s.id = i BY DEF SpansOf
<1>2. \A i \in DOMAIN rows : f[i] \in A /\ f[i].id = i BY <1>1
<1>3. \A s \in A : s.id \in DOMAIN rows /\ f[s.id] = s
  BY <1>2 DEF SpansOf, UniqueIds
<1>4. f \in [DOMAIN rows -> A] BY <1>2
<1>5. \A s \in A : \E i \in DOMAIN rows : f[i] = s BY <1>3
<1> HIDE DEF f
<1>6. f \in Surjection(DOMAIN rows, A) BY <1>4, <1>5 DEF Surjection
<1>7. IsFiniteSet(DOMAIN rows) BY IdsAssumption, FS_Subset
<1> QED BY <1>6, <1>7, FS_Surjection

\* The way up in the ledger and the walk over the rows meet the same spans.
LEMMA WayUpIsLineage ==
  ASSUME UniqueIds, NEW rows, NEW A \in SUBSET Spans, SpansOf(rows, A),
         NEW s \in A, NEW u \in A
  PROVE  u \in Ledger!WayUp(A, s) <=> u.id \in Lineage(rows, s.trace, s.id)
<1> DEFINE Closed(T) == \A r \in T : \A v \in A :
                           v.id = r.parent /\ v.trace = r.trace => v \in T
           t == s.trace  L == Lineage(rows, t, s.id)
<1>0. \A r \in A : /\ r.id \in DOMAIN rows
                   /\ rows[r.id].trace = r.trace /\ rows[r.id].parent = r.parent
  BY RowOf DEF Shows
<1>1. \A i \in DOMAIN rows : \E r \in A : r.id = i BY DEF SpansOf
<1>2. \A r, v \in A : r.id = v.id => r = v BY DEF UniqueIds
<1>3. u \in Ledger!WayUp(A, s) <=> \A T \in SUBSET A : s \in T /\ Closed(T) => u \in T
  BY DEF Ledger!WayUp
<1>4. ASSUME u.id \in L, NEW T \in SUBSET A, s \in T, Closed(T) PROVE u \in T
  <2> DEFINE I == {i \in DOMAIN rows : \E r \in T : r.id = i /\ r.trace = t}
  <2>1. I \in SUBSET DOMAIN rows /\ s.id \in I BY <1>0, <1>4
  <2>2. UpClosed(rows, t, I)
    <3> SUFFICES ASSUME NEW c \in I, NEW p \in DOMAIN rows,
                        rows[p].trace = t, rows[c].parent = p
                 PROVE  p \in I
      BY DEF UpClosed
    <3>1. PICK r \in T : r.id = c /\ r.trace = t OBVIOUS
    <3>2. PICK v \in A : v.id = p BY <1>1
    <3>3. v.trace = t /\ v.id = r.parent BY <1>0, <3>1, <3>2
    <3>4. v \in T BY <1>4, <3>1, <3>3
    <3> QED BY <3>2, <3>3, <3>4
  <2>3. L \subseteq I
    <3> HIDE DEF I
    <3> QED BY <2>1, <2>2, LineageLeast
  <2>4. PICK r \in T : r.id = u.id BY <1>4, <2>3
  <2> QED BY <1>2, <2>4
<1>5. ASSUME u \in Ledger!WayUp(A, s) PROVE u.id \in L
  <2> DEFINE T == {r \in A : r.id \in L}
  <2>1. T \in SUBSET A /\ s \in T BY <1>0, LineageClosed
  <2>2. Closed(T)
    <3> SUFFICES ASSUME NEW r \in T, NEW v \in A, v.id = r.parent, v.trace = r.trace
                 PROVE  v.id \in L
      OBVIOUS
    <3>1. rows[r.id].trace = t BY LineageInTrace
    <3>2. v.id \in DOMAIN rows /\ rows[v.id].trace = t /\ rows[r.id].parent = v.id
      BY <1>0, <3>1
    <3>3. r.id \in L /\ UpClosed(rows, t, L) BY LineageClosed
    <3> QED BY <3>2, <3>3 DEF UpClosed
  <2>3. u \in T
    <3> HIDE DEF T, Closed
    <3> QED BY <1>3, <1>5, <2>1, <2>2
  <2> QED BY <2>3
<1> HIDE DEF Closed
<1> QED BY <1>3, <1>4, <1>5

\* The descendants of a row are the spans whose walk passes it.
LEMMA SubtreeIs ==
  ASSUME UniqueIds, NEW rows, NEW A \in SUBSET Spans, SpansOf(rows, A),
         NEW i \in DOMAIN rows, NEW s \in A
  PROVE  s \in Ledger!Subtree(A, i) <=> i \in Lineage(rows, s.trace, s.id)
<1>1. s \in Ledger!Subtree(A, i) <=> \E u \in Ledger!WayUp(A, s) : u.id = i
  BY DEF Ledger!Subtree
<1>2. Ledger!WayUp(A, s) \subseteq A BY DEF Ledger!WayUp
<1>3. PICK r \in A : r.id = i BY DEF SpansOf
<1>4. \A u \in A : u.id = i => u = r BY <1>3 DEF UniqueIds
<1>5. s \in Ledger!Subtree(A, i) <=> r \in Ledger!WayUp(A, s)
  BY <1>1, <1>2, <1>3, <1>4
<1> QED BY <1>3, <1>5, WayUpIsLineage

\* A span's descendants are the span and those of its children, each once.
LEMMA SubtreeSplit ==
  ASSUME UniqueIds, NEW rows, NEW A \in SUBSET Spans, SpansOf(rows, A), Acyclic(rows),
         NEW r \in A, NEW C, C = Children(rows, r.trace, r.id)
  PROVE  /\ Ledger!Subtree(A, r.id) = {r} \cup UNION {Ledger!Subtree(A, c) : c \in C}
         /\ \A c \in C : r \notin Ledger!Subtree(A, c)
         /\ \A c, d \in C : c # d => Ledger!Subtree(A, c) \cap Ledger!Subtree(A, d) = {}
<1> DEFINE i == r.id  Sub(j) == Ledger!Subtree(A, j)
           L(s) == Lineage(rows, s.trace, s.id)
<1>0. /\ i \in DOMAIN rows /\ rows[i].trace = r.trace
      /\ \A c \in C : c \in DOMAIN rows /\ rows[c].trace = r.trace /\ rows[c].parent = i
  BY RowOf DEF Shows, Children
<1>1. \A j \in DOMAIN rows : Sub(j) \subseteq A /\ \A s \in A : s \in Sub(j) <=> j \in L(s)
  BY SubtreeIs DEF Ledger!Subtree
<1>2. \A s \in A : s.id \in DOMAIN rows /\ rows[s.id].trace = s.trace
  BY RowOf DEF Shows
<1> HIDE DEF Sub
<1>3. ASSUME NEW s \in Sub(i), s # r PROVE \E c \in C : s \in Sub(c)
  <2>1. s \in A /\ i \in L(s) BY <1>0, <1>1
  <2>2. i # s.id BY <2>1, <1>3 DEF UniqueIds
  <2>3. PICK b \in L(s) : rows[b].parent = i BY <2>1, <2>2, LineageFrom
  <2>4. b \in DOMAIN rows /\ rows[b].trace = s.trace /\ rows[i].trace = s.trace
    BY <2>1, <2>3, LineageInTrace
  <2>5. b \in C BY <1>0, <2>3, <2>4 DEF Children
  <2> QED BY <1>1, <2>1, <2>3, <2>4, <2>5
<1>4. r \in Sub(i) BY <1>0, <1>1, LineageClosed
<1>5. ASSUME NEW c \in C, NEW s \in Sub(c) PROVE s \in Sub(i)
  <2>1. s \in A /\ c \in L(s) BY <1>0, <1>1
  <2>2. rows[c].trace = s.trace BY <2>1, LineageInTrace
  <2>3. UpClosed(rows, s.trace, L(s)) BY LineageClosed
  <2>4. i \in L(s) BY <1>0, <2>1, <2>2, <2>3 DEF UpClosed
  <2> QED BY <1>0, <1>1, <2>1, <2>4
<1>6. ASSUME NEW c \in C PROVE r \notin Sub(c)
  <2>1. ~OnCycle(rows, c) BY <1>0 DEF Acyclic
  <2>2. c \notin L(r) BY <1>0, <2>1 DEF OnCycle
  <2> QED BY <1>0, <1>1, <2>2
<1>7. ASSUME NEW c \in C, NEW d \in C, NEW s \in Sub(c), s \in Sub(d) PROVE c = d
  <2>1. s \in A /\ c \in L(s) /\ d \in L(s) BY <1>0, <1>1, <1>7
  <2>2. \A a \in L(s) : a \in DOMAIN rows /\ rows[a].trace = s.trace BY LineageInTrace
  <2>3. WalkEnds(rows, s.trace, s.id)
    BY <2>2 DEF WalkEnds, Acyclic, OnCycle
  <2>4. rows[c].parent = rows[d].parent BY <1>0
  <2> QED BY <2>1, <2>3, <2>4, LineageIsPath
<1> QED BY <1>3, <1>4, <1>5, <1>6, <1>7 DEF Sub
-----------------------------------------------------------------------------
(* The counters are a recount. *)

\* Each row's counters are the sums over its descendants, when every row's are
\* its own values and its children's, and the rows have no cycle.
LEMMA TotalsAreRecount ==
  ASSUME UniqueIds, NEW rows, IsTable(rows, SpanIds, SpanRow),
         NEW A \in SUBSET Spans, SpansOf(rows, A), Acyclic(rows),
         \A i \in DOMAIN rows : BalancedRow(rows, i, {}),
         NEW k \in Counters
  PROVE  \A i \in DOMAIN rows :
            rows[i].totals[k] =
              SumFunctionOnSet([s \in A |-> SelfTotals(s)[k]], Ledger!Subtree(A, i))
<1> DEFINE own == [s \in A |-> SelfTotals(s)[k]]
           Sub(i) == Ledger!Subtree(A, i)
           Right(i) == rows[i].totals[k] = SumFunctionOnSet(own, Sub(i))
           W == {T \in SUBSET A : \A i \in DOMAIN rows : Sub(i) \subseteq T => Right(i)}
<1>0. IsFiniteSet(A) BY StoredFinite DEF IsTable
<1>1. \A s \in A : own[s] = SelfTotals(s)[k] /\ own[s] \in Int
  BY SpanTyped DEF Tally
<1>2. \A i \in DOMAIN rows : Sub(i) \in SUBSET A BY DEF Ledger!Subtree
<1>3. ASSUME NEW T \in SUBSET A, \A x \in T : T \ {x} \in W PROVE T \in W
  <2> SUFFICES ASSUME NEW i \in DOMAIN rows, Sub(i) \subseteq T PROVE Right(i)
    OBVIOUS
  <2> DEFINE C == Children(rows, rows[i].trace, i)
             D == [c \in C |-> Sub(c)]
             U == UNION {D[c] : c \in C}
  <2>1. PICK r \in A : r.id = i BY DEF SpansOf
  <2>2. rows[i].trace = r.trace /\ rows[i].self = SelfTotals(r) BY <2>1, RowOf DEF Shows
  <2>3. C \in SUBSET DOMAIN rows /\ IsFiniteSet(C)
    BY IdsAssumption, FS_Subset DEF Children, IsTable
  <2>4. /\ Sub(i) = {r} \cup UNION {Sub(c) : c \in C}
        /\ \A c \in C : r \notin Sub(c)
        /\ \A c, d \in C : c # d => Sub(c) \cap Sub(d) = {}
    BY <2>1, <2>2, SubtreeSplit
  <2>5. \A c \in C : D[c] = Sub(c) /\ D[c] \in SUBSET A BY <1>2, <2>3
  <2>6. Sub(i) = {r} \cup U /\ r \notin U /\ U \in SUBSET A
    BY <2>4, <2>5
  <2>7. \A c \in C : Right(c)
    <3> SUFFICES ASSUME NEW c \in C PROVE Right(c)
      OBVIOUS
    <3>1. r \in T BY <2>6
    <3>2. Sub(c) \subseteq T \ {r} BY <2>4
    <3>3. c \in DOMAIN rows BY <2>3
    <3>4. T \ {r} \in W BY <1>3, <3>1
    <3> QED BY <3>2, <3>3, <3>4
  <2> DEFINE g == Column(rows, k)
  <2>8. \A c \in C : g[c] = rows[c].totals[k] BY <2>3, ColumnTyped
  <2>9. \A c \in C : g[c] = SumFunctionOnSet(own, D[c]) BY <2>5, <2>7, <2>8
  <2>10. SumTotals(rows, C)[k] = SumFunctionOnSet(g, C) BY DEF SumTotals, Column
  <2>11. SumFunctionOnSet(g, C) = SumFunctionOnSet(own, U)
    <3>1. \A c, d \in C : c # d => D[c] \cap D[d] = {} BY <2>4, <2>5
    <3> HIDE DEF C, D, g, own
    <3> QED BY <1>0, <1>1, <2>3, <2>5, <2>9, <3>1, SumOfSums
  <2>12. rows[i].totals[k] = own[r] + SumFunctionOnSet(own, U)
    <3>1. BalancedRow(rows, i, {}) OBVIOUS
    <3>2. C \ {} = C OBVIOUS
    <3>3. rows[i].totals = Plus(SelfTotals(r), SumTotals(rows, C))
      BY <2>2, <3>1, <3>2 DEF BalancedRow
    <3>4. rows[i].totals[k] = SelfTotals(r)[k] + SumTotals(rows, C)[k]
      <4> HIDE DEF C
      <4> QED BY <3>3 DEF Plus
    <3> QED BY <1>1, <2>1, <2>10, <2>11, <3>4
  <2>13. SumFunctionOnSet(own, Sub(i)) = own[r] + SumFunctionOnSet(own, U)
    <3> HIDE DEF own, U, Sub
    <3>1. Sub(i) \in SUBSET A /\ IsFiniteSet(Sub(i)) BY <1>0, <1>2, FS_Subset
    <3>2. Sub(i) \ {r} = U /\ r \in Sub(i) BY <2>6
    <3>3. \A s \in Sub(i) : own[s] \in Int BY <1>1, <3>1
    <3>4. SumFunctionOnSet(own, Sub(i)) = own[r] + SumFunctionOnSet(own, Sub(i) \ {r})
      BY <3>1, <3>2, <3>3, SumRemove
    <3> QED BY <3>2, <3>4
  <2> QED BY <2>12, <2>13
<1>4. A \in W
  <2> HIDE DEF W
  <2>1. SUBSET A \subseteq W BY <1>0, <1>3, SubsetInduction
  <2> QED BY <2>1
<1> QED BY <1>2, <1>4
-----------------------------------------------------------------------------
(* The tables, read as a ledger. *)

\* The ledger's sums are the store's.
LEMMA SameSum == \A f, S : Ledger!SumFunctionOnSet(f, S) = SumFunctionOnSet(f, S)
BY DEF SumFunctionOnSet, FoldFunctionOnSet, MapThenFoldSet,
       Ledger!SumFunctionOnSet, Ledger!FoldFunctionOnSet, Ledger!MapThenFoldSet

\* The ranges are hulls.
LEMMA RangesAreHulls ==
  ASSUME WholeSeconds, NEW traces, NEW A \in SUBSET Spans, TracesOf(traces, A)
  PROVE  [t \in DOMAIN traces |-> [start |-> traces[t].start, end |-> traces[t].end]]
           = Ledger!Hulls(A)
<1>0. \A s \in A : /\ s.start \in Nat /\ s.start % Second = 0
                   /\ s.end \in Nat /\ s.end % Second = 0
  BY SpanTyped DEF WholeSeconds
<1>1. ASSUME NEW t \in DOMAIN traces
      PROVE  /\ traces[t].start = Ledger!Min({s.start : s \in {u \in A : u.trace = t}})
             /\ traces[t].end = Ledger!Max({s.end : s \in {u \in A : u.trace = t}})
  <2> DEFINE X == {s.start : s \in {u \in A : u.trace = t}}
             Y == {s.end : s \in {u \in A : u.trace = t}}
             x == traces[t].start  y == traces[t].end
  <2>1. x \in X /\ y \in Y BY DEF TracesOf
  <2>2. PICK r \in A : r.start = x BY <2>1
  <2>3. PICK q \in A : q.end = y BY <2>1
  <2>4. \A s \in A : s.trace = t => x <= s.start /\ y >= s.end
    <3> SUFFICES ASSUME NEW s \in A, s.trace = t PROVE x <= s.start /\ y >= s.end
      OBVIOUS
    <3>1. ~TextBefore(s.start, x) /\ ~TextBefore(y, s.end) BY DEF TracesOf
    <3>2. ~(s.start < r.start) /\ ~(q.end < s.end)
      BY <1>0, <2>2, <2>3, <3>1, WholeSecondsOrder
    <3> QED BY <1>0, <2>2, <2>3, <3>2
  <2>5. X \subseteq Nat /\ Y \subseteq Nat BY <1>0
  <2>6. (\A z \in X : x <= z) /\ (\A z \in Y : y >= z) BY <2>4
  <2> HIDE DEF X, Y, x, y
  <2>7. \A z \in X : (\A w \in X : z <= w) => z = x BY <2>1, <2>5, <2>6
  <2>8. \A z \in Y : (\A w \in Y : z >= w) => z = y BY <2>1, <2>5, <2>6
  <2>9. x = Ledger!Min(X) BY <2>1, <2>6, <2>7 DEF Ledger!Min
  <2>10. y = Ledger!Max(Y) BY <2>1, <2>6, <2>8 DEF Ledger!Max
  <2> QED BY <2>9, <2>10 DEF X, Y, x, y
<1>2. DOMAIN traces = {s.trace : s \in A} BY DEF TracesOf
<1> QED BY <1>1, <1>2 DEF Ledger!Hulls

\* The ledger's rows, counters and ranges are the tables'.
LEMMA TablesAreLedger ==
  ASSUME UniqueIds, WholeSeconds, NEW tables, AreTables(tables), NEW A \in SUBSET Spans,
         TracesOf(tables.traces, A), SpansOf(tables.spans, A),
         Acyclic(tables.spans), AllBalanced(tables.spans)
  PROVE  /\ {s \in Spans : s.id \in DOMAIN tables.spans} = A
         /\ [i \in DOMAIN tables.spans |-> tables.spans[i].totals] = Ledger!Recount(A)
         /\ [t \in DOMAIN tables.traces |->
               [start |-> tables.traces[t].start, end |-> tables.traces[t].end]]
              = Ledger!Hulls(A)
<1> DEFINE rows == tables.spans
<1>0. IsTable(rows, SpanIds, SpanRow) BY DEF AreTables
<1>1. DOMAIN rows = {s.id : s \in A} BY DEF SpansOf
<1>2. {s \in Spans : s.id \in DOMAIN rows} = A BY <1>1 DEF UniqueIds
<1>3. \A i \in DOMAIN rows : BalancedRow(rows, i, {}) BY DEF AllBalanced
<1> HIDE DEF rows
<1>4. ASSUME NEW i \in DOMAIN rows
      PROVE  rows[i].totals =
               [k \in Counters |->
                  Ledger!SumFunctionOnSet([s \in A |-> SelfTotals(s)[k]], Ledger!Subtree(A, i))]
  <2>1. rows[i].totals \in Tally BY <1>0 DEF IsTable, SpanRow
  <2>2. \A k \in Counters : rows[i].totals[k] =
          Ledger!SumFunctionOnSet([s \in A |-> SelfTotals(s)[k]], Ledger!Subtree(A, i))
    <3> SUFFICES ASSUME NEW k \in Counters
                 PROVE  rows[i].totals[k] = Ledger!SumFunctionOnSet(
                          [s \in A |-> SelfTotals(s)[k]], Ledger!Subtree(A, i))
      OBVIOUS
    <3>1. SpansOf(rows, A) /\ Acyclic(rows) BY DEF rows
    <3>2. rows[i].totals[k] = SumFunctionOnSet([s \in A |-> SelfTotals(s)[k]], Ledger!Subtree(A, i))
      BY <1>0, <1>3, <3>1, TotalsAreRecount
    <3> QED BY <3>2, SameSum
  <2> QED BY <2>1, <2>2 DEF Tally
<1>5. [i \in DOMAIN rows |-> rows[i].totals] = Ledger!Recount(A)
  BY <1>1, <1>4 DEF Ledger!Recount
<1> QED BY <1>2, <1>5, RangesAreHulls DEF rows
-----------------------------------------------------------------------------
(* The refinement. *)

LedgerInv ==
    /\ BatchTyped /\ TablesInv /\ FilingInv /\ GrowthInv
    /\ BatchBalanced /\ AcyclicInv

\* The project a committed trace leads to is that of one of its spans.
LEMMA FiledByItsSpan ==
  ASSUME FilingInv, NEW t \in DOMAIN db.traces
  PROVE  /\ db.traces[t].project \in DOMAIN db.projects
         /\ ProjectOf(t) = db.projects[db.traces[t].project]
         /\ \E s \in acked : /\ s.trace = t /\ s.project = ProjectOf(t)
                             /\ s.session = db.traces[t].session
BY DEF FilingInv, FiledBy, RowNamed, ProjectOf

\* An empty store is an empty ledger.
LEMMA LedgerInit ==
  ASSUME UniqueIds, WholeSeconds
  PROVE  BatchInit => Ledger!Init
<1> SUFFICES ASSUME BatchInit PROVE Ledger!Init
  OBVIOUS
<1>1. BatchTyped /\ TablesInv /\ BatchBalanced /\ AcyclicInv
  BY BatchInitTyped, InitTables, BatchInitBalanced, InitAcyclic
<1>2. acked = {} /\ DOMAIN db.traces = {}
  BY DEF BatchInit, Init, EmptyTables, NoRows
<1>3. /\ AreTables(db) /\ acked \in SUBSET Spans
      /\ TracesOf(db.traces, acked) /\ SpansOf(db.spans, acked)
      /\ Acyclic(db.spans) /\ AllBalanced(db.spans)
  BY <1>1 DEF BatchTyped, TypeOK, TablesInv, BatchBalanced, AcyclicInv
<1>4. /\ {s \in Spans : s.id \in DOMAIN db.spans} = acked
      /\ [i \in DOMAIN db.spans |-> db.spans[i].totals] = Ledger!Recount(acked)
      /\ [t \in DOMAIN db.traces |->
            [start |-> db.traces[t].start, end |-> db.traces[t].end]] = Ledger!Hulls(acked)
  BY <1>3, TablesAreLedger
<1>5. [t \in DOMAIN db.traces |-> [project |-> ProjectOf(t), session |-> db.traces[t].session]]
        = [t \in {} |-> t]
  BY <1>2
<1> QED BY <1>2, <1>4, <1>5 DEF Ledger!Init

\* A commit is a Store of the spans it adds, or changes nothing; no other
\* step is seen.
LEMMA LedgerStep ==
  ASSUME UniqueIds, WholeSeconds, LedgerInv, LedgerInv',
         [BatchNext]_<<vars, batchVars>>
  PROVE  [Ledger!Next]_(Ledger!vars)
<1> SUFFICES Ledger!Next \/ UNCHANGED Ledger!vars
  OBVIOUS
<1>1. CASE db' = db
  BY <1>1 DEF Ledger!vars, ProjectOf
<1>2. CASE Commits
  <2> DEFINE Added == acked' \ acked
  <2>1. /\ {s \in Spans : s.id \in DOMAIN db.spans} = acked
        /\ [i \in DOMAIN db.spans |-> db.spans[i].totals] = Ledger!Recount(acked)
        /\ [t \in DOMAIN db.traces |->
              [start |-> db.traces[t].start, end |-> db.traces[t].end]] = Ledger!Hulls(acked)
    BY TablesAreLedger DEF LedgerInv, BatchTyped, TypeOK, TablesInv, BatchBalanced, AcyclicInv
  <2>2. /\ {s \in Spans : s.id \in DOMAIN db'.spans} = acked'
        /\ [i \in DOMAIN db'.spans |-> db'.spans[i].totals] = Ledger!Recount(acked')
        /\ [t \in DOMAIN db'.traces |->
              [start |-> db'.traces[t].start, end |-> db'.traces[t].end]] = Ledger!Hulls(acked')
    BY TablesAreLedger DEF LedgerInv, BatchTyped, TypeOK, TablesInv, BatchBalanced, AcyclicInv
  <2>3. acked \subseteq acked' /\ acked' \subseteq Spans
    BY <1>2 DEF Commits, Rowed, Before, LedgerInv, BatchTyped, TypeOK
  <2>4. DOMAIN db.traces = {s.trace : s \in acked} /\ DOMAIN db'.traces = {s.trace : s \in acked'}
    BY DEF LedgerInv, TablesInv, TracesOf
  <2>5. Extends(db, db') BY NextGrowth DEF LedgerInv
  <2>6. ASSUME NEW t \in DOMAIN db.traces
        PROVE  /\ t \in DOMAIN db'.traces /\ ProjectOf(t)' = ProjectOf(t)
               /\ db'.traces[t].session = db.traces[t].session
    BY <2>5, FiledByItsSpan DEF LedgerInv, Extends, KeepsProjects, RowNamed, ProjectOf
  <2>7. ASSUME NEW t \in DOMAIN db'.traces, t \notin DOMAIN db.traces
        PROVE  \E s \in Added : /\ s.trace = t /\ s.project = ProjectOf(t)'
                            /\ s.session = db'.traces[t].session
    <3>1. \E s \in acked' : /\ s.trace = t /\ s.project = ProjectOf(t)'
                            /\ s.session = db'.traces[t].session
      BY DEF LedgerInv, FilingInv, FiledBy, RowNamed, ProjectOf
    <3> QED BY <2>4, <2>7, <3>1
  <2>8. CASE Added = {}
    <3>1. acked' = acked BY <2>3, <2>8
    <3>2. DOMAIN db'.traces = DOMAIN db.traces BY <2>4, <3>1
    <3>3. [t \in DOMAIN db'.traces |-> [project |-> ProjectOf(t)', session |-> db'.traces[t].session]]
            = [t \in DOMAIN db.traces |-> [project |-> ProjectOf(t), session |-> db.traces[t].session]]
      BY <2>6, <3>2
    <3> QED BY <2>1, <2>2, <3>1, <3>3 DEF Ledger!vars
  <2>9. CASE Added # {}
    <3> DEFINE old == [t \in DOMAIN db.traces |->
                         [project |-> ProjectOf(t), session |-> db.traces[t].session]]
               new == [t \in DOMAIN db'.traces |->
                         [project |-> ProjectOf(t)', session |-> db'.traces[t].session]]
    <3>1. Added \cap acked = {} /\ acked' = acked \cup Added /\ Added \in SUBSET Spans
      BY <2>3
    <3>2. \A s \in Added : \A r \in acked \cup Added : s.id = r.id => s = r
      BY <2>3 DEF UniqueIds
    <3>3. DOMAIN new = DOMAIN old \cup {s.trace : s \in Added}
      BY <2>4, <3>1
    <3>4. \A t \in DOMAIN new :
             IF t \in DOMAIN old THEN new[t] = old[t]
             ELSE \E s \in Added : s.trace = t /\
                    new[t] = [project |-> s.project, session |-> s.session]
      BY <2>6, <2>7
    <3> HIDE DEF old, new
    <3>5. PICK X : X = Added OBVIOUS
    <3>6. Ledger!Store(X)
      <4> HIDE DEF Added
      <4> USE DEF old, new
      <4> QED BY <2>1, <2>2, <2>9, <3>1, <3>2, <3>3, <3>4, <3>5 DEF Ledger!Store
    <3>7. X \in SUBSET Spans BY <3>1, <3>5
    <3> QED BY <3>6, <3>7 DEF Ledger!Next
  <2> QED BY <2>8, <2>9
<1>3. db' = db \/ Commits
  BY Shapes DEF LedgerInv, Statements, Starts, Drops, Releases, Returns, Stutters, vars
<1> QED BY <1>1, <1>2, <1>3

\* Each commit of InsertSpan or InsertSpans is one step of the ledger or
\* none: whatever order the spans come in, and whatever fails, is retried or
\* taken back, the counters, ranges and filing are those of a recount over
\* the spans stored so far; for spans with ids of their own, times of whole
\* seconds and no failure after a project was created.
THEOREM StoreImplementsLedger ==
  ASSUME UniqueIds, WholeSeconds, ~FaultOnNew
  PROVE  BatchSpec => ImplementsLedger
<1>1. BatchInit => LedgerInv
  <2> SUFFICES ASSUME BatchInit PROVE LedgerInv
    OBVIOUS
  <2>1. BatchTyped BY BatchInitTyped
  <2>2. db = work /\ ~InBatch BY DEF BatchInit, Init, InBatch
  <2>3. Extends(db, db) BY <2>1, ExtendsOrder DEF BatchTyped, TypeOK
  <2> QED BY <2>1, <2>2, <2>3, InitTables, InitFiling, BatchInitBalanced, InitAcyclic
      DEF LedgerInv, GrowthInv
<1>2. LedgerInv /\ [BatchNext]_<<vars, batchVars>> => LedgerInv'
  <2> SUFFICES ASSUME LedgerInv, [BatchNext]_<<vars, batchVars>> PROVE LedgerInv'
    OBVIOUS
  <2>1. BatchTyped' /\ TablesInv' BY BatchNextTyped, NextTables DEF LedgerInv
  <2> QED BY <2>1, NextFiling, NextGrowth, BatchNextBalanced, NextAcyclic DEF LedgerInv
<1>3. LedgerInv /\ LedgerInv' /\ [BatchNext]_<<vars, batchVars>> => [Ledger!Next]_(Ledger!vars)
  BY LedgerStep
<1>4. BatchInit => Ledger!Init BY LedgerInit
<1> QED BY <1>1, <1>2, <1>3, <1>4, PTL DEF BatchSpec, ImplementsLedger, Ledger!Spec
=============================================================================
