-------------------------- MODULE SpanStoreProofs --------------------------
(***************************************************************************)
(* Theorems about SpanStore for every set of spans, ids, projects and      *)
(* failing statements.                                                     *)
(***************************************************************************)
EXTENDS SpanStore, SumLemmas, SequenceTheorems

-----------------------------------------------------------------------------
(* Types. *)

\* A table that takes a row of its type is a table of that type.
LEMMA PutTyped ==
  ASSUME NEW f, NEW K, NEW R, IsTable(f, K, R), NEW k \in K, NEW r \in R
  PROVE  /\ IsTable(Put(f, k, r), K, R)
         /\ DOMAIN Put(f, k, r) = DOMAIN f \cup {k}
         /\ Put(f, k, r)[k] = r
         /\ \A j \in DOMAIN f : j # k => Put(f, k, r)[j] = f[j]
BY DEF IsTable, Put

\* The fields of the span being inserted have the types of trace.Span.
LEMMA ArgTyped ==
  ASSUME TypeOK
  PROVE  /\ arg.id \in SpanIds /\ arg.trace \in TraceIds
         /\ arg.parent \in SpanIds \cup {NoParent} /\ arg.project \in Projects
         /\ arg.session \in Sessions
         /\ arg.start \in Nat /\ arg.end \in Nat
         /\ arg.prompt \in Int /\ arg.completion \in Int
BY SpansAssumption DEF TypeOK, Span

\* insertSpanTx's own values are counters.
LEMMA SelfTyped == TypeOK => SelfTotals(arg) \in Tally
BY ArgTyped DEF SelfTotals, Tally, Counters

\* Adding counters gives counters.
LEMMA PlusTyped ==
  ASSUME NEW a \in Tally, NEW b \in Tally
  PROVE  Plus(a, b) \in Tally /\ \A k \in Counters : Plus(a, b)[k] = a[k] + b[k]
BY DEF Plus, Tally

\* The SUMs over any rows of a finite table are counters.
LEMMA SumTotalsTyped ==
  ASSUME NEW rows, IsTable(rows, SpanIds, SpanRow), NEW ids \in SUBSET DOMAIN rows
  PROVE  SumTotals(rows, ids) \in Tally
<1> SUFFICES ASSUME NEW k \in Counters
             PROVE  SumFunctionOnSet([c \in DOMAIN rows |-> rows[c].totals[k]], ids) \in Int
  BY DEF SumTotals, Tally
<1>1. IsFiniteSet(ids) BY IdsAssumption, FS_Subset DEF IsTable
<1>2. \A c \in DOMAIN rows : rows[c].totals[k] \in Int
  BY DEF IsTable, SpanRow, Tally
<1> DEFINE f == [c \in DOMAIN rows |-> rows[c].totals[k]]
<1>3. \A c \in ids : f[c] \in Int BY <1>2
<1> HIDE DEF f
<1>4. SumFunctionOnSet(f, ids) \in Int BY <1>1, <1>3, SumTyped
<1> QED BY <1>4 DEF f

\* The schema applied to a new file gives tables.
LEMMA EmptyTyped == AreTables(EmptyTables)
BY EmptySeq DEF AreTables, EmptyTables, IsTable, NoRows

\* What upsertTrace does to an existing row.
LEMMA WidenTraceTables ==
  ASSUME AreTables(work), WidenTrace
  PROVE  /\ work' = [projects |-> work'.projects, traces |-> work'.traces, spans |-> work'.spans]
         /\ work'.projects = work.projects /\ work'.spans = work.spans
         /\ work'.traces = [work.traces EXCEPT ![arg.trace] = Widened(@, arg)]
BY DEF AreTables, WidenTrace

\* A newly opened store is well typed.
LEMMA InitTyped == Init => TypeOK
BY EmptyTyped DEF Init, TypeOK, Tally, IsTable, NoRows

\* A widened trace row is a trace row: the text order picks one of two
\* instants.
LEMMA WidenedTyped ==
  ASSUME TypeOK, NEW row \in TraceRow
  PROVE  Widened(row, arg) \in TraceRow
BY ArgTyped DEF Widened, TraceRow, TextMin, TextMax

\* The row that InsertRow adds.
NewRow == [trace |-> arg.trace, parent |-> arg.parent,
           start |-> arg.start, end |-> arg.end,
           self |-> SelfTotals(arg), totals |-> totals']

\* The tables after the INSERT of a span row.
LEMMA InsertRowTables ==
  ASSUME TypeOK, InsertRow
  PROVE  /\ work' = [projects |-> work'.projects, traces |-> work'.traces, spans |-> work'.spans]
         /\ work'.projects = work.projects /\ work'.traces = work.traces
         /\ work'.spans = Put(work.spans, arg.id, NewRow)
         /\ totals' \in Tally /\ NewRow \in SpanRow
<1>1. work' = [work EXCEPT !.spans = Put(@, arg.id, NewRow)]
  BY DEF InsertRow, NewRow
<1>2. totals' \in Tally
  <2>1. Children(work.spans, arg.trace, arg.id) \in SUBSET DOMAIN work.spans
    BY DEF Children
  <2>2. SumTotals(work.spans, Children(work.spans, arg.trace, arg.id)) \in Tally
    BY <2>1, SumTotalsTyped DEF TypeOK, AreTables
  <2> QED BY <2>2, SelfTyped, PlusTyped DEF InsertRow
<1>3. NewRow \in SpanRow
  BY <1>2, ArgTyped, SelfTyped DEF NewRow, SpanRow
<1> QED BY <1>1, <1>2, <1>3 DEF TypeOK, AreTables

\* What the UPDATE of some rows leaves: the same rows, the same columns but
\* for the counters.
LEMMA RaisedRows ==
  ASSUME NEW rows, IsTable(rows, SpanIds, SpanRow), NEW ids, NEW by \in Tally
  PROVE  /\ IsTable(Raised(rows, ids, by), SpanIds, SpanRow)
         /\ DOMAIN Raised(rows, ids, by) = DOMAIN rows
         /\ \A i \in DOMAIN rows :
              /\ Raised(rows, ids, by)[i].trace = rows[i].trace
              /\ Raised(rows, ids, by)[i].parent = rows[i].parent
              /\ Raised(rows, ids, by)[i].start = rows[i].start
              /\ Raised(rows, ids, by)[i].end = rows[i].end
              /\ Raised(rows, ids, by)[i].self = rows[i].self
              /\ Raised(rows, ids, by)[i].totals =
                   IF i \in ids THEN Plus(rows[i].totals, by) ELSE rows[i].totals
<1> DEFINE r == Raised(rows, ids, by)
<1>1. DOMAIN r = DOMAIN rows BY DEF Raised
<1>2. ASSUME NEW i \in DOMAIN rows
      PROVE  /\ r[i] \in SpanRow
             /\ r[i].trace = rows[i].trace /\ r[i].parent = rows[i].parent
             /\ r[i].start = rows[i].start /\ r[i].end = rows[i].end
             /\ r[i].self = rows[i].self
             /\ r[i].totals = IF i \in ids THEN Plus(rows[i].totals, by)
                              ELSE rows[i].totals
  <2>1. rows[i] \in SpanRow BY DEF IsTable
  <2>2. CASE i \notin ids BY <2>1, <2>2 DEF Raised
  <2>3. CASE i \in ids
    <3> DEFINE sum == Plus(rows[i].totals, by)
    <3>1. r[i] = [rows[i] EXCEPT !.totals = sum] BY <2>3 DEF Raised
    <3>2. sum \in Tally BY <2>1, PlusTyped DEF SpanRow
    <3> HIDE DEF sum, r
    <3>3. /\ r[i] \in SpanRow /\ r[i].trace = rows[i].trace
          /\ r[i].parent = rows[i].parent
          /\ r[i].start = rows[i].start /\ r[i].end = rows[i].end
          /\ r[i].self = rows[i].self /\ r[i].totals = sum
      BY <2>1, <3>1, <3>2 DEF SpanRow
    <3> QED BY <2>3, <3>3 DEF sum
  <2> QED BY <2>2, <2>3
<1>3. r \in [DOMAIN r -> SpanRow]
  BY <1>1, <1>2 DEF Raised
<1> HIDE DEF r
<1>4. IsTable(r, SpanIds, SpanRow)
  BY <1>1, <1>3 DEF IsTable
<1> QED BY <1>1, <1>2, <1>4 DEF r

\* The tables after propagateToAncestors' UPDATE.
LEMMA PropagateTables ==
  ASSUME TypeOK, Propagate
  PROVE  /\ work' = [projects |-> work'.projects, traces |-> work'.traces, spans |-> work'.spans]
         /\ work'.projects = work.projects /\ work'.traces = work.traces
         /\ work'.spans = Raised(work.spans,
                             Lineage(work.spans, arg.trace, arg.parent), totals)
BY DEF TypeOK, AreTables, Propagate

\* The tables after the INSERT of a trace row.
LEMMA CreateTraceTables ==
  ASSUME TypeOK, CreateTrace
  PROVE  /\ work' = [projects |-> work'.projects, traces |-> work'.traces, spans |-> work'.spans]
         /\ work'.projects = work.projects /\ work'.spans = work.spans
         /\ work'.traces = Put(work.traces, arg.trace,
                               [project |-> rowid, session |-> arg.session,
                                start |-> arg.start, end |-> arg.end])
BY DEF TypeOK, AreTables, CreateTrace

\* The tables after the INSERT of a project row.
LEMMA CreateProjectTables ==
  ASSUME TypeOK, CreateProject
  PROVE  /\ work' = [projects |-> work'.projects, traces |-> work'.traces, spans |-> work'.spans]
         /\ work'.projects = Append(work.projects, arg.project)
         /\ work'.spans = work.spans /\ work'.traces = work.traces
BY DEF TypeOK, AreTables, CreateProject

\* What the end of a transaction does to its locals.
LEMMA EndTyped == EndTx => pc' = "idle" /\ rowid' = 0 /\ totals' \in Tally /\ arg' = arg
BY DEF EndTx, Tally

\* Every statement, failure and restart keeps the types.
LEMMA NextTyped == TypeOK /\ [Next]_vars => TypeOK'
<1> SUFFICES ASSUME TypeOK, [Next]_vars PROVE TypeOK'
  OBVIOUS
<1> USE DEF Steps
<1>1. ASSUME NEW s \in Spans, Begin(s) PROVE TypeOK'
  BY <1>1 DEF TypeOK, Begin
<1>2. CASE Serialize BY <1>2 DEF TypeOK, Serialize
<1>3. CASE SerializeFails
  BY <1>3, EndTyped DEF TypeOK, SerializeFails, Rollback
<1>4. CASE CachedProject
  <2>1. cache[arg.project] \in Nat BY <1>4 DEF TypeOK, IsTable, CachedProject
  <2> QED BY <1>4, <2>1 DEF TypeOK, CachedProject
<1>5. CASE StoredProject
  <2>1. rowid' \in Nat
    <3>1. \E i \in DOMAIN work.projects : work.projects[i] = arg.project
      BY <1>5 DEF StoredProject, Range
    <3>2. ProjectRow(work, arg.project) \in DOMAIN work.projects
      BY <3>1 DEF ProjectRow
    <3>3. DOMAIN work.projects \subseteq Nat
      BY LenProperties DEF TypeOK, AreTables
    <3> QED BY <1>5, <3>2, <3>3 DEF StoredProject
  <2>2. IsTable(cache', Projects, Nat)
    BY <1>5, <2>1, ArgTyped, PutTyped DEF TypeOK, StoredProject
  <2> QED BY <1>5, <2>1, <2>2 DEF TypeOK, StoredProject
<1>6. CASE CreateProject
  <2>1. work'.projects \in Seq(Projects) /\ rowid' \in Nat
    BY <1>6, ArgTyped, CreateProjectTables, AppendProperties, LenProperties
    DEF TypeOK, AreTables, CreateProject
  <2>2. IsTable(cache', Projects, Nat)
    BY <1>6, <2>1, ArgTyped, PutTyped DEF TypeOK, CreateProject
  <2>3. AreTables(work')
    BY <1>6, <2>1, CreateProjectTables DEF TypeOK, AreTables
  <2> QED BY <1>6, <2>1, <2>2, <2>3 DEF TypeOK, CreateProject
<1>7. CASE WidenTrace
  <2>1. IsTable(work'.traces, TraceIds, TraceRow)
    <3>1. work.traces \in [DOMAIN work.traces -> TraceRow]
      BY DEF TypeOK, AreTables, IsTable
    <3>2. arg.trace \in DOMAIN work.traces BY <1>7 DEF WidenTrace
    <3>3. Widened(work.traces[arg.trace], arg) \in TraceRow
      BY <3>1, <3>2, WidenedTyped
    <3> QED BY <1>7, <3>1, <3>2, <3>3, WidenTraceTables
        DEF TypeOK, AreTables, IsTable
  <2>2. AreTables(work')
    BY <1>7, <2>1, WidenTraceTables DEF TypeOK, AreTables
  <2> QED BY <1>7, <2>2 DEF TypeOK, WidenTrace
<1>8. CASE CreateTrace
  <2>1. [project |-> rowid, session |-> arg.session, start |-> arg.start, end |-> arg.end] \in TraceRow
    BY ArgTyped DEF TraceRow, TypeOK
  <2>2. IsTable(work'.traces, TraceIds, TraceRow)
    <3>1. IsTable(work.traces, TraceIds, TraceRow) /\ arg.trace \in TraceIds
      BY ArgTyped DEF TypeOK, AreTables
    <3> DEFINE row == [project |-> rowid, session |-> arg.session, start |-> arg.start, end |-> arg.end]
    <3>2. work'.traces = Put(work.traces, arg.trace, row)
      BY <1>8, CreateTraceTables
    <3> HIDE DEF row
    <3>3. row \in TraceRow BY <2>1 DEF row
    <3>4. IsTable(Put(work.traces, arg.trace, row), TraceIds, TraceRow)
      BY <3>1, <3>3, PutTyped
    <3> QED BY <3>2, <3>4
  <2>3. AreTables(work')
    BY <1>8, <2>2, CreateTraceTables DEF TypeOK, AreTables
  <2> QED BY <1>8, <2>3 DEF TypeOK, CreateTrace
<1>9. CASE InsertRow
  <2>1. IsTable(work'.spans, SpanIds, SpanRow)
    <3>1. IsTable(work.spans, SpanIds, SpanRow) /\ arg.id \in SpanIds
      BY ArgTyped DEF TypeOK, AreTables
    <3>2. work'.spans = Put(work.spans, arg.id, NewRow) /\ NewRow \in SpanRow
      BY <1>9, InsertRowTables
    <3>3. IsTable(Put(work.spans, arg.id, NewRow), SpanIds, SpanRow)
      BY <3>1, <3>2, PutTyped
    <3> QED BY <3>2, <3>3
  <2>2. AreTables(work')
    BY <1>9, <2>1, InsertRowTables DEF TypeOK, AreTables
  <2> QED BY <1>9, <2>2, InsertRowTables DEF TypeOK, InsertRow
<1>10. CASE DuplicateRow BY <1>10 DEF TypeOK, DuplicateRow
<1>11. CASE Propagate
  <2>1. AreTables(work')
    BY <1>11, PropagateTables, RaisedRows DEF TypeOK, AreTables
  <2> QED BY <1>11, <2>1 DEF TypeOK, Propagate
<1>12. CASE Commit
  BY <1>12, EndTyped DEF TypeOK, Commit
<1>13. CASE Fault
  BY <1>13, EndTyped DEF TypeOK, Fault, Rollback
<1>14. CASE Restart
  BY <1>14, EndTyped DEF TypeOK, Restart, IsTable, NoRows
<1>15. CASE UNCHANGED vars BY <1>15 DEF TypeOK, vars
<1> QED BY <1>1, <1>2, <1>3, <1>4, <1>5, <1>6, <1>7, <1>8, <1>9, <1>10, <1>11,
        <1>12, <1>13, <1>14, <1>15 DEF Next, Statement

\* The tables, the cache and the locals of a transaction keep their types.
THEOREM TypeCorrect == Spec => []TypeOK
BY InitTyped, NextTyped, PTL DEF Spec
-----------------------------------------------------------------------------
(* The walk of propagateToAncestors. *)

\* The rows in which the walk from row i stays.
LEMMA LineageClosed ==
  ASSUME NEW rows, NEW t, NEW i
  PROVE  /\ Lineage(rows, t, i) \in SUBSET DOMAIN rows
         /\ i \in DOMAIN rows /\ rows[i].trace = t => i \in Lineage(rows, t, i)
         /\ UpClosed(rows, t, Lineage(rows, t, i))
BY DEF Lineage, UpClosed

\* The walk reaches nothing that a set closed under parent_id and holding
\* its start leaves out.
LEMMA LineageLeast ==
  ASSUME NEW rows, NEW t, NEW i, NEW S \in SUBSET DOMAIN rows,
         i \in DOMAIN rows /\ rows[i].trace = t => i \in S,
         UpClosed(rows, t, S)
  PROVE  Lineage(rows, t, i) \subseteq S
BY DEF Lineage

\* The walk does not leave its trace.
LEMMA LineageInTrace ==
  ASSUME NEW rows, NEW t, NEW i
  PROVE  \A a \in Lineage(rows, t, i) : a \in DOMAIN rows /\ rows[a].trace = t
<1> DEFINE S == {a \in DOMAIN rows : rows[a].trace = t}
<1>1. UpClosed(rows, t, S) BY DEF UpClosed
<1>2. Lineage(rows, t, i) \subseteq S BY <1>1, LineageLeast
<1> QED BY <1>2

\* From a row the walk goes on to its parent and nowhere else.
LEMMA LineageStep ==
  ASSUME NEW rows, NEW t, NEW i \in DOMAIN rows
  PROVE  Lineage(rows, t, i) \subseteq {i} \cup Lineage(rows, t, rows[i].parent)
<1> DEFINE up == Lineage(rows, t, rows[i].parent)
           S == {i} \cup up
<1>1. /\ up \in SUBSET DOMAIN rows /\ UpClosed(rows, t, up)
      /\ \A p \in DOMAIN rows : rows[p].trace = t /\ rows[i].parent = p => p \in up
  BY LineageClosed
<1> HIDE DEF up
<1>2. S \in SUBSET DOMAIN rows /\ UpClosed(rows, t, S)
  BY <1>1 DEF UpClosed
<1> QED BY <1>2, LineageLeast DEF up

\* Every row of the walk but its first was reached from a child in the walk.
LEMMA LineageFrom ==
  ASSUME NEW rows, NEW t, NEW i, NEW a \in Lineage(rows, t, i), a # i
  PROVE  \E b \in Lineage(rows, t, i) : rows[b].parent = a
<1> SUFFICES ASSUME \A b \in Lineage(rows, t, i) : rows[b].parent # a
             PROVE  FALSE
  OBVIOUS
<1> DEFINE S == Lineage(rows, t, i) \ {a}
<1>1. S \in SUBSET DOMAIN rows /\ UpClosed(rows, t, S)
  BY LineageClosed DEF UpClosed
<1>2. i \in DOMAIN rows /\ rows[i].trace = t => i \in S
  BY LineageClosed
<1>3. Lineage(rows, t, i) \subseteq S BY <1>1, <1>2, LineageLeast
<1> QED BY <1>3

\* A walk that ends reaches no row from two children.
LEMMA LineageIsPath ==
  ASSUME NEW rows, NEW t, NEW i, WalkEnds(rows, t, i),
         NEW b \in Lineage(rows, t, i), NEW c \in Lineage(rows, t, i),
         rows[b].parent = rows[c].parent
  PROVE  b = c
<1> SUFFICES ASSUME b # c PROVE FALSE
  OBVIOUS
<1> DEFINE L(x) == Lineage(rows, t, x)
           a == rows[b].parent
           S == {x \in L(i) : x \in L(a) \/ (b \in L(x) /\ c \in L(x))}
<1>1. b \notin L(a) /\ c \notin L(a)
  BY DEF WalkEnds
<1>2. S \in SUBSET DOMAIN rows BY LineageClosed
<1>3. i \in DOMAIN rows /\ rows[i].trace = t => i \in S
  BY LineageClosed
<1>4. UpClosed(rows, t, S)
  <2> SUFFICES ASSUME NEW x \in S, NEW y \in DOMAIN rows,
                      rows[y].trace = t, rows[x].parent = y
               PROVE  y \in S
    BY DEF UpClosed
  <2>1. y \in L(i) BY LineageClosed DEF UpClosed
  <2>2. CASE x \in L(a)
    <3>1. y \in L(a) BY <2>2, LineageClosed DEF UpClosed
    <3> QED BY <2>1, <3>1
  <2>3. CASE b \in L(x) /\ c \in L(x)
    <3>1. x \in DOMAIN rows BY <1>2
    <3>2. L(x) \subseteq {x} \cup L(y) BY <3>1, LineageStep
    <3>3. CASE x \in {b, c}
      <4>1. y = a BY <3>3
      <4>2. y \in L(a) BY <4>1, LineageClosed
      <4> QED BY <2>1, <4>2
    <3>4. CASE x \notin {b, c}
      <4>1. b \in L(y) /\ c \in L(y) BY <2>3, <3>2, <3>4
      <4> QED BY <2>1, <4>1
    <3> QED BY <3>3, <3>4
  <2> QED BY <2>2, <2>3
<1>5. b \in S
  <2>1. L(i) \subseteq S
    <3> HIDE DEF S
    <3> QED BY <1>2, <1>3, <1>4, LineageLeast
  <2> QED BY <2>1
<1>6. c \in L(b) BY <1>1, <1>5
<1>7. b \in DOMAIN rows BY <1>2, <1>5
<1>8. c \in {b} \cup L(a) BY <1>6, <1>7, LineageStep
<1> QED BY <1>1, <1>8
-----------------------------------------------------------------------------
(* Sums of counters. *)

\* Addition of counters is associative and commutative, column by column.
LEMMA PlusArithmetic ==
  ASSUME NEW a \in Tally, NEW b \in Tally, NEW c \in Tally
  PROVE  /\ Plus(a, b) = Plus(b, a)
         /\ Plus(a, Plus(b, c)) = Plus(Plus(a, b), c)
<1>1. /\ \A k \in Counters : a[k] \in Int /\ b[k] \in Int /\ c[k] \in Int
  BY DEF Tally
<1>2. \A k \in Counters : a[k] + b[k] = b[k] + a[k]
  BY <1>1
<1>3. \A k \in Counters : a[k] + (b[k] + c[k]) = (a[k] + b[k]) + c[k]
  BY <1>1
<1>4. Plus(a, b) = Plus(b, a)
  BY <1>2 DEF Plus
<1>5. \A k \in Counters : /\ Plus(b, c)[k] = b[k] + c[k]
                          /\ Plus(a, b)[k] = a[k] + b[k]
  BY DEF Plus
<1>6. Plus(a, Plus(b, c)) = [k \in Counters |-> a[k] + (b[k] + c[k])]
  BY <1>5 DEF Plus
<1>7. Plus(Plus(a, b), c) = [k \in Counters |-> (a[k] + b[k]) + c[k]]
  BY <1>5 DEF Plus
<1> QED BY <1>3, <1>4, <1>6, <1>7

\* The values of one counter column.
Column(rows, k) == [c \in DOMAIN rows |-> rows[c].totals[k]]

\* One counter of all rows, as the function the SUM runs over.
LEMMA ColumnTyped ==
  ASSUME NEW rows, IsTable(rows, SpanIds, SpanRow), NEW C \in SUBSET DOMAIN rows
  PROVE  /\ IsFiniteSet(C)
         /\ \A k \in Counters : \A c \in C :
              Column(rows, k)[c] = rows[c].totals[k] /\ Column(rows, k)[c] \in Int
<1>1. IsFiniteSet(C) BY IdsAssumption, FS_Subset DEF IsTable
<1>2. \A c \in DOMAIN rows : \A k \in Counters : rows[c].totals[k] \in Int
  BY DEF IsTable, SpanRow, Tally
<1> QED BY <1>1, <1>2 DEF Column

\* A sum looks at the totals of its rows only.
LEMMA SumTotalsSame ==
  ASSUME NEW rows, IsTable(rows, SpanIds, SpanRow),
         NEW new, IsTable(new, SpanIds, SpanRow),
         NEW C \in SUBSET DOMAIN rows, C \subseteq DOMAIN new,
         \A c \in C : new[c].totals = rows[c].totals
  PROVE  SumTotals(new, C) = SumTotals(rows, C)
<1>1. ASSUME NEW k \in Counters
      PROVE  SumFunctionOnSet(Column(new, k), C) = SumFunctionOnSet(Column(rows, k), C)
  <2>1. IsFiniteSet(C) /\ \A c \in C : Column(new, k)[c] = Column(rows, k)[c]
    BY ColumnTyped
  <2> HIDE DEF Column
  <2> QED BY <2>1, SumCongruent
<1> QED BY <1>1 DEF SumTotals, Column

\* One row of a sum taken out.
LEMMA SumTotalsRemove ==
  ASSUME NEW rows, IsTable(rows, SpanIds, SpanRow),
         NEW C \in SUBSET DOMAIN rows, NEW b \in C
  PROVE  SumTotals(rows, C) = Plus(rows[b].totals, SumTotals(rows, C \ {b}))
<1>1. ASSUME NEW k \in Counters
      PROVE  SumFunctionOnSet(Column(rows, k), C) =
               rows[b].totals[k] + SumFunctionOnSet(Column(rows, k), C \ {b})
  <2>1. /\ IsFiniteSet(C) /\ \A c \in C : Column(rows, k)[c] \in Int
        /\ Column(rows, k)[b] = rows[b].totals[k]
    BY ColumnTyped
  <2> HIDE DEF Column
  <2>2. SumFunctionOnSet(Column(rows, k), C) =
          Column(rows, k)[b] + SumFunctionOnSet(Column(rows, k), C \ {b})
    BY <2>1, SumRemove
  <2> QED BY <2>1, <2>2
<1>2. \A D : SumTotals(rows, D) = [k \in Counters |-> SumFunctionOnSet(Column(rows, k), D)]
  BY DEF SumTotals, Column
<1>3. \A k \in Counters : SumTotals(rows, C \ {b})[k] =
                            SumFunctionOnSet(Column(rows, k), C \ {b})
  BY <1>2
<1>4. Plus(rows[b].totals, SumTotals(rows, C \ {b})) =
        [k \in Counters |-> rows[b].totals[k] + SumFunctionOnSet(Column(rows, k), C \ {b})]
  BY <1>3 DEF Plus
<1> QED BY <1>1, <1>2, <1>4
-----------------------------------------------------------------------------
(* The counters balance. *)

\* The row of i is its own values and the totals of its children, some of
\* them left out.
BalancedRow(rows, i, out) ==
    rows[i].totals =
        Plus(rows[i].self,
             SumTotals(rows, Children(rows, rows[i].trace, i) \ out))

\* InsertRow absorbs the children that are there: the new row is balanced,
\* and so are the others as long as the new one is not counted.
LEMMA InsertBalances ==
  ASSUME NEW rows, IsTable(rows, SpanIds, SpanRow),
         \A j \in DOMAIN rows : BalancedRow(rows, j, {}),
         NEW i \in SpanIds, i \notin DOMAIN rows, NEW row \in SpanRow,
         row.totals = Plus(row.self, SumTotals(rows, Children(rows, row.trace, i)))
  PROVE  \A j \in DOMAIN Put(rows, i, row) : BalancedRow(Put(rows, i, row), j, {i})
<1> DEFINE new == Put(rows, i, row)
<1>1. /\ IsTable(new, SpanIds, SpanRow) /\ DOMAIN new = DOMAIN rows \cup {i}
      /\ new[i] = row /\ \A j \in DOMAIN rows : new[j] = rows[j]
  BY PutTyped
<1> HIDE DEF new
<1>2. \A t, j : Children(new, t, j) \ {i} = Children(rows, t, j)
  BY <1>1 DEF Children
<1>3. \A t, j : SumTotals(new, Children(rows, t, j)) = SumTotals(rows, Children(rows, t, j))
  <2> SUFFICES ASSUME NEW t, NEW j
               PROVE  SumTotals(new, Children(rows, t, j)) =
                        SumTotals(rows, Children(rows, t, j))
    OBVIOUS
  <2> DEFINE C == Children(rows, t, j)
  <2>1. C \in SUBSET DOMAIN rows BY DEF Children
  <2> HIDE DEF C
  <2>2. C \subseteq DOMAIN new /\ \A c \in C : new[c].totals = rows[c].totals
    BY <1>1, <2>1
  <2>3. SumTotals(new, C) = SumTotals(rows, C)
    BY <1>1, <2>1, <2>2, SumTotalsSame
  <2> QED BY <2>3 DEF C
<1>4. ASSUME NEW j \in DOMAIN rows PROVE BalancedRow(new, j, {i})
  <2>1. BalancedRow(rows, j, {}) OBVIOUS
  <2>2. Children(rows, rows[j].trace, j) \ {} = Children(rows, rows[j].trace, j)
    OBVIOUS
  <2>3. new[j] = rows[j] BY <1>1
  <2> DEFINE C == Children(rows, rows[j].trace, j)
  <2>4. Children(new, rows[j].trace, j) \ {i} = C BY <1>2
  <2>5. SumTotals(new, C) = SumTotals(rows, C) BY <1>3
  <2>6. rows[j].totals = Plus(rows[j].self, SumTotals(rows, C))
    BY <2>1, <2>2 DEF BalancedRow
  <2> HIDE DEF C
  <2> QED BY <2>3, <2>4, <2>5, <2>6 DEF BalancedRow
<1>5. BalancedRow(new, i, {i})
  BY <1>1, <1>2, <1>3 DEF BalancedRow
<1> QED BY <1>1, <1>4, <1>5 DEF new

\* The UPDATE brings the counters into balance again: the parent of the new
\* row gains what the new row was left out with, every further ancestor
\* gains what its one child on the walk has gained, and no other row has a
\* child on the walk.
LEMMA PropagateBalances ==
  ASSUME NEW rows, IsTable(rows, SpanIds, SpanRow), NEW i \in DOMAIN rows,
         \A j \in DOMAIN rows : BalancedRow(rows, j, {i}),
         WalkEnds(rows, rows[i].trace, rows[i].parent)
  PROVE  LET up == Lineage(rows, rows[i].trace, rows[i].parent)
             new == Raised(rows, up, rows[i].totals)
         IN  \A j \in DOMAIN new : BalancedRow(new, j, {})
<1> DEFINE t == rows[i].trace  p == rows[i].parent
           up == Lineage(rows, t, p)
           by == rows[i].totals
           new == Raised(rows, up, by)
           C(j) == Children(rows, rows[j].trace, j)
<1>0. by \in Tally /\ \A j \in DOMAIN rows : rows[j].totals \in Tally /\ rows[j].self \in Tally
  BY DEF IsTable, SpanRow
<1>1. /\ IsTable(new, SpanIds, SpanRow) /\ DOMAIN new = DOMAIN rows
      /\ \A j \in DOMAIN rows :
           /\ new[j].trace = rows[j].trace /\ new[j].parent = rows[j].parent
           /\ new[j].self = rows[j].self
           /\ new[j].totals = IF j \in up THEN Plus(rows[j].totals, by)
                              ELSE rows[j].totals
  BY <1>0, RaisedRows
<1>2. /\ \A j \in up : j \in DOMAIN rows /\ rows[j].trace = t
      /\ \A j \in up : j \notin Lineage(rows, t, rows[j].parent)
      /\ UpClosed(rows, t, up)
      /\ p \in DOMAIN rows /\ rows[p].trace = t => p \in up
  BY LineageInTrace, LineageClosed DEF WalkEnds
<1>3. \A b, c \in up : rows[b].parent = rows[c].parent => b = c
  BY LineageIsPath
<1>4. \A j \in up : j # p => \E b \in up : rows[b].parent = j
  BY LineageFrom
<1>5. i \notin up /\ \A j \in up : rows[j].parent # p
  BY <1>2
<1> HIDE DEF new, up, by
<1>6. ASSUME NEW j \in DOMAIN rows
      PROVE  /\ C(j) \in SUBSET DOMAIN rows
             /\ \A c \in DOMAIN rows : c \in C(j) <=> rows[c].trace = rows[j].trace
                                                      /\ rows[c].parent = j
             /\ Children(new, new[j].trace, j) = C(j)
  BY <1>1 DEF Children
<1>7. ASSUME NEW j \in DOMAIN rows
      PROVE  /\ SumTotals(rows, C(j)) \in Tally /\ SumTotals(rows, C(j) \ {i}) \in Tally
             /\ rows[j].totals = Plus(rows[j].self, SumTotals(rows, C(j) \ {i}))
  <2>1. C(j) \in SUBSET DOMAIN rows /\ C(j) \ {i} \in SUBSET DOMAIN rows BY <1>6
  <2>2. BalancedRow(rows, j, {i}) OBVIOUS
  <2> QED BY <2>1, <2>2, SumTotalsTyped DEF BalancedRow
\* A row none of whose children is on the walk.
<1>8. ASSUME NEW j \in DOMAIN rows, C(j) \cap up = {}
      PROVE  SumTotals(new, C(j)) = SumTotals(rows, C(j))
  <2> DEFINE D == C(j)
  <2>1. D \in SUBSET DOMAIN rows /\ D \cap up = {} BY <1>6, <1>8
  <2> HIDE DEF D
  <2>2. D \subseteq DOMAIN new /\ \A c \in D : new[c].totals = rows[c].totals
    BY <1>1, <2>1
  <2>3. SumTotals(new, D) = SumTotals(rows, D)
    BY <1>1, <2>1, <2>2, SumTotalsSame
  <2> QED BY <2>3 DEF D
<1>9. ASSUME NEW j \in DOMAIN rows, j \notin up PROVE BalancedRow(new, j, {})
  <2>1. C(j) \cap up = {}
    BY <1>2, <1>6, <1>9 DEF UpClosed
  <2>2. i \notin C(j)
    BY <1>2, <1>6, <1>9
  <2>3. C(j) \ {i} = C(j) BY <2>2
  <2>4. C(j) \ {} = C(j) OBVIOUS
  <2>5. new[j].totals = rows[j].totals /\ new[j].self = rows[j].self
    BY <1>1, <1>9
  <2> QED BY <1>6, <1>7, <1>8, <2>1, <2>3, <2>4, <2>5 DEF BalancedRow
<1>10. ASSUME NEW j \in up, j = p PROVE BalancedRow(new, j, {})
  <2> DEFINE X == SumTotals(rows, C(j) \ {i})
  <2>0. j \in DOMAIN rows /\ rows[j].trace = t BY <1>2
  <2>1. C(j) \cap up = {} BY <1>5, <1>6, <1>10, <2>0
  <2>2. i \in C(j) BY <1>6, <1>10, <2>0
  <2>3. SumTotals(rows, C(j)) = Plus(by, X)
    BY <1>6, <2>0, <2>2, SumTotalsRemove DEF by
  <2>4. new[j].totals = Plus(Plus(rows[j].self, X), by) /\ new[j].self = rows[j].self
    BY <1>1, <1>7, <2>0
  <2>5. X \in Tally /\ rows[j].self \in Tally BY <1>0, <1>7, <2>0
  <2>6. SumTotals(new, C(j)) = Plus(by, X) BY <1>8, <2>0, <2>1, <2>3
  <2>7. C(j) \ {} = C(j) OBVIOUS
  <2> HIDE DEF X, C
  <2>8. Plus(Plus(rows[j].self, X), by) = Plus(rows[j].self, Plus(by, X))
    BY <1>0, <2>5, PlusArithmetic
  <2> QED BY <1>6, <2>0, <2>4, <2>6, <2>7, <2>8 DEF BalancedRow
<1>11. ASSUME NEW j \in up, j # p PROVE BalancedRow(new, j, {})
  <2>0. j \in DOMAIN rows /\ rows[j].trace = t BY <1>2
  <2>1. PICK b \in up : rows[b].parent = j BY <1>4, <1>11
  <2>2. b \in C(j) /\ \A c \in C(j) : c \in up => c = b
    BY <1>2, <1>3, <1>6, <2>0, <2>1
  <2>3. i \notin C(j) BY <1>6, <1>11, <2>0
  <2> DEFINE D == C(j)  E == D \ {b}  X == SumTotals(rows, E)
  <2>4. D \in SUBSET DOMAIN rows /\ D \ {i} = D /\ D \ {} = D BY <1>6, <2>0, <2>3
  <2>5. b \in D /\ E \in SUBSET DOMAIN rows /\ E \cap up = {} BY <2>2, <2>4
  <2>6. rows[j].totals = Plus(rows[j].self, SumTotals(rows, D))
    BY <1>7, <2>0, <2>4
  <2>7. Children(new, new[j].trace, j) = D BY <1>6, <2>0
  <2> HIDE DEF D
  <2>8. SumTotals(rows, D) = Plus(rows[b].totals, X)
    BY <2>4, <2>5, SumTotalsRemove
  <2>9. SumTotals(new, D) = Plus(new[b].totals, SumTotals(new, E))
    BY <1>1, <2>4, <2>5, SumTotalsRemove
  <2>10. SumTotals(new, E) = X
    <3> HIDE DEF E
    <3>1. E \subseteq DOMAIN new /\ \A c \in E : new[c].totals = rows[c].totals
      BY <1>1, <2>5
    <3> QED BY <1>1, <2>5, <3>1, SumTotalsSame
  <2>11. X \in Tally BY <2>5, SumTotalsTyped
  <2> HIDE DEF E, X
  <2>12. /\ new[b].totals = Plus(rows[b].totals, by) /\ rows[b].totals \in Tally
         /\ new[j].totals = Plus(rows[j].totals, by)
         /\ new[j].self = rows[j].self /\ rows[j].self \in Tally
    BY <1>0, <1>1, <1>2, <2>0, <2>1
  <2>13. Plus(Plus(rows[j].self, Plus(rows[b].totals, X)), by) =
           Plus(rows[j].self, Plus(Plus(rows[b].totals, by), X))
    <3> DEFINE r == rows[b].totals  q == rows[j].self
    <3>1. r \in Tally /\ q \in Tally /\ X \in Tally /\ by \in Tally
      BY <1>0, <2>11, <2>12
    <3> HIDE DEF r, q
    <3>2. Plus(r, X) \in Tally /\ Plus(by, X) \in Tally BY <3>1, PlusTyped
    <3>3. Plus(Plus(q, Plus(r, X)), by) = Plus(q, Plus(Plus(r, X), by))
      BY <3>1, <3>2, PlusArithmetic
    <3>4. Plus(Plus(r, X), by) = Plus(r, Plus(X, by)) BY <3>1, PlusArithmetic
    <3>5. Plus(X, by) = Plus(by, X) BY <3>1, PlusArithmetic
    <3>6. Plus(r, Plus(by, X)) = Plus(Plus(r, by), X) BY <3>1, PlusArithmetic
    <3> QED BY <3>3, <3>4, <3>5, <3>6 DEF r, q
  <2> QED BY <2>4, <2>6, <2>7, <2>8, <2>9, <2>10, <2>12, <2>13 DEF BalancedRow
<1> QED BY <1>1, <1>9, <1>10, <1>11 DEF new, up, by

\* The rows of the open transaction, the new one not yet counted by its
\* parent between its INSERT and the UPDATE of its ancestors.
WorkBalanced ==
    /\ pc = "idle" => work = db
    /\ \A i \in DOMAIN db.spans : BalancedRow(db.spans, i, {})
    /\ pc # "propagate" =>
         \A i \in DOMAIN work.spans : BalancedRow(work.spans, i, {})
    /\ pc = "propagate" =>
         /\ arg.id \in DOMAIN work.spans
         /\ work.spans[arg.id].trace = arg.trace
         /\ work.spans[arg.id].parent = arg.parent
         /\ work.spans[arg.id].totals = totals
         /\ \A i \in DOMAIN work.spans : BalancedRow(work.spans, i, {arg.id})

\* Statements that touch no span row.
LEMMA RowsKept ==
  ASSUME WorkBalanced, work'.spans = work.spans, db' = db,
         pc # "propagate", pc' \notin {"idle", "propagate"}
  PROVE  WorkBalanced'
BY DEF WorkBalanced

\* The ends of a transaction that give its work up.
LEMMA RowsDropped ==
  ASSUME WorkBalanced, work' = db, db' = db, pc' \in {"idle", "serialize"}
  PROVE  WorkBalanced'
BY DEF WorkBalanced

\* An empty store is balanced.
LEMMA InitBalanced == Init => WorkBalanced
BY DEF Init, WorkBalanced, EmptyTables, NoRows

\* Every statement keeps the balance, but for the new row until its
\* ancestors are raised.
LEMMA NextBalanced == TypeOK /\ WorkBalanced /\ [Next]_vars => WorkBalanced'
<1> SUFFICES ASSUME TypeOK, WorkBalanced, [Next]_vars PROVE WorkBalanced'
  OBVIOUS
<1>1. ASSUME NEW s \in Spans, Begin(s) PROVE WorkBalanced'
  BY <1>1, RowsDropped DEF Begin
<1>2. CASE Serialize BY <1>2, RowsKept DEF Serialize
<1>3. CASE SerializeFails \/ Fault \/ Restart
  BY <1>3, RowsDropped, EndTyped DEF SerializeFails, Fault, Restart, Rollback
<1>4. CASE CachedProject \/ StoredProject
  BY <1>4, RowsKept DEF CachedProject, StoredProject
<1>5. CASE CreateProject
  BY <1>5, RowsKept, CreateProjectTables DEF CreateProject
<1>6. CASE WidenTrace
  BY <1>6, RowsKept, WidenTraceTables DEF WidenTrace, TypeOK
<1>7. CASE CreateTrace
  BY <1>7, RowsKept, CreateTraceTables DEF CreateTrace
<1>8. CASE InsertRow
  <2>1. /\ pc = "insert" /\ pc' = "propagate" /\ arg' = arg /\ db' = db
        /\ arg.id \notin DOMAIN work.spans
        /\ totals' = Plus(SelfTotals(arg),
                          SumTotals(work.spans,
                                    Children(work.spans, arg.trace, arg.id)))
    BY <1>8 DEF InsertRow
  <2>2. work'.spans = Put(work.spans, arg.id, NewRow) /\ NewRow \in SpanRow
    BY <1>8, InsertRowTables
  <2>3. /\ NewRow.trace = arg.trace /\ NewRow.parent = arg.parent
        /\ NewRow.totals = totals' /\ NewRow.self = SelfTotals(arg)
    BY DEF NewRow
  <2>4. IsTable(work.spans, SpanIds, SpanRow) /\ arg.id \in SpanIds
    BY ArgTyped DEF TypeOK, AreTables
  <2>5. \A j \in DOMAIN work.spans : BalancedRow(work.spans, j, {})
    BY <2>1 DEF WorkBalanced
  <2> HIDE DEF NewRow
  <2>6. \A j \in DOMAIN work'.spans : BalancedRow(work'.spans, j, {arg.id})
    BY <2>1, <2>2, <2>3, <2>4, <2>5, InsertBalances
  <2>7. arg.id \in DOMAIN work'.spans /\ work'.spans[arg.id] = NewRow
    BY <2>2 DEF Put
  <2> QED BY <2>1, <2>3, <2>6, <2>7 DEF WorkBalanced
<1>9. CASE DuplicateRow BY <1>9, RowsKept DEF DuplicateRow
<1>10. CASE Propagate
  <2>1. /\ pc = "propagate" /\ pc' = "commit" /\ db' = db
        /\ WalkEnds(work.spans, arg.trace, arg.parent)
    BY <1>10 DEF Propagate
  <2>2. work'.spans = Raised(work.spans,
                             Lineage(work.spans, arg.trace, arg.parent), totals)
    BY <1>10, PropagateTables
  <2>3. IsTable(work.spans, SpanIds, SpanRow)
    BY DEF TypeOK, AreTables
  <2>4. \A j \in DOMAIN work'.spans : BalancedRow(work'.spans, j, {})
    BY <2>1, <2>2, <2>3, PropagateBalances DEF WorkBalanced
  <2> QED BY <2>1, <2>4 DEF WorkBalanced
<1>11. CASE Commit
  BY <1>11 DEF WorkBalanced, Commit, EndTx
<1>12. CASE UNCHANGED vars BY <1>12 DEF WorkBalanced, vars
<1> QED BY <1>1, <1>2, <1>3, <1>4, <1>5, <1>6, <1>7, <1>8, <1>9, <1>10, <1>11,
        <1>12 DEF Next, Statement

\* insertSpanTx keeps the cumulative counters right: in every committed
\* state, in whatever order the spans came and whatever failed, a row's
\* counters are its own values plus those of its children.
THEOREM CountersBalance == Spec => []Balanced
<1>1. WorkBalanced => Balanced
  <2>1. \A i, t : Children(db.spans, t, i) \ {} = Children(db.spans, t, i)
    OBVIOUS
  <2> QED BY <2>1 DEF WorkBalanced, Balanced, BalancedRow
<1>2. Init => TypeOK /\ WorkBalanced BY InitTyped, InitBalanced
<1>3. TypeOK /\ WorkBalanced /\ [Next]_vars => (TypeOK /\ WorkBalanced)'
  BY NextTyped, NextBalanced
<1> QED BY <1>1, <1>2, <1>3, PTL DEF Spec
-----------------------------------------------------------------------------
(* Projects, the cache and the traces' rows, as long as no statement fails *)
(* in a transaction that created a project.                                *)

\* Trace t is filed under the project of one of the spans S.
Filed(tables, t, S) ==
    /\ tables.traces[t].project \in DOMAIN tables.projects
    /\ \E s \in S : /\ s.trace = t
                    /\ s.project = tables.projects[tables.traces[t].project]

\* The stored spans, and the one whose trace row the transaction has written.
Owners == IF pc \in {"insert", "propagate", "commit"} THEN acked \cup {arg} ELSE acked

ProjectsInv ==
    /\ pc \in {"idle", "serialize", "project"} => work = db
    /\ \A n \in DOMAIN db.projects :
          n \in DOMAIN work.projects /\ work.projects[n] = db.projects[n]
    /\ \A m, n \in DOMAIN work.projects :
          work.projects[m] = work.projects[n] => m = n
    /\ \A n \in DOMAIN cache :
          cache[n] \in DOMAIN work.projects /\ work.projects[cache[n]] = n
    /\ pc \in {"trace", "insert", "propagate", "commit"} =>
          rowid \in DOMAIN work.projects /\ work.projects[rowid] = arg.project
    /\ \A t \in DOMAIN db.traces : Filed(db, t, acked)
    /\ \A t \in DOMAIN work.traces : Filed(work, t, Owners)

\* In an empty store nothing is filed and nothing cached.
LEMMA InitProjects == Init => ProjectsInv
<1> SUFFICES ASSUME Init PROVE ProjectsInv
  OBVIOUS
<1>1. DOMAIN db.projects = {} /\ DOMAIN db.traces = {} /\ DOMAIN cache = {}
      /\ work = db /\ pc = "idle"
  BY EmptySeq DEF Init, EmptyTables, NoRows
<1> QED BY <1>1 DEF ProjectsInv

\* Statements after which the open transaction goes on with the same
\* projects and trace rows.
LEMMA ProjectsKept ==
  ASSUME ProjectsInv, db' = db, acked' = acked, arg' = arg, cache' = cache,
         work'.projects = work.projects, work'.traces = work.traces,
         pc \in {"insert", "propagate"}, pc' \in {"propagate", "commit"},
         rowid' = rowid
  PROVE  ProjectsInv'
BY DEF ProjectsInv, Filed, Owners

\* The ends of a transaction that created no project.
LEMMA ProjectsDropped ==
  ASSUME TypeOK, ProjectsInv, db' = db, work' = db, acked' = acked,
         pc' \in {"idle", "serialize"},
         \/ cache' = cache /\ ~CreatedProject
         \/ cache' = NoRows
  PROVE  ProjectsInv'
<1>1. /\ Len(db.projects) \in Nat /\ Len(work.projects) \in Nat
      /\ DOMAIN db.projects = 1..Len(db.projects)
      /\ DOMAIN work.projects = 1..Len(work.projects)
  BY LenProperties DEF TypeOK, AreTables
<1>2. \A m, n \in DOMAIN db.projects : db.projects[m] = db.projects[n] => m = n
  BY DEF ProjectsInv
<1>3. \A n \in DOMAIN cache' :
        cache'[n] \in DOMAIN db.projects /\ db.projects[cache'[n]] = n
  <2>1. CASE cache' = NoRows BY <2>1 DEF NoRows
  <2>2. CASE cache' = cache /\ ~CreatedProject
    <3>1. Len(work.projects) <= Len(db.projects) BY <1>1, <2>2 DEF CreatedProject
    <3>2. DOMAIN work.projects \subseteq DOMAIN db.projects BY <1>1, <3>1
    <3> QED BY <2>2, <3>2 DEF ProjectsInv
  <2> QED BY <2>1, <2>2
<1>4. \A t \in DOMAIN db.traces : Filed(db, t, acked) BY DEF ProjectsInv
<1>5. Owners' = acked BY DEF Owners
<1> QED BY <1>2, <1>3, <1>4, <1>5 DEF ProjectsInv, Filed

\* A new project row gets a rowid no other row has, and the cache takes
\* that one.
LEMMA CreateProjectKeeps ==
  ASSUME TypeOK, ProjectsInv, CreateProject
  PROVE  ProjectsInv'
<1>0. /\ work.projects \in Seq(Projects) /\ arg.project \in Projects
      /\ Len(work.projects) \in Nat
      /\ DOMAIN work.projects = 1..Len(work.projects)
  BY ArgTyped, LenProperties DEF TypeOK, AreTables
<1> DEFINE n == Len(work.projects) + 1
<1>1. /\ work'.projects = Append(work.projects, arg.project)
      /\ work'.traces = work.traces
  BY CreateProjectTables
<1>2. /\ DOMAIN work'.projects = 1..n /\ Len(work'.projects) = n
      /\ work'.projects[n] = arg.project
      /\ \A m \in DOMAIN work.projects : work'.projects[m] = work.projects[m]
  BY <1>0, <1>1, AppendProperties, LenProperties
<1>3. /\ db' = db /\ acked' = acked /\ arg' = arg /\ rowid' = n
      /\ cache' = Put(cache, arg.project, n) /\ pc' = "trace" /\ pc = "project"
      /\ arg.project \notin Range(work.projects)
  BY <1>2 DEF CreateProject
<1>4. \A m \in DOMAIN work.projects : work.projects[m] # arg.project /\ m # n
  BY <1>0, <1>3 DEF Range
<1>5. DOMAIN work'.projects = DOMAIN work.projects \cup {n}
  BY <1>0, <1>2
<1> HIDE DEF n
<1>6. \A l, m \in DOMAIN work'.projects :
        work'.projects[l] = work'.projects[m] => l = m
  BY <1>2, <1>4, <1>5 DEF ProjectsInv
<1>7. \A m \in DOMAIN cache' :
        cache'[m] \in DOMAIN work'.projects /\ work'.projects[cache'[m]] = m
  BY <1>2, <1>3, <1>5 DEF ProjectsInv, Put
<1>8. \A t \in DOMAIN work'.traces : Filed(work', t, Owners')
  <2>1. Owners = acked /\ Owners' = acked BY <1>3 DEF Owners
  <2> QED BY <1>1, <1>2, <1>5, <2>1 DEF ProjectsInv, Filed
<1>9. \A m \in DOMAIN db'.projects :
        m \in DOMAIN work'.projects /\ work'.projects[m] = db'.projects[m]
  BY <1>2, <1>3, <1>5 DEF ProjectsInv
<1>10. \A t \in DOMAIN db'.traces : Filed(db', t, acked')
  BY <1>3 DEF ProjectsInv
<1>11. rowid' \in DOMAIN work'.projects /\ work'.projects[rowid'] = arg'.project
  BY <1>2, <1>3, <1>5
<1> QED BY <1>3, <1>6, <1>7, <1>8, <1>9, <1>10, <1>11 DEF ProjectsInv

\* A project found in the cache or in the table has the span's name.
LEMMA FindProjectKeeps ==
  ASSUME TypeOK, ProjectsInv, CachedProject \/ StoredProject
  PROVE  ProjectsInv'
<1>1. /\ db' = db /\ work' = work /\ acked' = acked /\ arg' = arg
      /\ pc = "project" /\ pc' = "trace"
  BY DEF CachedProject, StoredProject
<1>2. /\ rowid' \in DOMAIN work.projects /\ work.projects[rowid'] = arg.project
      /\ cache' = cache \/ cache' = Put(cache, arg.project, rowid')
  <2>1. CASE CachedProject BY <2>1 DEF CachedProject, ProjectsInv
  <2>2. CASE StoredProject
    <3>1. \E i \in DOMAIN work.projects : work.projects[i] = arg.project
      BY <2>2 DEF StoredProject, Range
    <3> QED BY <2>2, <3>1 DEF StoredProject, ProjectRow
  <2> QED BY <2>1, <2>2
<1>3. \A n \in DOMAIN cache' :
        cache'[n] \in DOMAIN work.projects /\ work.projects[cache'[n]] = n
  BY <1>2 DEF ProjectsInv, Put
<1>4. Owners = acked /\ Owners' = acked BY <1>1 DEF Owners
<1> QED BY <1>1, <1>2, <1>3, <1>4 DEF ProjectsInv, Filed

\* A new trace is filed under the project of the span that brings it, an
\* old one stays.
LEMMA UpsertTraceKeeps ==
  ASSUME TypeOK, ProjectsInv, WidenTrace \/ CreateTrace
  PROVE  ProjectsInv'
<1>1. /\ db' = db /\ acked' = acked /\ arg' = arg /\ cache' = cache
      /\ rowid' = rowid /\ pc = "trace" /\ pc' = "insert"
  BY DEF WidenTrace, CreateTrace
<1>2. work'.projects = work.projects
  BY WidenTraceTables, CreateTraceTables DEF TypeOK
<1>3. \A t \in DOMAIN work'.traces :
        \/ t \in DOMAIN work.traces
           /\ work'.traces[t].project = work.traces[t].project
        \/ t = arg.trace /\ work'.traces[t].project = rowid
  <2>1. CASE WidenTrace
    <3>1. /\ work'.traces = [work.traces EXCEPT ![arg.trace] = Widened(@, arg)]
          /\ arg.trace \in DOMAIN work.traces
      BY <2>1, WidenTraceTables DEF TypeOK, WidenTrace
    <3>2. \A row : Widened(row, arg).project = row.project BY DEF Widened
    <3> QED BY <3>1, <3>2
  <2>2. CASE CreateTrace
    <3>1. work'.traces = Put(work.traces, arg.trace,
                             [project |-> rowid, session |-> arg.session, start |-> arg.start, end |-> arg.end])
      BY <2>2, CreateTraceTables
    <3> QED BY <3>1 DEF Put
  <2> QED BY <2>1, <2>2
<1>4. Owners = acked /\ Owners' = acked \cup {arg} BY <1>1 DEF Owners
<1>5. rowid \in DOMAIN work.projects /\ work.projects[rowid] = arg.project
  BY <1>1 DEF ProjectsInv
<1>6. \A t \in DOMAIN work'.traces : Filed(work', t, Owners')
  BY <1>2, <1>3, <1>4, <1>5 DEF ProjectsInv, Filed
<1> QED BY <1>1, <1>2, <1>5, <1>6 DEF ProjectsInv

\* Every step keeps projects, cache and traces right; only a rollback of a
\* new project would not.
LEMMA NextProjects ==
  ASSUME ~FaultOnNew
  PROVE  TypeOK /\ ProjectsInv /\ [Next]_vars => ProjectsInv'
<1> SUFFICES ASSUME TypeOK, ProjectsInv, [Next]_vars PROVE ProjectsInv'
  OBVIOUS
<1>0. work = db => ~CreatedProject
  BY LenProperties DEF CreatedProject, TypeOK, AreTables
<1>1. ASSUME NEW s \in Spans, Begin(s) PROVE ProjectsInv'
  BY <1>0, <1>1, ProjectsDropped DEF Begin, ProjectsInv
<1>2. CASE Serialize
  BY <1>2 DEF Serialize, ProjectsInv, Filed, Owners
<1>3. CASE SerializeFails
  BY <1>0, <1>3, EndTyped, ProjectsDropped DEF SerializeFails, Rollback, ProjectsInv
<1>4. CASE CachedProject \/ StoredProject BY <1>4, FindProjectKeeps
<1>5. CASE CreateProject BY <1>5, CreateProjectKeeps
<1>6. CASE WidenTrace \/ CreateTrace BY <1>6, UpsertTraceKeeps
<1>7. CASE InsertRow BY <1>7, InsertRowTables, ProjectsKept DEF InsertRow
<1>8. CASE DuplicateRow BY <1>8, ProjectsKept DEF DuplicateRow
<1>9. CASE Propagate BY <1>9, PropagateTables, ProjectsKept DEF Propagate
<1>10. CASE Commit
  <2>1. /\ db' = work /\ work' = work /\ acked' = acked \cup {arg}
        /\ cache' = cache /\ pc = "commit" /\ pc' = "idle"
    BY <1>10 DEF Commit, EndTx
  <2>2. Owners = acked' /\ Owners' = acked' BY <2>1 DEF Owners
  <2> QED BY <2>1, <2>2 DEF ProjectsInv, Filed
<1>11. CASE Fault
  BY <1>11, EndTyped, ProjectsDropped DEF Fault, Rollback
<1>12. CASE Restart
  BY <1>12, EndTyped, ProjectsDropped DEF Restart
<1>13. CASE UNCHANGED vars
  BY <1>13 DEF vars, ProjectsInv, Filed, Owners
<1> QED BY <1>1, <1>2, <1>3, <1>4, <1>5, <1>6, <1>7, <1>8, <1>9, <1>10, <1>11,
        <1>12, <1>13 DEF Next, Statement

\* Unless a statement fails in a transaction that created a project (the
\* cache is filled before the commit), each trace is filed under the project
\* of one of its stored spans and the cache agrees with the table.
THEOREM ProjectsAreRight ==
  ASSUME ~FaultOnNew
  PROVE  Spec => [](FiledUnderOwnProject /\ CacheAgrees)
<1>1. TypeOK /\ ProjectsInv => FiledUnderOwnProject /\ CacheAgrees
  <2> SUFFICES ASSUME TypeOK, ProjectsInv
               PROVE  FiledUnderOwnProject /\ CacheAgrees
    OBVIOUS
  <2>1. FiledUnderOwnProject
    BY DEF ProjectsInv, Filed, FiledUnderOwnProject
  <2>2. CacheAgrees
    BY DEF ProjectsInv, CacheAgrees, Range
  <2> QED BY <2>1, <2>2
<1>2. Init => TypeOK /\ ProjectsInv BY InitTyped, InitProjects
<1>3. TypeOK /\ ProjectsInv /\ [Next]_vars => (TypeOK /\ ProjectsInv)'
  BY NextTyped, NextProjects
<1> QED BY <1>1, <1>2, <1>3, PTL DEF Spec
=============================================================================
