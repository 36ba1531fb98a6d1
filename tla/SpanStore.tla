----------------------------- MODULE SpanStore -----------------------------
(***************************************************************************)
(* The write side of internal/store: InsertSpan, one span per SQLite       *)
(* transaction, statement by statement.                                    *)
(*                                                                         *)
(* main.go opens the database with one connection, so at most one          *)
(* transaction is open at a time whoever the callers are: `pc` is the next *)
(* statement of that transaction, `work` the database as the transaction   *)
(* sees it, and `db` what is committed.  A statement may fail, which rolls *)
(* the transaction back, and the process may die at any point; `cache`,    *)
(* the map from project names to rowids, lives in memory and belongs to no *)
(* transaction.                                                            *)
(***************************************************************************)
EXTENDS RowTime, Sequences, SequencesExt, FiniteSets, Functions

CONSTANTS
    Spans,           \* the spans exporters send
    SpanIds, TraceIds, Projects,
    Sessions,        \* session ids, and the value that stands for NULL
    NoParent,        \* the parent of a root span: parent_id IS NULL
    FaultSteps,      \* the statements the environment may make fail
    FaultOnNew       \* may a statement fail after its transaction created
                     \* a project row?

Counters == {"errors", "prompt", "completion"}

Steps == {"serialize", "project", "trace", "insert", "propagate", "commit"}

Span == [id : SpanIds, trace : TraceIds, parent : SpanIds \cup {NoParent},
         project : Projects, session : Sessions, start : Nat, end : Nat,
         status : {"OK", "ERROR", "UNSET"}, kind : {"LLM", "CHAIN"},
         prompt : Int, completion : Int, marshals : BOOLEAN]

ASSUME SpansAssumption == Spans \subseteq Span
ASSUME IdsAssumption == IsFiniteSet(SpanIds) /\ NoParent \notin SpanIds
ASSUME FaultAssumption == FaultSteps \subseteq Steps /\ FaultOnNew \in BOOLEAN

VARIABLES
    db,      \* committed tables
    work,    \* the tables as the open transaction sees them
    pc,      \* the next statement of the open transaction, or "idle"
    arg,     \* the span being inserted
    rowid,   \* the project rowid ensureProject returned
    totals,  \* the cumulative counters computed for the new row
    cache,   \* projectCache: project name -> rowid
    acked    \* history: the spans whose InsertSpan returned nil

vars == <<db, work, pc, arg, rowid, totals, cache, acked>>
-----------------------------------------------------------------------------
(* The tables.  A project's rowid is its position: SQLite gives a new row  *)
(* of a table without AUTOINCREMENT the largest rowid plus one, so a       *)
(* rolled-back rowid is given again.  A trace row and a span row are known *)
(* by their UNIQUE text ids, which stand for the rowids the code looks up  *)
(* inside the same transaction.                                            *)

Tally == [Counters -> Int]

TraceRow == [project : Nat, session : Sessions, start : Nat, end : Nat]
SpanRow  == [trace : TraceIds, parent : SpanIds \cup {NoParent},
             start : Nat, end : Nat, self : Tally, totals : Tally]

\* A table keyed by text id.
IsTable(f, K, R) == DOMAIN f \subseteq K /\ f \in [DOMAIN f -> R]

AreTables(tables) ==
    /\ tables = [projects |-> tables.projects, traces |-> tables.traces, spans |-> tables.spans]
    /\ tables.projects \in Seq(Projects)
    /\ IsTable(tables.traces, TraceIds, TraceRow)
    /\ IsTable(tables.spans, SpanIds, SpanRow)

NoRows == [k \in {} |-> k]

EmptyTables == [projects |-> <<>>, traces |-> NoRows, spans |-> NoRows]

Put(table, k, row) == [j \in DOMAIN table \cup {k} |->
                         IF j = k THEN row ELSE table[j]]

\* The rowid of a project that is in the table.
ProjectRow(tables, name) ==
    CHOOSE i \in DOMAIN tables.projects : tables.projects[i] = name
-----------------------------------------------------------------------------
(* What the statements compute. *)

\* Mutant: the UPDATE of the end time left out.
WidenedStartOnly(row, s) ==
    [row EXCEPT !.start = TextMin(@, s.start)]

\* Mutant: an upsert that files the trace under the latest span's project.
WidenedRefiles(row, s) ==
    [row EXCEPT !.project = rowid,
                !.start = TextMin(@, s.start), !.end = TextMax(@, s.end)]

\* A trace's row when a span has been added to its range.
Widened(row, s) ==
    [row EXCEPT !.start = TextMin(@, s.start), !.end = TextMax(@, s.end)]

SelfTotals(s) ==
    [errors     |-> IF s.status = "ERROR" THEN 1 ELSE 0,
     prompt     |-> IF s.kind = "LLM" THEN s.prompt ELSE 0,
     completion |-> IF s.kind = "LLM" THEN s.completion ELSE 0]

\* Mutant: the SUM without its trace_rowid condition.
ChildrenOfAnyTrace(rows, t, i) ==
    {c \in DOMAIN rows : rows[c].parent = i}

\* The rows the SUM runs over: WHERE trace_rowid = ? AND parent_id = ?
Children(rows, t, i) ==
    {c \in DOMAIN rows : rows[c].trace = t /\ rows[c].parent = i}

SumTotals(rows, ids) ==
    [k \in Counters |->
        SumFunctionOnSet([c \in DOMAIN rows |-> rows[c].totals[k]], ids)]

Plus(a, b) == [k \in Counters |-> a[k] + b[k]]

\* The rows after an UPDATE that adds to the counters of some of them.
Raised(rows, ids, by) ==
    [i \in DOMAIN rows |->
        IF i \in ids THEN [rows[i] EXCEPT !.totals = Plus(rows[i].totals, by)]
        ELSE rows[i]]

\* A set of rows that follows parent_id wherever it leads inside trace t.
UpClosed(rows, t, S) ==
    \A c \in S : \A p \in DOMAIN rows :
        rows[p].trace = t /\ rows[c].parent = p => p \in S

\* The rows the recursive CTE reaches: the span i, if it is a row of trace
\* t, and from each row of the walk its parent in t.
Lineage(rows, t, i) ==
    {a \in DOMAIN rows :
        \A S \in SUBSET DOMAIN rows :
            /\ i \in DOMAIN rows /\ rows[i].trace = t => i \in S
            /\ UpClosed(rows, t, S)
            => a \in S}

\* UNION ALL keeps no memory of the rows it has visited: the walk ends
\* unless it comes back to a row it left.
WalkEnds(rows, t, i) ==
    \A a \in Lineage(rows, t, i) : a \notin Lineage(rows, t, rows[a].parent)
-----------------------------------------------------------------------------
Init ==
    /\ db = EmptyTables /\ work = db
    /\ pc = "idle" /\ arg \in Spans /\ rowid = 0
    /\ totals = [k \in Counters |-> 0]
    /\ cache = NoRows
    /\ acked = {}

\* The locals of the transaction are dropped with it.
EndTx ==
    /\ pc' = "idle" /\ rowid' = 0
    /\ totals' = [k \in Counters |-> 0]
    /\ UNCHANGED arg

\* InsertSpan: db.BeginTx.
Begin(s) ==
    /\ pc = "idle"
    /\ arg' = s /\ pc' = "serialize" /\ work' = db
    /\ UNCHANGED <<db, rowid, totals, cache, acked>>

\* defer tx.Rollback: InsertSpan returns the error, the cache stays.
Rollback ==
    /\ work' = db /\ EndTx
    /\ UNCHANGED <<db, cache, acked>>

\* spanToColumns: JSON has no text for some attribute values (NaN, Inf).
Serialize ==
    /\ pc = "serialize" /\ arg.marshals
    /\ pc' = "project"
    /\ UNCHANGED <<db, work, arg, rowid, totals, cache, acked>>

\* Mutant: the error returned without the deferred Rollback, so that the
\* only connection is never given back.
SerializeKeepsTx ==
    pc = "serialize" /\ ~arg.marshals /\ UNCHANGED vars

SerializeFails ==
    /\ pc = "serialize" /\ ~arg.marshals
    /\ Rollback

\* ensureProject, first sight of the name in this process or not.
CachedProject ==
    /\ pc = "project" /\ arg.project \in DOMAIN cache
    /\ rowid' = cache[arg.project]
    /\ pc' = "trace"
    /\ UNCHANGED <<db, work, arg, totals, cache, acked>>

StoredProject ==
    /\ pc = "project" /\ arg.project \notin DOMAIN cache
    /\ arg.project \in Range(work.projects)
    /\ rowid' = ProjectRow(work, arg.project)
    /\ cache' = Put(cache, arg.project, rowid')
    /\ pc' = "trace"
    /\ UNCHANGED <<db, work, arg, totals, acked>>

\* Mutant: the largest rowid read before the row is inserted.
CreateProjectReadsOldRowid ==
    /\ pc = "project" /\ arg.project \notin DOMAIN cache
    /\ arg.project \notin Range(work.projects)
    /\ work' = [work EXCEPT !.projects = Append(@, arg.project)]
    /\ rowid' = Len(work.projects)
    /\ cache' = Put(cache, arg.project, rowid')
    /\ pc' = "trace"
    /\ UNCHANGED <<db, arg, totals, acked>>

CreateProject ==
    /\ pc = "project" /\ arg.project \notin DOMAIN cache
    /\ arg.project \notin Range(work.projects)
    /\ work' = [work EXCEPT !.projects = Append(@, arg.project)]
    /\ rowid' = Len(work'.projects)
    /\ cache' = Put(cache, arg.project, rowid')
    /\ pc' = "trace"
    /\ UNCHANGED <<db, arg, totals, acked>>

\* upsertTrace: SELECT, then up to two UPDATEs, or the INSERT.
WidenTrace ==
    /\ pc = "trace" /\ arg.trace \in DOMAIN work.traces
    /\ work' = [work EXCEPT !.traces[arg.trace] = Widened(@, arg)]
    /\ pc' = "insert"
    /\ UNCHANGED <<db, arg, rowid, totals, cache, acked>>

\* Mutant: the project's name bound where its rowid belongs.
CreateTraceUnderName ==
    /\ pc = "trace" /\ arg.trace \notin DOMAIN work.traces
    /\ work' = [work EXCEPT !.traces =
                  Put(@, arg.trace, [project |-> arg.project, session |-> arg.session,
                                     start |-> arg.start, end |-> arg.end])]
    /\ pc' = "insert"
    /\ UNCHANGED <<db, arg, rowid, totals, cache, acked>>

CreateTrace ==
    /\ pc = "trace" /\ arg.trace \notin DOMAIN work.traces
    /\ work' = [work EXCEPT !.traces =
                  Put(@, arg.trace, [project |-> rowid, session |-> arg.session,
                                     start |-> arg.start, end |-> arg.end])]
    /\ pc' = "insert"
    /\ UNCHANGED <<db, arg, rowid, totals, cache, acked>>

\* The child sum and INSERT ... ON CONFLICT(span_id) DO NOTHING.
InsertRow ==
    /\ pc = "insert" /\ arg.id \notin DOMAIN work.spans
    /\ totals' = Plus(SelfTotals(arg),
                      SumTotals(work.spans,
                                Children(work.spans, arg.trace, arg.id)))
    /\ work' = [work EXCEPT !.spans =
                  Put(@, arg.id, [trace |-> arg.trace, parent |-> arg.parent,
                                  start |-> arg.start, end |-> arg.end,
                                  self |-> SelfTotals(arg),
                                  totals |-> totals'])]
    /\ pc' = "propagate"
    /\ UNCHANGED <<db, arg, rowid, cache, acked>>

\* Mutant: no early return when ON CONFLICT DO NOTHING changed no row.
DuplicateRowGoesOn ==
    /\ pc = "insert" /\ arg.id \in DOMAIN work.spans
    /\ totals' = Plus(SelfTotals(arg),
                      SumTotals(work.spans,
                                Children(work.spans, arg.trace, arg.id)))
    /\ pc' = "propagate"
    /\ UNCHANGED <<db, work, arg, rowid, cache, acked>>

DuplicateRow ==
    /\ pc = "insert" /\ arg.id \in DOMAIN work.spans
    /\ pc' = "commit"
    /\ UNCHANGED <<db, work, arg, rowid, totals, cache, acked>>

\* Mutant: the span's own values propagated instead of the absorbed totals.
PropagateSelfOnly ==
    /\ pc = "propagate"
    /\ WalkEnds(work.spans, arg.trace, arg.parent)
    /\ work' = [work EXCEPT !.spans =
                  Raised(@, Lineage(@, arg.trace, arg.parent), SelfTotals(arg))]
    /\ pc' = "commit"
    /\ UNCHANGED <<db, arg, rowid, totals, cache, acked>>

\* propagateToAncestors: one UPDATE over the rows the walk reaches.  When
\* the walk does not end the statement never returns, and `pc` stays here.
Propagate ==
    /\ pc = "propagate"
    /\ WalkEnds(work.spans, arg.trace, arg.parent)
    /\ work' = [work EXCEPT !.spans =
                  Raised(@, Lineage(@, arg.trace, arg.parent), totals)]
    /\ pc' = "commit"
    /\ UNCHANGED <<db, arg, rowid, totals, cache, acked>>

Commit ==
    /\ pc = "commit"
    /\ db' = work
    /\ acked' = acked \cup {arg}
    /\ EndTx
    /\ UNCHANGED <<work, cache>>

\* Has the open transaction created a project row?
CreatedProject == Len(work.projects) > Len(db.projects)

\* The statement at pc returns an error (disk full, I/O error, database
\* locked by another process).  An error of BeginTx changes nothing and
\* needs no action.
Fault ==
    /\ pc # "idle" /\ pc \in FaultSteps
    /\ CreatedProject => FaultOnNew
    /\ Rollback

\* Mutant: a cache that survives the process.
RestartKeepsCache ==
    /\ work' = db /\ EndTx
    /\ UNCHANGED <<db, cache, acked>>

\* The process dies and a new one opens the same file: SQLite discards the
\* open transaction, the schema is applied again to no effect, and the
\* cache starts empty.
Restart ==
    /\ work' = db /\ EndTx
    /\ cache' = NoRows
    /\ UNCHANGED <<db, acked>>

Statement ==
    \/ Serialize \/ SerializeFails
    \/ CachedProject \/ StoredProject \/ CreateProject
    \/ WidenTrace \/ CreateTrace
    \/ InsertRow \/ DuplicateRow
    \/ Propagate \/ Commit

Next ==
    \/ \E s \in Spans : Begin(s)
    \/ Statement
    \/ Fault
    \/ Restart

Spec == Init /\ [][Next]_vars /\ WF_vars(Statement)
-----------------------------------------------------------------------------
(* Properties. *)

\* Each variable holds what the code's types and the tables' columns allow.
TypeOK ==
    /\ AreTables(db) /\ AreTables(work)
    /\ pc \in Steps \cup {"idle"} /\ arg \in Spans /\ rowid \in Nat
    /\ totals \in Tally
    /\ IsTable(cache, Projects, Nat)
    /\ acked \subseteq Spans

\* insertSpanTx keeps the cumulative columns incrementally; every committed
\* row's totals are its own values plus those of its children, in whatever
\* order, with whatever failures, retries and restarts the rows arrived.
Balanced ==
    \A i \in DOMAIN db.spans :
        db.spans[i].totals =
            Plus(db.spans[i].self,
                 SumTotals(db.spans, Children(db.spans, db.spans[i].trace, i)))

\* upsertTrace: a trace is filed under the project of one of its spans.  A
\* rowid that no project has, or that another project took, breaks it.
FiledUnderOwnProject ==
    \A t \in DOMAIN db.traces :
        LET r == db.traces[t].project IN
        /\ r \in DOMAIN db.projects
        /\ \E s \in acked : s.trace = t /\ s.project = db.projects[r]

\* ensureProject trusts the cache before the table: for a project that is
\* committed the two must agree, whatever was rolled back in between.
CacheAgrees ==
    \A n \in DOMAIN cache :
        n \in Range(db.projects) =>
            cache[n] \in DOMAIN db.projects /\ db.projects[cache[n]] = n

\* "The trace's time range expands to cover the span": the range of every
\* committed trace contains each of its spans.
RangeCovers ==
    \A i \in DOMAIN db.spans :
        LET row == db.spans[i] IN
        /\ row.trace \in DOMAIN db.traces
        /\ db.traces[row.trace].start <= row.start
        /\ db.traces[row.trace].end >= row.end

\* "Duplicate span: everything above was a no-op for state": when the id of
\* the span is stored already, its transaction leaves every table as it was.
DuplicateIsNoOp == [][pc = "commit" /\ arg.id \in DOMAIN db.spans => db' = db]_vars

\* No commit takes back what an earlier one showed to readers: projects keep
\* their rowids, traces their project and session, and ranges and error counts only grow.
OnlyGrows ==
    [][/\ IsPrefix(db.projects, db'.projects)
       /\ \A t \in DOMAIN db.traces :
             /\ t \in DOMAIN db'.traces
             /\ db'.traces[t].project = db.traces[t].project
             /\ db'.traces[t].session = db.traces[t].session
             /\ ~TextBefore(db.traces[t].start, db'.traces[t].start)
             /\ ~TextBefore(db'.traces[t].end, db.traces[t].end)
       /\ \A i \in DOMAIN db.spans :
             /\ i \in DOMAIN db'.spans
             /\ db'.spans[i].totals.errors >= db.spans[i].totals.errors]_vars

\* InsertSpan returns: the batcher's only goroutine is not held forever by
\* one span.
InsertReturns == pc # "idle" ~> pc = "idle"

\* The project a trace's row leads to; the bare rowid when it leads nowhere.
ProjectOf(t) ==
    LET r == db.traces[t].project IN
    IF r \in DOMAIN db.projects THEN db.projects[r] ELSE r

\* The committed tables, read as a ledger.
Ledger == INSTANCE SpanLedger WITH
    rows   <- {s \in Spans : s.id \in DOMAIN db.spans},
    totals <- [i \in DOMAIN db.spans |-> db.spans[i].totals],
    ranges <- [t \in DOMAIN db.traces |->
                 [start |-> db.traces[t].start, end |-> db.traces[t].end]],
    filed  <- [t \in DOMAIN db.traces |->
                 [project |-> ProjectOf(t), session |-> db.traces[t].session]]

\* Each commit is one step of the ledger or none, and rolled-back work,
\* crashes and retries are invisible in it: the incremental counters and
\* ranges equal a recount over all the spans stored so far.
ImplementsLedger == Ledger!Spec
=============================================================================
