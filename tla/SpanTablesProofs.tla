-------------------------- MODULE SpanTablesProofs --------------------------
(***************************************************************************)
(* Theorems about what the tables say of the spans that were stored, and   *)
(* about how they change, for InsertSpan and InsertSpans on one connection. *)
(***************************************************************************)
EXTENDS SpanBatchProofs

-----------------------------------------------------------------------------
(* The shapes of a step.                                                   *)

\* The statements of insertSpanTx.
TxStep ==
    \/ Serialize
    \/ CachedProject \/ StoredProject \/ CreateProject
    \/ WidenTrace \/ CreateTrace
    \/ InsertRow \/ DuplicateRow
    \/ Propagate

\* The spans whose trace row the open transaction has written.
Traced == IF pc \in {"insert", "propagate", "commit"} THEN Before \cup {arg} ELSE Before

\* The spans whose own row it has.
Rowed == IF Landed THEN Before \cup {arg} ELSE Before

Statements == TxStep /\ UNCHANGED <<db, arg, acked, items, pos, save, errs>> /\ Before' = Before

\* insertSpanTx begins, on the committed tables or behind a savepoint.
Starts ==
    /\ pc = "idle" /\ pc' = "serialize"
    /\ UNCHANGED <<db, acked, cache, items>> /\ Before' = Before
    /\ arg' \in Spans
    /\ \/ ~InBatch /\ work' = db
       \/ InBatch /\ work' = work /\ save' = work

\* The transaction is given up, or InsertSpans begins one.
Drops ==
    /\ pc' = "idle" /\ work' = db
    /\ UNCHANGED <<db, acked>> /\ Before' = acked
    /\ \/ cache' = NoRows
       \/ cache' = cache /\ pc \in {"idle", "serialize"} /\ ~InBatch
       \/ cache' = cache /\ (CreatedProject => FaultOnNew)

Commits ==
    /\ pc \in {"idle", "commit"} /\ pc' = "idle"
    /\ pc = "commit" <=> ~InBatch
    /\ db' = work /\ work' = work /\ cache' = cache
    /\ ~InBatch' /\ acked' = Rowed /\ Before' = acked'

Releases ==
    /\ InBatch /\ InBatch' /\ pc = "commit" /\ pc' = "idle"
    /\ UNCHANGED <<db, work, acked, cache>> /\ Before' = Before \cup {arg}

Returns ==
    /\ InBatch /\ InBatch' /\ pc # "idle" /\ pc' = "idle"
    /\ work' = save /\ UNCHANGED <<db, acked, cache>> /\ Before' = Before
    /\ Errs(save)

Stutters == UNCHANGED <<vars, batchVars>> /\ Before' = Before

\* A step of the store has one of these shapes.
LEMMA Shapes ==
  ASSUME BatchTyped, [BatchNext]_<<vars, batchVars>>
  PROVE  \/ Statements \/ Starts \/ Drops \/ Commits \/ Releases \/ Returns \/ Stutters
<1>0. ~InBatch => Before = acked /\ pos = 0 /\ errs = {}
  BY DEF BatchTyped, Before
<1>1. CASE Single
  <2>1. ~InBatch /\ ~InBatch' /\ UNCHANGED <<items, pos, save, errs>>
    BY <1>1 DEF Single, batchVars, InBatch
  <2>2. Before' = acked' BY <2>1, <1>0 DEF Before
  <2>3. ASSUME NEW s \in Spans, Begin(s) PROVE Starts
    BY <2>1, <2>2, <2>3, <1>0 DEF Begin, Starts
  <2>4. CASE TxStep
    <3>1. UNCHANGED <<db, arg, acked>>
      BY <2>4, InnerRows DEF BatchTyped, TxStep
    <3> QED BY <2>1, <2>2, <2>4, <3>1, <1>0 DEF Statements
  <2>5. CASE Commit
    BY <2>1, <2>2, <2>5, <1>0 DEF Commit, EndTx, Commits, Rowed, Landed
  <2>6. CASE SerializeFails \/ Fault
    <3>1. /\ work' = db /\ pc' = "idle" /\ UNCHANGED <<db, acked, cache>>
          /\ pc = "serialize" \/ (CreatedProject => FaultOnNew)
      BY <2>6 DEF SerializeFails, Fault, Rollback, EndTx
    <3> QED BY <2>1, <2>2, <3>1 DEF Drops
  <2> QED BY <1>1, <2>3, <2>4, <2>5, <2>6 DEF Single, Statement, TxStep
<1>2. ASSUME NEW batch \in Batches, BeginBatch(batch) PROVE Drops
  <2>1. /\ ~InBatch /\ pc = "idle" /\ pc' = "idle" /\ pos' = 1 /\ work' = db
        /\ UNCHANGED <<db, acked, errs, cache>>
    BY <1>2 DEF BeginBatch
  <2>2. Before' = acked BY <2>1, <1>0 DEF Before
  <2> QED BY <2>1, <2>2 DEF Drops
<1>3. CASE Savepoint
  <2>1. /\ pc = "idle" /\ pc' = "serialize" /\ save' = work /\ arg' = items[pos]
        /\ pos \in DOMAIN items
        /\ UNCHANGED <<db, work, acked, items, pos, errs, cache>>
    BY <1>3 DEF Savepoint
  <2>2. Before' = Before BY <2>1 DEF Before
  <2>3. arg' \in Spans BY <2>1, ElementOfSeq DEF BatchTyped
  <2>4. InBatch BY <2>1, EmptySeq DEF InBatch, BatchTyped
  <2> QED BY <2>1, <2>2, <2>3, <2>4 DEF Starts
<1>4. CASE InBatch /\ Inner
  <2>1. TxStep /\ UNCHANGED <<items, pos, save, errs>>
    BY <1>4 DEF Inner, TxStep, batchVars
  <2>2. UNCHANGED <<db, arg, acked>>
    BY <1>4, InnerIsNext
  <2>3. Before' = Before BY <2>1, <2>2 DEF Before
  <2> QED BY <2>1, <2>2, <2>3 DEF Statements
<1>5. CASE Release
  <2>1. /\ InBatch /\ InBatch' /\ pc = "commit" /\ pc' = "idle" /\ pos' = pos + 1
        /\ UNCHANGED <<db, work, acked, items, save, errs, cache>>
    BY <1>5, EndTyped DEF Release, InBatch
  <2>2. pos \in Nat \ {0} /\ arg = items[pos] /\ pos \notin errs
    BY <2>1 DEF BatchTyped
  <2>3. (1 .. pos' - 1) \ errs = ((1 .. pos - 1) \ errs) \cup {pos} BY <2>1, <2>2
  <2>4. Before' = Before \cup {arg} BY <2>1, <2>2, <2>3 DEF Before
  <2> QED BY <2>1, <2>4 DEF Releases
<1>6. CASE RollbackTo
  <2>1. /\ InBatch /\ InBatch' /\ work' = save /\ pc # "idle" /\ pc' = "idle"
        /\ pos' = pos + 1 /\ errs' = errs \cup {pos} /\ Errs(save)
        /\ UNCHANGED <<db, acked, items, save, cache>>
    BY <1>6, EndTyped, FaultAssumption DEF RollbackTo, Errs, Steps, InBatch
  <2>2. pos \in Nat \ {0} BY <2>1 DEF BatchTyped
  <2>3. (1 .. pos' - 1) \ errs' = (1 .. pos - 1) \ errs BY <2>1, <2>2
  <2>4. Before' = Before BY <2>1, <2>3 DEF Before
  <2> QED BY <2>1, <2>4 DEF Returns
<1>7. CASE CommitBatch
  <2>1. /\ pc = "idle" /\ pc' = "idle" /\ pos > Len(items) /\ InBatch /\ ~InBatch'
        /\ db' = work /\ work' = work /\ pos' = 0 /\ errs' = {} /\ cache' = cache
        /\ acked' = acked \cup {items[i] : i \in DOMAIN items \ errs}
    BY <1>7 DEF CommitBatch, EndBatch, InBatch
  <2>2. Len(items) \in Nat /\ DOMAIN items = 1 .. Len(items) /\ pos = Len(items) + 1
    BY <2>1, LenProperties DEF BatchTyped
  <2>3. DOMAIN items = 1 .. pos - 1 BY <2>2
  <2>4. Rowed = acked' BY <2>1, <2>3 DEF Before, Rowed, Landed
  <2>5. Before' = acked' BY <2>1 DEF Before
  <2> QED BY <2>1, <2>4, <2>5 DEF Commits
<1>8. CASE CommitFails \/ (Restart /\ EndBatch)
  <2>1. /\ work' = db /\ pc' = "idle" /\ pos' = 0 /\ UNCHANGED <<db, acked>>
        /\ cache' = NoRows \/ (cache' = cache /\ (CreatedProject => FaultOnNew))
    BY <1>8, EndTyped DEF CommitFails, Restart, EndBatch
  <2>2. Before' = acked BY <2>1 DEF Before
  <2> QED BY <2>1, <2>2 DEF Drops
<1>9. CASE UNCHANGED <<vars, batchVars>>
  <2>1. UNCHANGED <<acked, items, pos, errs>> BY <1>9 DEF vars, batchVars
  <2>2. Before' = Before BY <2>1 DEF Before
  <2> QED BY <1>9, <2>2 DEF Stutters
<1> QED BY <1>1, <1>2, <1>3, <1>4, <1>5, <1>6, <1>7, <1>8, <1>9
    DEF BatchNext, BatchStatement
-----------------------------------------------------------------------------
(* What the rows say of the spans S they were made for.                    *)

\* The trace rows are the hulls, in the order of the texts, of S's times.
TracesOf(traces, S) ==
    /\ DOMAIN traces = {s.trace : s \in S}
    /\ \A s \in S : /\ ~TextBefore(s.start, traces[s.trace].start)
                    /\ ~TextBefore(traces[s.trace].end, s.end)
    /\ \A t \in DOMAIN traces :
          /\ \E s \in S : s.trace = t /\ s.start = traces[t].start
          /\ \E s \in S : s.trace = t /\ s.end = traces[t].end

Shows(row, s) ==
    /\ row.trace = s.trace /\ row.parent = s.parent
    /\ row.start = s.start /\ row.end = s.end
    /\ row.self = SelfTotals(s)

\* The span rows are S's, and no counter of errors is negative.
SpansOf(rows, S) ==
    /\ \A s \in S : s.id \in DOMAIN rows
    /\ \A i \in DOMAIN rows : \E s \in S : s.id = i /\ Shows(rows[i], s)
    /\ \A i \in DOMAIN rows : rows[i].totals["errors"] \in Nat

TablesInv ==
    /\ TracesOf(db.traces, acked) /\ SpansOf(db.spans, acked)
    /\ TracesOf(work.traces, Traced) /\ SpansOf(work.spans, Rowed)
    /\ InBatch /\ pc # "idle" => TracesOf(save.traces, Before) /\ SpansOf(save.spans, Before)
    /\ pc = "propagate" => totals["errors"] \in Nat

\* The text order is a total order of the instants' keys.
LEMMA TextOrder ==
  ASSUME NEW t \in Nat, NEW u \in Nat
  PROVE  /\ TextKey(t) \in Int
         /\ TextBefore(t, u) <=> TextKey(t) < TextKey(u)
<1>1. \A n \in Nat : n \div Second \in Int /\ n % Second \in Int /\ (n \div 10) % 10 \in Int /\ n % 10 \in Int
  BY DEF Second
<1>2. TenthsKey(t) \in Int /\ HundredthsKey(t) \in Int
  BY <1>1 DEF TenthsKey, HundredthsKey, Zulu
<1>3. TextKey(t) \in Int BY <1>1, <1>2 DEF TextKey
<1> QED BY <1>3 DEF TextBefore

\* The spans of the tables have the types of trace.Span.
LEMMA SpanTyped ==
  ASSUME NEW s \in Spans
  PROVE  /\ s.id \in SpanIds /\ s.trace \in TraceIds /\ s.start \in Nat /\ s.end \in Nat
         /\ s.parent \in SpanIds \cup {NoParent}
         /\ SelfTotals(s) \in Tally /\ SelfTotals(s)["errors"] \in Nat
<1>1. s \in Span BY SpansAssumption
<1>2. SelfTotals(s)["errors"] = IF s.status = "ERROR" THEN 1 ELSE 0 BY DEF SelfTotals
<1> QED BY <1>1, <1>2 DEF Span, SelfTotals, Tally, Counters

\* Batches hold spans.
LEMMA BeforeSpans == BatchTyped => Before \subseteq Spans
<1> SUFFICES ASSUME BatchTyped PROVE Before \subseteq Spans
  OBVIOUS
<1>1. Len(items) \in Nat /\ DOMAIN items = 1..Len(items) /\ \A i \in DOMAIN items : items[i] \in Spans
  BY LenProperties, ElementOfSeq DEF BatchTyped
<1>2. pos - 1 <= Len(items)
  <2>1. CASE InBatch BY <1>1, <2>1 DEF BatchTyped
  <2>2. CASE ~InBatch BY <1>1, <2>2 DEF BatchTyped
  <2> QED BY <2>1, <2>2
<1>3. pos \in Nat /\ \A i \in 1 .. pos - 1 : i \in DOMAIN items
  BY <1>1, <1>2 DEF BatchTyped
<1> QED BY <1>1, <1>3 DEF Before, BatchTyped, TypeOK

\* upsertTrace adds its span to the hulls.
LEMMA WidenTraceHulls ==
  ASSUME TypeOK, WidenTrace, NEW S \in SUBSET Spans, TracesOf(work.traces, S)
  PROVE  TracesOf(work'.traces, S \cup {arg})
<1> DEFINE old == work.traces  new == work'.traces  row == old[arg.trace]
<1>0. arg \in Spans /\ \A s \in S : s \in Spans BY DEF TypeOK
<1>1. new = [old EXCEPT ![arg.trace] = Widened(@, arg)] /\ arg.trace \in DOMAIN old
  BY WidenTraceTables DEF TypeOK, WidenTrace
<1>2. DOMAIN new = DOMAIN old /\ new[arg.trace] = Widened(row, arg)
      /\ \A t \in DOMAIN old : t # arg.trace => new[t] = old[t]
  BY <1>1
<1>3. \A t \in DOMAIN old : old[t] \in TraceRow BY DEF TypeOK, AreTables, IsTable
<1>4. row \in TraceRow /\ row.start \in Nat /\ row.end \in Nat BY <1>1, <1>3 DEF TraceRow
<1>5. /\ new[arg.trace].start = TextMin(row.start, arg.start)
      /\ new[arg.trace].end = TextMax(row.end, arg.end)
  <2>1. new[arg.trace] = [row EXCEPT !.start = TextMin(@, arg.start), !.end = TextMax(@, arg.end)]
    BY <1>2 DEF Widened
  <2> HIDE DEF row, new, old
  <2> QED BY <1>4, <2>1 DEF TraceRow
<1> HIDE DEF row, new
<1>6. DOMAIN new = {s.trace : s \in S \cup {arg}} BY <1>1, <1>2 DEF TracesOf
<1>7. ASSUME NEW s \in S \cup {arg}
      PROVE  ~TextBefore(s.start, new[s.trace].start) /\ ~TextBefore(new[s.trace].end, s.end)
  <2>0. s.start \in Nat /\ s.end \in Nat /\ arg.start \in Nat /\ arg.end \in Nat
    BY <1>0, SpanTyped
  <2>1. CASE s.trace # arg.trace
    BY <1>2, <2>1 DEF TracesOf
  <2>2. CASE s.trace = arg.trace
    <3>1. s = arg \/ (~TextBefore(s.start, row.start) /\ ~TextBefore(row.end, s.end))
      BY <2>2 DEF TracesOf, row
    <3>2. ~TextBefore(arg.start, TextMin(row.start, arg.start))
          /\ ~TextBefore(TextMax(row.end, arg.end), arg.end)
      BY <1>4, <2>0, TextOrder DEF TextMin, TextMax
    <3>3. CASE s = arg BY <1>5, <3>2, <3>3
    <3>4. CASE ~TextBefore(s.start, row.start) /\ ~TextBefore(row.end, s.end)
      <4>1. ~TextBefore(s.start, TextMin(row.start, arg.start))
            /\ ~TextBefore(TextMax(row.end, arg.end), s.end)
        BY <1>4, <2>0, <3>4, TextOrder DEF TextMin, TextMax
      <4> QED BY <1>5, <2>2, <4>1
    <3> QED BY <3>1, <3>3, <3>4
  <2> QED BY <2>1, <2>2
<1>8. ASSUME NEW t \in DOMAIN new
      PROVE  /\ \E s \in S \cup {arg} : s.trace = t /\ s.start = new[t].start
             /\ \E s \in S \cup {arg} : s.trace = t /\ s.end = new[t].end
  <2>1. /\ \E s \in S : s.trace = t /\ s.start = old[t].start
        /\ \E s \in S : s.trace = t /\ s.end = old[t].end
    BY <1>2 DEF TracesOf
  <2>2. CASE t # arg.trace BY <1>2, <2>1, <2>2
  <2>3. CASE t = arg.trace
    <3>1. new[t].start \in {row.start, arg.start} /\ new[t].end \in {row.end, arg.end}
      BY <1>5, <2>3 DEF TextMin, TextMax
    <3> QED BY <2>1, <2>3, <3>1 DEF row
  <2> QED BY <2>2, <2>3
<1> QED BY <1>6, <1>7, <1>8 DEF TracesOf, new

\* A new trace row is the hull of its only span.
LEMMA CreateTraceHulls ==
  ASSUME TypeOK, CreateTrace, NEW S \in SUBSET Spans, TracesOf(work.traces, S)
  PROVE  TracesOf(work'.traces, S \cup {arg})
<1> DEFINE old == work.traces  new == work'.traces
           row == [project |-> rowid, session |-> arg.session,
                   start |-> arg.start, end |-> arg.end]
<1>0. arg \in Spans BY DEF TypeOK
<1>1. new = Put(old, arg.trace, row) /\ arg.trace \notin DOMAIN old
  BY CreateTraceTables DEF CreateTrace
<1>2. row.start = arg.start /\ row.end = arg.end OBVIOUS
<1> HIDE DEF row
<1>3. /\ DOMAIN new = DOMAIN old \cup {arg.trace} /\ new[arg.trace] = row
      /\ \A t \in DOMAIN old : new[t] = old[t]
  BY <1>1 DEF Put
<1>4. arg.start \in Nat /\ arg.end \in Nat BY <1>0, SpanTyped
<1>5. ~TextBefore(arg.start, arg.start) /\ ~TextBefore(arg.end, arg.end)
  BY <1>4, TextOrder
<1>6. \A s \in S : s.trace \in DOMAIN old BY DEF TracesOf
<1> QED BY <1>2, <1>3, <1>5, <1>6 DEF TracesOf

\* A sum of natural numbers is one.
LEMMA SumNat ==
  ASSUME NEW S, IsFiniteSet(S), NEW f, \A x \in S : f[x] \in Nat
  PROVE  SumFunctionOnSet(f, S) \in Nat
<1> DEFINE A == {T \in SUBSET S : SumFunctionOnSet(f, T) \in Nat}
<1>1. ASSUME NEW T \in SUBSET S, \A x \in T : T \ {x} \in A PROVE T \in A
  <2>1. CASE T = {} BY <2>1, SumEmpty
  <2>2. CASE T # {}
    <3>1. PICK x : x \in T BY <2>2
    <3>2. IsFiniteSet(T) BY FS_Subset
    <3>3. SumFunctionOnSet(f, T) = f[x] + SumFunctionOnSet(f, T \ {x})
      BY <3>1, <3>2, SumRemove
    <3>4. SumFunctionOnSet(f, T \ {x}) \in Nat BY <1>1, <3>1
    <3>5. f[x] \in Nat BY <3>1
    <3> QED BY <3>3, <3>4, <3>5
  <2> QED BY <2>1, <2>2
<1> HIDE DEF A
<1>2. SUBSET S \subseteq A BY <1>1, SubsetInduction
<1> QED BY <1>2 DEF A

\* InsertRow's row is the span's, and its errors are a number of spans.
LEMMA InsertRowShows ==
  ASSUME TypeOK, InsertRow, NEW S \in SUBSET Spans, SpansOf(work.spans, S)
  PROVE  SpansOf(work'.spans, S \cup {arg}) /\ totals'["errors"] \in Nat
<1>1. /\ work'.spans = Put(work.spans, arg.id, NewRow)
      /\ arg.id \notin DOMAIN work.spans
  BY InsertRowTables DEF InsertRow
<1>2. Shows(NewRow, arg) /\ NewRow.totals = totals' BY DEF NewRow, Shows
<1>3. totals'["errors"] \in Nat
  <2> DEFINE C == Children(work.spans, arg.trace, arg.id)
             f == [c \in DOMAIN work.spans |-> work.spans[c].totals["errors"]]
  <2>1. C \in SUBSET DOMAIN work.spans BY DEF Children
  <2>2. IsFiniteSet(C)
    BY <2>1, IdsAssumption, FS_Subset DEF TypeOK, AreTables, IsTable
  <2>3. \A c \in C : f[c] \in Nat BY <2>1 DEF SpansOf
  <2>4. totals'["errors"] = SelfTotals(arg)["errors"] + SumTotals(work.spans, C)["errors"]
    BY DEF InsertRow, Plus, Counters
  <2>5. SumTotals(work.spans, C)["errors"] = SumFunctionOnSet(f, C)
    BY DEF SumTotals, Counters
  <2> HIDE DEF C, f
  <2>6. SumFunctionOnSet(f, C) \in Nat BY <2>2, <2>3, SumNat
  <2>7. SelfTotals(arg)["errors"] \in Nat BY SpanTyped DEF TypeOK
  <2> QED BY <2>4, <2>5, <2>6, <2>7
<1> HIDE DEF NewRow
<1>4. /\ DOMAIN work'.spans = DOMAIN work.spans \cup {arg.id}
      /\ work'.spans[arg.id] = NewRow
      /\ \A i \in DOMAIN work.spans : work'.spans[i] = work.spans[i]
  BY <1>1 DEF Put
<1> QED BY <1>2, <1>3, <1>4 DEF SpansOf

\* propagateToAncestors changes counters alone, and takes no error away.
LEMMA PropagateShows ==
  ASSUME TypeOK, Propagate, NEW S, SpansOf(work.spans, S), totals["errors"] \in Nat
  PROVE  /\ SpansOf(work'.spans, S)
         /\ DOMAIN work'.spans = DOMAIN work.spans
         /\ \A i \in DOMAIN work.spans :
               work'.spans[i].totals["errors"] >= work.spans[i].totals["errors"]
<1> DEFINE up == Lineage(work.spans, arg.trace, arg.parent)
<1>1. work'.spans = Raised(work.spans, up, totals) /\ totals \in Tally
      /\ IsTable(work.spans, SpanIds, SpanRow)
  BY PropagateTables DEF TypeOK, AreTables
<1> HIDE DEF up
<1>2. /\ DOMAIN work'.spans = DOMAIN work.spans
      /\ \A i \in DOMAIN work.spans :
           /\ work'.spans[i].trace = work.spans[i].trace
           /\ work'.spans[i].parent = work.spans[i].parent
           /\ work'.spans[i].start = work.spans[i].start
           /\ work'.spans[i].end = work.spans[i].end
           /\ work'.spans[i].self = work.spans[i].self
           /\ work'.spans[i].totals = IF i \in up THEN Plus(work.spans[i].totals, totals)
                                      ELSE work.spans[i].totals
  BY <1>1, RaisedRows
<1>3. \A i \in DOMAIN work.spans :
        Plus(work.spans[i].totals, totals)["errors"] =
            work.spans[i].totals["errors"] + totals["errors"]
  BY DEF Plus, Counters
<1>4. ASSUME NEW i \in DOMAIN work.spans
      PROVE  /\ work'.spans[i].totals["errors"] \in Nat
             /\ work'.spans[i].totals["errors"] >= work.spans[i].totals["errors"]
  <2>1. work.spans[i].totals["errors"] \in Nat BY DEF SpansOf
  <2>2. CASE i \in up BY <1>2, <1>3, <2>1, <2>2
  <2>3. CASE i \notin up BY <1>2, <2>1, <2>3
  <2> QED BY <2>2, <2>3
<1>5. \A i \in DOMAIN work'.spans : \E s \in S : s.id = i /\ Shows(work'.spans[i], s)
  BY <1>2 DEF SpansOf, Shows
<1> QED BY <1>2, <1>4, <1>5 DEF SpansOf

\* No row, no span.
LEMMA InitTables == BatchInit => TablesInv
<1> SUFFICES ASSUME BatchInit PROVE TablesInv
  OBVIOUS
<1>1. /\ db = EmptyTables /\ work = db /\ pc = "idle" /\ items = <<>> /\ acked = {} /\ pos = 0
  BY DEF BatchInit, Init
<1>2. Traced = {} /\ Rowed = {} /\ ~InBatch
  BY <1>1 DEF Traced, Rowed, Before, Landed, InBatch
<1> QED BY <1>1, <1>2 DEF TablesInv, TracesOf, SpansOf, EmptyTables, NoRows

\* What each statement of insertSpanTx does to the rows.
LEMMA StatementTables ==
  ASSUME BatchTyped, TablesInv, Statements
  PROVE  /\ TracesOf(work'.traces, Traced') /\ SpansOf(work'.spans, Rowed')
         /\ pc' = "propagate" => totals'["errors"] \in Nat
         /\ pc # "idle" /\ pc' # "idle"
<1>0. TypeOK /\ Before \subseteq Spans /\ arg \in Spans /\ Before' = Before /\ arg' = arg
      /\ TracesOf(work.traces, Traced) /\ SpansOf(work.spans, Rowed)
  BY BeforeSpans DEF BatchTyped, TypeOK, TablesInv, Statements
<1>1. CASE Serialize \/ CachedProject \/ StoredProject
  <2>1. work' = work /\ Traced' = Traced /\ Rowed' = Rowed
        /\ pc' \notin {"idle", "propagate"} /\ pc # "idle"
    BY <1>0, <1>1 DEF Serialize, CachedProject, StoredProject, Traced, Rowed, Landed
  <2> QED BY <1>0, <2>1
<1>2. CASE CreateProject
  <2>1. work'.traces = work.traces /\ work'.spans = work.spans /\ pc = "project" /\ pc' = "trace"
    BY <1>0, <1>2, CreateProjectTables DEF CreateProject
  <2>2. Traced' = Traced /\ Rowed' = Rowed BY <1>0, <2>1 DEF Traced, Rowed, Landed
  <2> QED BY <1>0, <2>1, <2>2
<1>3. CASE WidenTrace \/ CreateTrace
  <2>1. work'.spans = work.spans /\ pc = "trace" /\ pc' = "insert"
    BY <1>0, <1>3, WidenTraceTables, CreateTraceTables DEF WidenTrace, CreateTrace, TypeOK
  <2>2. Traced = Before /\ Traced' = Before \cup {arg} /\ Rowed' = Rowed
    BY <1>0, <2>1 DEF Traced, Rowed, Landed
  <2>3. TracesOf(work'.traces, Before \cup {arg})
    BY <1>0, <1>3, <2>2, WidenTraceHulls, CreateTraceHulls
  <2> QED BY <1>0, <2>1, <2>2, <2>3
<1>4. CASE InsertRow
  <2>1. work'.traces = work.traces /\ pc = "insert" /\ pc' = "propagate"
    BY <1>0, <1>4, InsertRowTables DEF InsertRow
  <2>2. Traced' = Traced /\ Rowed = Before /\ Rowed' = Before \cup {arg}
    BY <1>0, <2>1 DEF Traced, Rowed, Landed
  <2>3. SpansOf(work'.spans, Before \cup {arg}) /\ totals'["errors"] \in Nat
    BY <1>0, <1>4, <2>2, InsertRowShows
  <2> QED BY <1>0, <2>1, <2>2, <2>3
<1>5. CASE DuplicateRow
  <2>1. work' = work /\ pc = "insert" /\ pc' = "commit" /\ arg.id \in DOMAIN work.spans
    BY <1>5 DEF DuplicateRow
  <2>2. Traced' = Traced /\ Rowed = Before /\ Rowed' = Before \cup {arg}
    BY <1>0, <2>1 DEF Traced, Rowed, Landed
  <2>3. SpansOf(work.spans, Before \cup {arg})
    BY <1>0, <2>1, <2>2 DEF SpansOf
  <2> QED BY <1>0, <2>1, <2>2, <2>3
<1>6. CASE Propagate
  <2>1. work'.traces = work.traces /\ pc = "propagate" /\ pc' = "commit"
    BY <1>0, <1>6, PropagateTables DEF Propagate
  <2>2. Traced' = Traced /\ Rowed' = Rowed
    BY <1>0, <2>1 DEF Traced, Rowed, Landed
  <2>3. totals["errors"] \in Nat BY <2>1 DEF TablesInv
  <2>4. SpansOf(work'.spans, Rowed)
    BY <1>0, <1>6, <2>3, PropagateShows
  <2> QED BY <1>0, <2>1, <2>2, <2>4
<1> QED BY <1>1, <1>2, <1>3, <1>4, <1>5, <1>6 DEF Statements, TxStep

\* Every step keeps the rows those of their spans.
LEMMA NextTables ==
  BatchTyped /\ TablesInv /\ [BatchNext]_<<vars, batchVars>> => TablesInv'
<1> SUFFICES ASSUME BatchTyped, TablesInv, [BatchNext]_<<vars, batchVars>>
             PROVE  TablesInv'
  OBVIOUS
<1>0. ~InBatch => Before = acked
  BY DEF BatchTyped, Before
<1>1. CASE Statements
  <2>1. UNCHANGED <<db, acked, save>> /\ Before' = Before /\ (InBatch' <=> InBatch)
    BY <1>1 DEF Statements, InBatch
  <2> QED BY <1>1, <2>1, StatementTables DEF TablesInv
<1>2. CASE Starts
  <2>1. Traced' = Before /\ Rowed' = Before /\ (InBatch' <=> InBatch)
    BY <1>2 DEF Starts, Traced, Rowed, Landed, InBatch
  <2>2. Traced = Before /\ Rowed = Before
    BY <1>2 DEF Starts, Traced, Rowed, Landed
  <2> QED BY <1>0, <1>2, <2>1, <2>2 DEF Starts, TablesInv
<1>3. CASE Drops
  <2>1. Traced' = acked /\ Rowed' = acked
    BY <1>3 DEF Drops, Traced, Rowed, Landed
  <2> QED BY <1>3, <2>1 DEF Drops, TablesInv
<1>4. CASE Commits
  <2>1. Traced' = acked' /\ Rowed' = acked' /\ acked' = Rowed /\ Traced = Rowed
    BY <1>4 DEF Commits, Traced, Rowed, Landed
  <2> QED BY <1>4, <2>1 DEF Commits, TablesInv
<1>5. CASE Releases
  <2>1. Traced' = Before \cup {arg} /\ Rowed' = Before \cup {arg} /\ Traced = Traced' /\ Rowed = Rowed'
    BY <1>5 DEF Releases, Traced, Rowed, Landed
  <2> QED BY <1>5, <2>1 DEF Releases, TablesInv
<1>6. CASE Returns
  <2>1. Traced' = Before /\ Rowed' = Before
    BY <1>6 DEF Returns, Traced, Rowed, Landed
  <2> QED BY <1>6, <2>1 DEF Returns, TablesInv
<1>7. CASE Stutters
  <2>1. Traced' = Traced /\ Rowed' = Rowed
    BY <1>7 DEF Stutters, vars, batchVars, Traced, Rowed, Landed
  <2> QED BY <1>7, <2>1 DEF Stutters, vars, batchVars, TablesInv, InBatch
<1> QED BY <1>1, <1>2, <1>3, <1>4, <1>5, <1>6, <1>7, Shapes
-----------------------------------------------------------------------------
(* Ranges. *)

\* The second in which a text's time lies can be read off it.
LEMMA TextSeconds ==
  ASSUME NEW t \in Nat, NEW u \in Nat, ~TextBefore(u, t)
  PROVE  t \div Second <= u \div Second
<1>1. \A n \in Nat : /\ n \div Second \in Int /\ n % 10 \in 0 .. 9
                     /\ (n \div 10) % 10 \in 0 .. 9
  BY DEF Second
<1>2. \A n \in Nat : TenthsKey(n) \in 0 .. 10 /\ HundredthsKey(n) \in 0 .. 10
  BY <1>1 DEF TenthsKey, HundredthsKey, Zulu
<1> DEFINE m == t \div Second  n == u \div Second
<1>3. m \in Int /\ n \in Int BY <1>1
<1>4. /\ TextKey(t) = 121 * m + 11 * TenthsKey(t) + HundredthsKey(t)
      /\ TextKey(u) = 121 * n + 11 * TenthsKey(u) + HundredthsKey(u)
  BY DEF TextKey
<1> HIDE DEF m, n
<1>5. m <= n BY <1>2, <1>3, <1>4 DEF TextBefore
<1> QED BY <1>5 DEF m, n

\* The range of every committed trace, in whole seconds, contains each of its
\* spans.
RangeCoversSeconds ==
    \A i \in DOMAIN db.spans :
        LET row == db.spans[i] IN
        /\ row.trace \in DOMAIN db.traces
        /\ db.traces[row.trace].start \div Second <= row.start \div Second
        /\ db.traces[row.trace].end \div Second >= row.end \div Second

\* upsertTrace widens a trace's range to every span, whatever came before,
\* failed or was taken back, and what a range misses of a span, because texts
\* are compared, is less than a second.
THEOREM RangesCoverSeconds == BatchSpec => []RangeCoversSeconds
<1>1. BatchTyped /\ TablesInv => RangeCoversSeconds
  <2> SUFFICES ASSUME BatchTyped, TablesInv, NEW i \in DOMAIN db.spans
               PROVE  LET row == db.spans[i] IN
                      /\ row.trace \in DOMAIN db.traces
                      /\ db.traces[row.trace].start \div Second <= row.start \div Second
                      /\ db.traces[row.trace].end \div Second >= row.end \div Second
    BY DEF RangeCoversSeconds
  <2>1. PICK s \in acked : s.id = i /\ Shows(db.spans[i], s)
    BY DEF TablesInv, SpansOf
  <2> DEFINE range == db.traces[s.trace]
  <2>2. s.trace \in DOMAIN db.traces
        /\ ~TextBefore(s.start, range.start) /\ ~TextBefore(range.end, s.end)
    BY <2>1 DEF TablesInv, TracesOf
  <2>3. PICK r \in acked : r.start = range.start
    BY <2>2 DEF TablesInv, TracesOf
  <2>4. PICK q \in acked : q.end = range.end
    BY <2>2 DEF TablesInv, TracesOf
  <2>5. r \in Spans /\ q \in Spans /\ s \in Spans BY DEF BatchTyped, TypeOK
  <2>6. range.start \in Nat /\ range.end \in Nat /\ s.start \in Nat /\ s.end \in Nat
    BY <2>3, <2>4, <2>5, SpanTyped
  <2>7. /\ range.start \div Second <= s.start \div Second
        /\ s.end \div Second <= range.end \div Second
    BY <2>2, <2>6, TextSeconds
  <2>8. \A n \in Nat : n \div Second \in Int BY DEF Second
  <2> QED BY <2>1, <2>2, <2>6, <2>7, <2>8 DEF Shows
<1>2. BatchInit => BatchTyped /\ TablesInv BY BatchInitTyped, InitTables
<1>3. BatchTyped /\ TablesInv /\ [BatchNext]_<<vars, batchVars>>
        => (BatchTyped /\ TablesInv)'
  BY BatchNextTyped, NextTables
<1> QED BY <1>1, <1>2, <1>3, PTL DEF BatchSpec

WholeSeconds == \A s \in Spans : s.start % Second = 0 /\ s.end % Second = 0

\* The texts of whole seconds are in the order of their times.
LEMMA WholeSecondsOrder ==
  ASSUME NEW t \in Nat, NEW u \in Nat, t % Second = 0, u % Second = 0
  PROVE  TextBefore(t, u) <=> t < u
<1> DEFINE m == t \div 100  n == u \div 100
<1>1. m \in Int /\ n \in Int /\ t = 100 * m /\ u = 100 * n
  BY DEF Second
<1>2. t % 10 = 0 /\ u % 10 = 0 /\ t % 100 = 0 /\ u % 100 = 0 BY DEF Second
<1>3. TextKey(t) = 121 * m + 11 * 10 + 10 /\ TextKey(u) = 121 * n + 11 * 10 + 10
  BY <1>2 DEF TextKey, TenthsKey, HundredthsKey, Zulu, Second
<1> HIDE DEF m, n
<1> QED BY <1>1, <1>3 DEF TextBefore

\* upsertTrace widens a trace's range to every span, whatever came before,
\* failed or was taken back, as long as times are whole seconds, whose texts
\* sort like the times.
THEOREM RangesCover ==
  ASSUME WholeSeconds
  PROVE  BatchSpec => []RangeCovers
<1>1. BatchTyped /\ TablesInv => RangeCovers
  <2> SUFFICES ASSUME BatchTyped, TablesInv, NEW i \in DOMAIN db.spans
               PROVE  /\ db.spans[i].trace \in DOMAIN db.traces
                      /\ db.traces[db.spans[i].trace].start <= db.spans[i].start
                      /\ db.traces[db.spans[i].trace].end >= db.spans[i].end
    BY DEF RangeCovers
  <2>1. PICK s \in acked : s.id = i /\ Shows(db.spans[i], s)
    BY DEF TablesInv, SpansOf
  <2> DEFINE t == s.trace  range == db.traces[t]
  <2>2. t \in DOMAIN db.traces
        /\ ~TextBefore(s.start, range.start) /\ ~TextBefore(range.end, s.end)
    BY <2>1 DEF TablesInv, TracesOf
  <2>3. PICK r \in acked : r.start = range.start
    BY <2>2 DEF TablesInv, TracesOf
  <2>4. PICK q \in acked : q.end = range.end
    BY <2>2 DEF TablesInv, TracesOf
  <2>5. r \in Spans /\ q \in Spans /\ s \in Spans BY DEF BatchTyped, TypeOK
  <2>6. /\ r.start \in Nat /\ r.start % Second = 0 /\ q.end \in Nat /\ q.end % Second = 0
        /\ s.start \in Nat /\ s.start % Second = 0 /\ s.end \in Nat /\ s.end % Second = 0
    BY <2>5, SpanTyped DEF WholeSeconds
  <2>7. ~(s.start < range.start) /\ ~(range.end < s.end)
    BY <2>2, <2>3, <2>4, <2>6, WholeSecondsOrder
  <2>8. range.start <= s.start /\ range.end >= s.end
    BY <2>3, <2>4, <2>6, <2>7
  <2> QED BY <2>1, <2>2, <2>8 DEF Shows
<1>2. BatchInit => BatchTyped /\ TablesInv BY BatchInitTyped, InitTables
<1>3. BatchTyped /\ TablesInv /\ [BatchNext]_<<vars, batchVars>>
        => (BatchTyped /\ TablesInv)'
  BY BatchNextTyped, NextTables
<1> QED BY <1>1, <1>2, <1>3, PTL DEF BatchSpec
-----------------------------------------------------------------------------
(* Projects, the cache and the traces' rows, where the cache is filled      *)
(* before the savepoint or the transaction that created a row is safe.     *)

\* Row i of the projects has the name n.
RowNamed(tables, i, n) == i \in DOMAIN tables.projects /\ tables.projects[i] = n

\* The projects of `old` are the same rows in `new`.
KeepsProjects(old, new) ==
    \A i \in DOMAIN old.projects : RowNamed(new, i, old.projects[i])

\* Each trace has the project and the session of one and the same span of S,
\* and S's projects have rows.
FiledBy(tables, S) ==
    /\ \A t \in DOMAIN tables.traces :
          \E s \in S : /\ s.trace = t /\ s.session = tables.traces[t].session
                       /\ RowNamed(tables, tables.traces[t].project, s.project)
    /\ \A s \in S : \E i \in DOMAIN tables.projects : tables.projects[i] = s.project

FilingInv ==
    /\ KeepsProjects(db, work)
    /\ \A i, j \in DOMAIN work.projects : work.projects[i] = work.projects[j] => i = j
    /\ \A n \in DOMAIN cache : RowNamed(work, cache[n], n)
    /\ pc \notin {"idle", "serialize", "project"} => RowNamed(work, rowid, arg.project)
    /\ FiledBy(db, acked) /\ FiledBy(work, Traced)
    /\ ~InBatch /\ pc \in {"idle", "serialize", "project"} => work = db
    /\ InBatch /\ pc # "idle" =>
          /\ KeepsProjects(db, save) /\ KeepsProjects(save, work) /\ FiledBy(save, Before)
          /\ pc \in {"serialize", "project"} => work = save

\* Projects that keep their rows twice keep them.
LEMMA KeepsTransitive ==
  ASSUME NEW a, NEW b, NEW c, KeepsProjects(a, b), KeepsProjects(b, c)
  PROVE  KeepsProjects(a, c)
BY DEF KeepsProjects, RowNamed

\* A trace stays filed, and a project known, while the projects keep their
\* rows and the trace its columns.
LEMMA FiledKept ==
  ASSUME NEW a, NEW b, NEW S, FiledBy(a, S), KeepsProjects(a, b), b.traces = a.traces
  PROVE  FiledBy(b, S)
BY DEF FiledBy, KeepsProjects, RowNamed

\* Tables that are not longer have no other projects.
LEMMA NothingCreated ==
  ASSUME NEW old, NEW new, AreTables(old), AreTables(new), KeepsProjects(old, new),
         ~(Len(new.projects) > Len(old.projects))
  PROVE  KeepsProjects(new, old)
<1>1. /\ Len(old.projects) \in Nat /\ Len(new.projects) \in Nat
      /\ DOMAIN old.projects = 1..Len(old.projects)
      /\ DOMAIN new.projects = 1..Len(new.projects)
  BY LenProperties DEF AreTables
<1>2. DOMAIN new.projects \subseteq DOMAIN old.projects BY <1>1
<1> QED BY <1>2 DEF KeepsProjects, RowNamed

\* In an empty store nothing is filed and nothing cached.
LEMMA InitFiling == BatchInit => FilingInv
<1> SUFFICES ASSUME BatchInit PROVE FilingInv
  OBVIOUS
<1>1. /\ DOMAIN db.projects = {} /\ DOMAIN db.traces = {} /\ DOMAIN cache = {}
      /\ work = db /\ pc = "idle" /\ acked = {}
  BY EmptySeq DEF BatchInit, Init, EmptyTables, NoRows
<1>2. Traced = {} /\ ~InBatch
  BY DEF BatchInit, Init, Traced, Before, InBatch
<1> QED BY <1>1, <1>2 DEF FilingInv, FiledBy, KeepsProjects

\* ensureProject finds or makes the row of the span's project, a new one
\* under a rowid that no project has, and the cache takes it.
LEMMA EnsureProject ==
  ASSUME TypeOK, FilingInv, CachedProject \/ StoredProject \/ CreateProject
  PROVE  /\ work'.traces = work.traces /\ KeepsProjects(work, work')
         /\ \A i, j \in DOMAIN work'.projects :
               work'.projects[i] = work'.projects[j] => i = j
         /\ \A n \in DOMAIN cache' : RowNamed(work', cache'[n], n)
         /\ RowNamed(work', rowid', arg.project)
<1>1. CASE CachedProject
  BY <1>1 DEF CachedProject, FilingInv, KeepsProjects, RowNamed
<1>2. CASE StoredProject
  <2>1. \E i \in DOMAIN work.projects : work.projects[i] = arg.project
    BY <1>2 DEF StoredProject, Range
  <2>2. RowNamed(work, rowid', arg.project)
    BY <1>2, <2>1 DEF StoredProject, ProjectRow, RowNamed
  <2> QED BY <1>2, <2>2 DEF StoredProject, FilingInv, KeepsProjects, RowNamed, Put
<1>3. CASE CreateProject
  <2> DEFINE n == Len(work.projects) + 1
  <2>0. /\ work.projects \in Seq(Projects) /\ arg.project \in Projects
        /\ Len(work.projects) \in Nat
        /\ DOMAIN work.projects = 1..Len(work.projects)
    BY ArgTyped, LenProperties DEF TypeOK, AreTables
  <2>1. work'.projects = Append(work.projects, arg.project) /\ work'.traces = work.traces
    BY <1>3, CreateProjectTables
  <2>2. /\ DOMAIN work'.projects = 1..n /\ Len(work'.projects) = n
        /\ work'.projects[n] = arg.project
        /\ \A m \in DOMAIN work.projects : work'.projects[m] = work.projects[m]
    BY <2>0, <2>1, AppendProperties, LenProperties
  <2>3. /\ rowid' = n /\ cache' = Put(cache, arg.project, n)
        /\ arg.project \notin Range(work.projects)
    BY <1>3, <2>2 DEF CreateProject
  <2>4. \A m \in DOMAIN work.projects : work.projects[m] # arg.project /\ m # n
    BY <2>0, <2>3 DEF Range
  <2>5. DOMAIN work'.projects = DOMAIN work.projects \cup {n}
    BY <2>0, <2>2
  <2> HIDE DEF n
  <2>6. \A i, j \in DOMAIN work'.projects : work'.projects[i] = work'.projects[j] => i = j
    BY <2>2, <2>4, <2>5 DEF FilingInv
  <2>7. \A m \in DOMAIN cache' : RowNamed(work', cache'[m], m)
    BY <2>2, <2>3, <2>5 DEF FilingInv, Put, RowNamed
  <2>8. KeepsProjects(work, work') BY <2>2, <2>5 DEF KeepsProjects, RowNamed
  <2>9. RowNamed(work', rowid', arg.project) BY <2>2, <2>3, <2>5 DEF RowNamed
  <2> QED BY <2>1, <2>6, <2>7, <2>8, <2>9
<1> QED BY <1>1, <1>2, <1>3

\* A new trace is filed as the span that brings it says, an old one stays.
LEMMA UpsertFiles ==
  ASSUME TypeOK, FilingInv, NEW S, FiledBy(work, S), WidenTrace \/ CreateTrace
  PROVE  work'.projects = work.projects /\ FiledBy(work', S \cup {arg})
<1>1. work'.projects = work.projects /\ RowNamed(work, rowid, arg.project)
  BY WidenTraceTables, CreateTraceTables DEF TypeOK, FilingInv, WidenTrace, CreateTrace
<1>2. \A t \in DOMAIN work'.traces :
        \/ /\ t \in DOMAIN work.traces
           /\ work'.traces[t].project = work.traces[t].project
           /\ work'.traces[t].session = work.traces[t].session
        \/ t = arg.trace /\ work'.traces[t].project = rowid
           /\ work'.traces[t].session = arg.session
  <2>1. CASE WidenTrace
    <3>1. /\ work'.traces = [work.traces EXCEPT ![arg.trace] = Widened(@, arg)]
          /\ arg.trace \in DOMAIN work.traces
      BY <2>1, WidenTraceTables DEF TypeOK, WidenTrace
    <3>2. \A row : Widened(row, arg).project = row.project
                   /\ Widened(row, arg).session = row.session
      BY DEF Widened
    <3> QED BY <3>1, <3>2
  <2>2. CASE CreateTrace
    <3>1. work'.traces = Put(work.traces, arg.trace,
                             [project |-> rowid, session |-> arg.session,
                              start |-> arg.start, end |-> arg.end])
      BY <2>2, CreateTraceTables
    <3> QED BY <3>1 DEF Put
  <2> QED BY <2>1, <2>2
<1> QED BY <1>1, <1>2 DEF FiledBy, RowNamed

\* What each statement of insertSpanTx does to projects, cache and filing.
LEMMA StatementFiles ==
  ASSUME BatchTyped, FilingInv, Statements
  PROVE  /\ KeepsProjects(work, work')
         /\ \A i, j \in DOMAIN work'.projects :
               work'.projects[i] = work'.projects[j] => i = j
         /\ \A n \in DOMAIN cache' : RowNamed(work', cache'[n], n)
         /\ pc' \notin {"idle", "serialize", "project"} => RowNamed(work', rowid', arg.project)
         /\ FiledBy(work', Traced')
         /\ pc' \in {"idle", "serialize", "project"} =>
               work' = work /\ pc \in {"serialize", "project"}
         /\ pc # "idle" /\ pc' # "idle"
<1>0. TypeOK /\ Before' = Before /\ arg' = arg /\ FiledBy(work, Traced)
  BY DEF BatchTyped, FilingInv, Statements
<1>1. CASE Serialize
  <2>1. work' = work /\ Traced' = Traced /\ cache' = cache /\ pc = "serialize" /\ pc' = "project"
    BY <1>0, <1>1 DEF Serialize, Traced
  <2> QED BY <1>0, <2>1 DEF FilingInv, KeepsProjects, RowNamed
<1>2. CASE CachedProject \/ StoredProject \/ CreateProject
  <2>1. pc = "project" /\ pc' = "trace"
    BY <1>2 DEF CachedProject, StoredProject, CreateProject
  <2>2. Traced' = Traced BY <1>0, <2>1 DEF Traced
  <2> QED BY <1>0, <1>2, <2>1, <2>2, EnsureProject, FiledKept
<1>3. CASE WidenTrace \/ CreateTrace
  <2>1. pc = "trace" /\ pc' = "insert" /\ UNCHANGED <<rowid, cache>>
    BY <1>3 DEF WidenTrace, CreateTrace
  <2>2. Traced' = Traced \cup {arg} BY <1>0, <2>1 DEF Traced
  <2>3. work'.projects = work.projects /\ FiledBy(work', Traced')
    BY <1>0, <1>3, <2>2, UpsertFiles
  <2> QED BY <2>1, <2>3 DEF FilingInv, KeepsProjects, RowNamed
<1>4. CASE InsertRow \/ DuplicateRow \/ Propagate
  <2>1. /\ pc \in {"insert", "propagate"} /\ pc' \in {"propagate", "commit"}
        /\ UNCHANGED <<rowid, cache>>
    BY <1>4 DEF InsertRow, DuplicateRow, Propagate
  <2>2. work'.projects = work.projects /\ work'.traces = work.traces
    BY <1>0, <1>4, InsertRowTables, PropagateTables DEF DuplicateRow
  <2>3. Traced' = Traced BY <1>0, <2>1 DEF Traced
  <2> QED BY <1>0, <2>1, <2>2, <2>3 DEF FilingInv, FiledBy, KeepsProjects, RowNamed
<1> QED BY <1>1, <1>2, <1>3, <1>4 DEF Statements, TxStep

\* A step keeps projects, cache and traces right; only a rollback of a new
\* project would not.
LEMMA NextFiling ==
  ASSUME ~FaultOnNew
  PROVE  BatchTyped /\ FilingInv /\ [BatchNext]_<<vars, batchVars>> => FilingInv'
<1> SUFFICES ASSUME BatchTyped, FilingInv, [BatchNext]_<<vars, batchVars>>
             PROVE  FilingInv'
  OBVIOUS
<1>0. /\ ~InBatch => Before = acked
      /\ AreTables(db) /\ AreTables(work) /\ AreTables(save)
  BY DEF BatchTyped, TypeOK, Before
<1>00. \A a : KeepsProjects(a, a) BY DEF KeepsProjects, RowNamed
<1>1. CASE Statements
  <2>1. UNCHANGED <<db, arg, acked, save>> /\ Before' = Before /\ (InBatch' <=> InBatch)
    BY <1>1 DEF Statements, InBatch
  <2>2. KeepsProjects(db, work') /\ (InBatch => KeepsProjects(save, work'))
    BY <1>1, StatementFiles, KeepsTransitive DEF FilingInv
  <2> QED BY <1>1, <2>1, <2>2, StatementFiles DEF FilingInv
<1>2. CASE Starts
  <2>1. Traced' = Before /\ Traced = Before /\ (InBatch' <=> InBatch)
    BY <1>2 DEF Starts, Traced, InBatch
  <2>2. work' = work BY <1>2 DEF Starts, FilingInv
  <2> QED BY <1>0, <1>00, <1>2, <2>1, <2>2 DEF Starts, FilingInv
<1>3. CASE Drops
  <2>1. Traced' = acked BY <1>3 DEF Drops, Traced
  <2>2. \A n \in DOMAIN cache' : RowNamed(db, cache'[n], n)
    <3>1. CASE cache' = NoRows BY <3>1 DEF NoRows
    <3>2. CASE cache' = cache /\ work = db BY <3>2 DEF FilingInv
    <3>3. CASE cache' = cache /\ ~CreatedProject
      <4>1. KeepsProjects(work, db)
        BY <1>0, <3>3, NothingCreated DEF CreatedProject, FilingInv
      <4> QED BY <3>3, <4>1 DEF FilingInv, KeepsProjects, RowNamed
    <3> QED BY <1>3, <3>1, <3>2, <3>3 DEF Drops, FilingInv
  <2>3. \A i, j \in DOMAIN db.projects : db.projects[i] = db.projects[j] => i = j
    BY DEF FilingInv, KeepsProjects, RowNamed
  <2> QED BY <1>00, <1>3, <2>1, <2>2, <2>3 DEF Drops, FilingInv
<1>4. CASE Commits
  <2>1. Traced' = acked' /\ Traced = acked'
    BY <1>4 DEF Commits, Traced, Rowed, Landed
  <2> QED BY <1>00, <1>4, <2>1 DEF Commits, FilingInv
<1>5. CASE Releases
  <2>1. Traced' = Traced BY <1>5 DEF Releases, Traced
  <2> QED BY <1>5, <2>1 DEF Releases, FilingInv
<1>6. CASE Returns
  <2>1. Traced' = Before BY <1>6 DEF Returns, Traced
  <2>2. KeepsProjects(work, save)
    <3>1. CASE pc = "serialize" BY <1>00, <1>6, <3>1 DEF Returns, FilingInv
    <3>2. CASE ~(Len(work.projects) > Len(save.projects))
      BY <1>0, <1>6, <3>2, NothingCreated DEF Returns, FilingInv
    <3> QED BY <1>6, <3>1, <3>2 DEF Returns, Errs
  <2>3. \A n \in DOMAIN cache' : RowNamed(save, cache'[n], n)
    BY <1>6, <2>2 DEF Returns, FilingInv, KeepsProjects, RowNamed
  <2>4. \A i, j \in DOMAIN save.projects : save.projects[i] = save.projects[j] => i = j
    BY <1>6 DEF Returns, FilingInv, KeepsProjects, RowNamed
  <2> QED BY <1>6, <2>1, <2>3, <2>4 DEF Returns, FilingInv
<1>7. CASE Stutters
  <2>1. Traced' = Traced BY <1>7 DEF Stutters, vars, Traced
  <2> QED BY <1>7, <2>1 DEF Stutters, vars, batchVars, FilingInv, InBatch
<1> QED BY <1>1, <1>2, <1>3, <1>4, <1>5, <1>6, <1>7, Shapes

\* Alone or in batches, each trace is filed under the project of one of its
\* stored spans and the cache agrees with the table, unless a statement fails
\* after its transaction, or its savepoint, created a project (the cache is
\* filled before the commit).
THEOREM BatchProjectsAreRight ==
  ASSUME ~FaultOnNew
  PROVE  BatchSpec => [](FiledUnderOwnProject /\ CacheAgrees)
<1>1. BatchTyped /\ FilingInv => FiledUnderOwnProject /\ CacheAgrees
  <2> SUFFICES ASSUME BatchTyped, FilingInv
               PROVE  FiledUnderOwnProject /\ CacheAgrees
    OBVIOUS
  <2>1. FiledUnderOwnProject
    BY DEF FilingInv, FiledBy, RowNamed, FiledUnderOwnProject
  <2>2. CacheAgrees
    <3> SUFFICES ASSUME NEW n \in DOMAIN cache, n \in Range(db.projects)
                 PROVE  cache[n] \in DOMAIN db.projects /\ db.projects[cache[n]] = n
      BY DEF CacheAgrees
    <3>1. PICK i \in DOMAIN db.projects : db.projects[i] = n BY DEF Range
    <3>2. RowNamed(work, i, n) /\ RowNamed(work, cache[n], n)
      BY <3>1 DEF FilingInv, KeepsProjects
    <3>3. cache[n] = i BY <3>2 DEF FilingInv, RowNamed
    <3> QED BY <3>1, <3>3
  <2> QED BY <2>1, <2>2
<1>2. BatchInit => BatchTyped /\ FilingInv BY BatchInitTyped, InitFiling
<1>3. BatchTyped /\ FilingInv /\ [BatchNext]_<<vars, batchVars>>
        => (BatchTyped /\ FilingInv)'
  BY BatchNextTyped, NextFiling
<1> QED BY <1>1, <1>2, <1>3, PTL DEF BatchSpec
-----------------------------------------------------------------------------
(* What a commit may change of what readers have seen. *)

\* `new` takes nothing back of `old`: projects keep their rowids, traces
\* their project and session, ranges and error counts do not shrink.
Extends(old, new) ==
    /\ KeepsProjects(old, new)
    /\ \A t \in DOMAIN old.traces :
          /\ t \in DOMAIN new.traces
          /\ new.traces[t].project = old.traces[t].project
          /\ new.traces[t].session = old.traces[t].session
          /\ ~TextBefore(old.traces[t].start, new.traces[t].start)
          /\ ~TextBefore(new.traces[t].end, old.traces[t].end)
    /\ \A i \in DOMAIN old.spans :
          /\ i \in DOMAIN new.spans
          /\ new.spans[i].totals["errors"] >= old.spans[i].totals["errors"]

\* The open transaction extends the committed tables, and so does the
\* savepoint it may return to.
GrowthInv ==
    /\ Extends(db, work)
    /\ InBatch /\ pc # "idle" => Extends(db, save)

\* Tables hold instants and counts.
LEMMA TablesTyped ==
  ASSUME NEW a, AreTables(a)
  PROVE  /\ \A t \in DOMAIN a.traces :
               /\ a.traces[t].start \in Nat /\ a.traces[t].end \in Nat
               /\ TextKey(a.traces[t].start) \in Int /\ TextKey(a.traces[t].end) \in Int
         /\ \A i \in DOMAIN a.spans : a.spans[i].totals["errors"] \in Int
<1>1. \A t \in DOMAIN a.traces : a.traces[t] \in TraceRow
  BY DEF AreTables, IsTable
<1>2. \A i \in DOMAIN a.spans : a.spans[i] \in SpanRow
  BY DEF AreTables, IsTable
<1>3. \A i \in DOMAIN a.spans : a.spans[i].totals \in Tally
  BY <1>2 DEF SpanRow
<1> QED BY <1>1, <1>3, TextOrder DEF TraceRow, Tally, Counters

\* Growth can be put together.
LEMMA ExtendsOrder ==
  ASSUME NEW a, NEW b, NEW c, AreTables(a), AreTables(b), AreTables(c)
  PROVE  /\ Extends(a, a)
         /\ Extends(a, b) /\ Extends(b, c) => Extends(a, c)
<1>1. Extends(a, a)
  BY TablesTyped DEF Extends, KeepsProjects, RowNamed, TextBefore
<1>2. ASSUME Extends(a, b), Extends(b, c) PROVE Extends(a, c)
  <2>1. KeepsProjects(a, c) BY <1>2, KeepsTransitive DEF Extends
  <2>2. ASSUME NEW t \in DOMAIN a.traces
        PROVE  /\ t \in DOMAIN c.traces
               /\ c.traces[t].project = a.traces[t].project
               /\ c.traces[t].session = a.traces[t].session
               /\ ~TextBefore(a.traces[t].start, c.traces[t].start)
               /\ ~TextBefore(c.traces[t].end, a.traces[t].end)
    BY <1>2, TablesTyped DEF Extends, TextBefore
  <2>3. ASSUME NEW i \in DOMAIN a.spans
        PROVE  i \in DOMAIN c.spans /\ c.spans[i].totals["errors"] >= a.spans[i].totals["errors"]
    BY <1>2, TablesTyped DEF Extends
  <2> QED BY <2>1, <2>2, <2>3 DEF Extends
<1> QED BY <1>1, <1>2

\* upsertTrace moves the ends of a range apart, and never names another
\* project or session.
LEMMA WidenedExtends ==
  ASSUME NEW row \in TraceRow, NEW s \in Spans
  PROVE  /\ Widened(row, s).project = row.project /\ Widened(row, s).session = row.session
         /\ ~TextBefore(row.start, Widened(row, s).start)
         /\ ~TextBefore(Widened(row, s).end, row.end)
<1> DEFINE new == Widened(row, s)
<1>1. /\ new.project = row.project /\ new.session = row.session
      /\ new.start = TextMin(row.start, s.start) /\ new.end = TextMax(row.end, s.end)
  BY DEF Widened, TraceRow
<1>2. row.start \in Nat /\ row.end \in Nat /\ s.start \in Nat /\ s.end \in Nat
  BY SpanTyped DEF TraceRow
<1> HIDE DEF new
<1>3. ~TextBefore(row.start, new.start) /\ ~TextBefore(new.end, row.end)
  BY <1>1, <1>2, TextOrder DEF TextMin, TextMax
<1> QED BY <1>1, <1>3 DEF new

\* Every statement of insertSpanTx extends what it works on.
LEMMA StatementExtends ==
  ASSUME BatchTyped, TablesInv, Statements
  PROVE  Extends(work, work')
<1>0. /\ TypeOK /\ AreTables(work) /\ arg \in Spans
      /\ SpansOf(work.spans, Rowed) /\ Extends(work, work)
  BY ExtendsOrder DEF BatchTyped, TypeOK, TablesInv
<1>1. CASE Serialize \/ CachedProject \/ StoredProject \/ DuplicateRow
  <2>1. work' = work
    BY <1>1 DEF Serialize, CachedProject, StoredProject, DuplicateRow
  <2> QED BY <1>0, <2>1
<1>2. CASE CreateProject
  <2>1. /\ work'.projects = Append(work.projects, arg.project)
        /\ work'.traces = work.traces /\ work'.spans = work.spans
    BY <1>0, <1>2, CreateProjectTables
  <2>2. work.projects \in Seq(Projects) /\ arg.project \in Projects
    BY <1>0, ArgTyped DEF AreTables
  <2>3. KeepsProjects(work, work')
    BY <2>1, <2>2, AppendProperties, LenProperties DEF KeepsProjects, RowNamed
  <2> QED BY <1>0, <2>1, <2>3 DEF Extends
<1>3. CASE WidenTrace
  <2>1. /\ work'.projects = work.projects /\ work'.spans = work.spans
        /\ work'.traces = [work.traces EXCEPT ![arg.trace] = Widened(@, arg)]
        /\ arg.trace \in DOMAIN work.traces /\ work.traces[arg.trace] \in TraceRow
    BY <1>0, <1>3, WidenTraceTables DEF WidenTrace, AreTables, IsTable
  <2>2. /\ DOMAIN work'.traces = DOMAIN work.traces
        /\ work'.traces[arg.trace] = Widened(work.traces[arg.trace], arg)
        /\ \A t \in DOMAIN work.traces : t # arg.trace => work'.traces[t] = work.traces[t]
    BY <2>1
  <2>3. ASSUME NEW t \in DOMAIN work.traces
        PROVE  /\ t \in DOMAIN work'.traces
               /\ work'.traces[t].project = work.traces[t].project
               /\ work'.traces[t].session = work.traces[t].session
               /\ ~TextBefore(work.traces[t].start, work'.traces[t].start)
               /\ ~TextBefore(work'.traces[t].end, work.traces[t].end)
    <3>1. CASE t = arg.trace BY <1>0, <2>1, <2>2, <3>1, WidenedExtends
    <3>2. CASE t # arg.trace BY <1>0, <2>2, <3>2 DEF Extends
    <3> QED BY <3>1, <3>2
  <2> QED BY <1>0, <2>1, <2>3 DEF Extends, KeepsProjects, RowNamed
<1>4. CASE CreateTrace
  <2> DEFINE row == [project |-> rowid, session |-> arg.session,
                     start |-> arg.start, end |-> arg.end]
  <2>1. /\ work'.projects = work.projects /\ work'.spans = work.spans
        /\ work'.traces = Put(work.traces, arg.trace, row)
        /\ arg.trace \notin DOMAIN work.traces
    BY <1>0, <1>4, CreateTraceTables DEF CreateTrace
  <2> HIDE DEF row
  <2>2. \A t \in DOMAIN work.traces : t \in DOMAIN work'.traces /\ work'.traces[t] = work.traces[t]
    BY <2>1 DEF Put
  <2> QED BY <1>0, <2>1, <2>2 DEF Extends, KeepsProjects, RowNamed
<1>5. CASE InsertRow
  <2>1. /\ work'.projects = work.projects /\ work'.traces = work.traces
        /\ work'.spans = Put(work.spans, arg.id, NewRow)
        /\ arg.id \notin DOMAIN work.spans
    BY <1>0, <1>5, InsertRowTables DEF InsertRow
  <2>2. \A i \in DOMAIN work.spans : i \in DOMAIN work'.spans /\ work'.spans[i] = work.spans[i]
    BY <2>1 DEF Put
  <2> QED BY <1>0, <2>1, <2>2 DEF Extends, KeepsProjects, RowNamed
<1>6. CASE Propagate
  <2>1. work'.projects = work.projects /\ work'.traces = work.traces
    BY <1>0, <1>6, PropagateTables
  <2>2. totals["errors"] \in Nat BY <1>6 DEF TablesInv, Propagate
  <2>3. \A i \in DOMAIN work.spans :
          /\ i \in DOMAIN work'.spans
          /\ work'.spans[i].totals["errors"] >= work.spans[i].totals["errors"]
    BY <1>0, <1>6, <2>2, PropagateShows
  <2> QED BY <1>0, <2>1, <2>3 DEF Extends, KeepsProjects, RowNamed
<1> QED BY <1>1, <1>2, <1>3, <1>4, <1>5, <1>6 DEF Statements, TxStep

\* The open transaction always extends what is committed, so that a commit
\* does.
LEMMA NextGrowth ==
  ASSUME BatchTyped, BatchTyped', TablesInv, GrowthInv, [BatchNext]_<<vars, batchVars>>
  PROVE  GrowthInv' /\ Extends(db, db')
<1>0. /\ AreTables(db) /\ AreTables(work) /\ AreTables(save)
      /\ AreTables(db') /\ AreTables(work')
      /\ Extends(db, db) /\ Extends(work, work) /\ Extends(db', db')
  BY ExtendsOrder DEF BatchTyped, TypeOK
<1>1. CASE Statements
  <2>1. UNCHANGED <<db, save>> /\ (InBatch' <=> InBatch) /\ pc # "idle"
    BY <1>1, StatementTables DEF Statements, InBatch
  <2>2. Extends(db, work')
    BY <1>0, <1>1, StatementExtends, ExtendsOrder DEF GrowthInv
  <2> QED BY <1>0, <2>1, <2>2 DEF GrowthInv
<1>2. CASE Starts
  <2>1. (InBatch' <=> InBatch) /\ db' = db BY <1>2 DEF Starts, InBatch
  <2> QED BY <1>0, <1>2, <2>1 DEF Starts, GrowthInv
<1>3. CASE Drops BY <1>0, <1>3 DEF Drops, GrowthInv
<1>4. CASE Commits BY <1>0, <1>4 DEF Commits, GrowthInv
<1>5. CASE Releases BY <1>0, <1>5 DEF Releases, GrowthInv
<1>6. CASE Returns BY <1>0, <1>6 DEF Returns, GrowthInv
<1>7. CASE Stutters
  BY <1>0, <1>7 DEF Stutters, vars, batchVars, GrowthInv, InBatch
<1> QED BY <1>1, <1>2, <1>3, <1>4, <1>5, <1>6, <1>7, Shapes

\* No commit, of a span or of a batch, takes back what an earlier one showed
\* to readers: projects keep their rowids, traces their project and session,
\* and ranges and error counts only grow.
THEOREM BatchOnlyGrows == BatchSpec => OnlyGrows
<1> DEFINE Inv == BatchTyped /\ TablesInv /\ GrowthInv
<1>1. BatchInit => Inv
  <2> SUFFICES ASSUME BatchInit PROVE Inv
    OBVIOUS
  <2>1. BatchTyped /\ TablesInv BY BatchInitTyped, InitTables
  <2>2. db = work /\ ~InBatch BY DEF BatchInit, Init, InBatch
  <2>3. Extends(db, db) BY <2>1, ExtendsOrder DEF BatchTyped, TypeOK
  <2> QED BY <2>1, <2>2, <2>3 DEF GrowthInv
<1>2. Inv /\ [BatchNext]_<<vars, batchVars>> => Inv'
  <2> SUFFICES ASSUME Inv, [BatchNext]_<<vars, batchVars>> PROVE Inv'
    OBVIOUS
  <2>1. BatchTyped' /\ TablesInv' BY BatchNextTyped, NextTables
  <2> QED BY <2>1, NextGrowth
<1> DEFINE Grows ==
      /\ IsPrefix(db.projects, db'.projects)
      /\ \A t \in DOMAIN db.traces :
            /\ t \in DOMAIN db'.traces
            /\ db'.traces[t].project = db.traces[t].project
            /\ db'.traces[t].session = db.traces[t].session
            /\ ~TextBefore(db.traces[t].start, db'.traces[t].start)
            /\ ~TextBefore(db'.traces[t].end, db.traces[t].end)
      /\ \A i \in DOMAIN db.spans :
            /\ i \in DOMAIN db'.spans
            /\ db'.spans[i].totals.errors >= db.spans[i].totals.errors
<1>3. Inv /\ [BatchNext]_<<vars, batchVars>> => [Grows]_vars
  <2> SUFFICES ASSUME Inv, [BatchNext]_<<vars, batchVars>> PROVE Grows
    OBVIOUS
  <2>1. BatchTyped' BY BatchNextTyped
  <2>2. Extends(db, db') BY <2>1, NextGrowth
  <2> DEFINE s == db.projects  t == db'.projects
  <2>3. s \in Seq(Projects) /\ t \in Seq(Projects)
    BY <2>1 DEF BatchTyped, TypeOK, AreTables
  <2>4. \A i \in DOMAIN s : i \in DOMAIN t /\ t[i] = s[i]
    BY <2>2 DEF Extends, KeepsProjects, RowNamed
  <2> HIDE DEF s, t
  <2>5. IsPrefix(s, t)
    <3>1. Len(s) \in Nat /\ Len(t) \in Nat /\ DOMAIN s = 1..Len(s) /\ DOMAIN t = 1..Len(t)
      BY <2>3, LenProperties
    <3>2. Len(s) <= Len(t)
      <4>1. CASE Len(s) = 0 BY <3>1, <4>1
      <4>2. CASE Len(s) # 0
        <5>1. Len(s) \in DOMAIN s BY <3>1, <4>2
        <5>2. Len(s) \in 1..Len(t) BY <2>4, <3>1, <5>1
        <5> QED BY <3>1, <5>2
      <4> QED BY <4>1, <4>2
    <3>3. SubSeq(s, 1, Len(s)) = SubSeq(t, 1, Len(s))
      <4>1. SubSeq(s, 1, Len(s)) = [i \in 1..Len(s) |-> s[i]]
        BY <2>3, <3>1
      <4>2. SubSeq(t, 1, Len(s)) = [i \in 1..Len(s) |-> t[i]]
        BY <2>3, <3>1
      <4> QED BY <2>4, <3>1, <4>1, <4>2
    <3> QED BY <3>2, <3>3 DEF IsPrefix
  <2> QED BY <2>2, <2>5 DEF Extends, s, t
<1> QED BY <1>1, <1>2, <1>3, PTL DEF BatchSpec, OnlyGrows
-----------------------------------------------------------------------------
(* Spans that come again. *)

\* A span that comes again under its id is the same span.
UniqueIds == \A s, r \in Spans : s.id = r.id => s = r

\* InsertSpan with a span that is stored finds everything as it wants it.
RepeatInv ==
    ~InBatch /\ pc # "idle" /\ arg.id \in DOMAIN db.spans
        => work = db /\ pc # "propagate"

\* A stored span's trace row covers it already: upsertTrace writes nothing.
LEMMA WidenedAgain ==
  ASSUME UniqueIds, TypeOK, TracesOf(db.traces, acked), arg \in acked
  PROVE  Widened(db.traces[arg.trace], arg) = db.traces[arg.trace]
<1> DEFINE row == db.traces[arg.trace]
<1>1. arg.trace \in DOMAIN db.traces /\ ~TextBefore(arg.start, row.start)
      /\ ~TextBefore(row.end, arg.end)
  BY DEF TracesOf
<1>2. row \in TraceRow BY <1>1 DEF TypeOK, AreTables, IsTable
<1> HIDE DEF row
<1>3. TextMin(row.start, arg.start) = row.start /\ TextMax(row.end, arg.end) = row.end
  BY <1>1 DEF TextMin, TextMax
<1>4. Widened(row, arg) = [row EXCEPT !.start = row.start, !.end = row.end]
  BY <1>2, <1>3 DEF Widened, TraceRow
<1>5. [row EXCEPT !.start = row.start, !.end = row.end] = row
  BY <1>2 DEF TraceRow
<1> QED BY <1>4, <1>5 DEF row

\* No statement of insertSpanTx writes anything for a span that is stored.
LEMMA RepeatStatement ==
  ASSUME UniqueIds, BatchTyped, TablesInv, FilingInv, Statements, work = db,
         ~InBatch, arg.id \in DOMAIN db.spans, pc # "propagate"
  PROVE  work' = work /\ pc' # "propagate"
<1>0. TypeOK BY DEF BatchTyped
<1>1. arg \in acked
  <2>1. \E s \in acked : s.id = arg.id BY DEF TablesInv, SpansOf
  <2> QED BY <2>1, <1>0 DEF UniqueIds, TypeOK
<1>2. arg.project \in Range(work.projects)
  BY <1>1 DEF FilingInv, FiledBy, Range
<1>3. arg.trace \in DOMAIN work.traces
  BY <1>1 DEF TablesInv, TracesOf
<1>4. CASE WidenTrace
  <2> DEFINE row == work.traces[arg.trace]
  <2>1. work' = [work EXCEPT !.traces[arg.trace] = Widened(@, arg)] /\ pc' = "insert"
    BY <1>4 DEF WidenTrace
  <2>2. Widened(row, arg) = row BY <1>0, <1>1, WidenedAgain DEF TablesInv
  <2>3. [work.traces EXCEPT ![arg.trace] = row] = work.traces
    BY <1>0, <1>3 DEF TypeOK, AreTables, IsTable
  <2>4. work' = [work EXCEPT !.traces = [work.traces EXCEPT ![arg.trace] = Widened(row, arg)]]
    BY <2>1
  <2> HIDE DEF row
  <2>5. work' = [work EXCEPT !.traces = work.traces] BY <2>2, <2>3, <2>4
  <2> QED BY <1>0, <2>1, <2>5 DEF TypeOK, AreTables
<1> QED BY <1>2, <1>3, <1>4 DEF Statements, TxStep, Serialize, CachedProject,
        StoredProject, CreateProject, CreateTrace, InsertRow, DuplicateRow, Propagate

\* A stored span stays repeatable, and its transaction changes nothing.
LEMMA NextRepeat ==
  ASSUME UniqueIds, BatchTyped, TablesInv, FilingInv, RepeatInv,
         [BatchNext]_<<vars, batchVars>>
  PROVE  /\ RepeatInv'
         /\ pc = "commit" /\ arg.id \in DOMAIN db.spans => db' = db
<1>1. CASE Statements
  <2>1. /\ UNCHANGED <<db, arg>> /\ (InBatch' <=> InBatch) /\ pc # "idle"
    BY <1>1, StatementTables DEF Statements, InBatch
  <2>2. ~InBatch /\ arg.id \in DOMAIN db.spans => work' = db /\ pc' # "propagate"
    BY <1>1, <2>1, RepeatStatement DEF RepeatInv
  <2> QED BY <2>1, <2>2 DEF RepeatInv
<1>2. CASE Starts
  <2>1. InBatch' <=> InBatch BY <1>2 DEF Starts, InBatch
  <2> QED BY <1>2, <2>1 DEF Starts, RepeatInv
<1>3. CASE Drops \/ Releases \/ Returns
  BY <1>3 DEF Drops, Releases, Returns, RepeatInv
<1>4. CASE Commits BY <1>4 DEF Commits, RepeatInv
<1>5. CASE Stutters
  BY <1>5 DEF Stutters, vars, batchVars, RepeatInv, InBatch
<1> QED BY <1>1, <1>2, <1>3, <1>4, <1>5, Shapes

\* "Duplicate span: everything above was a no-op for state": the transaction
\* of a span that is stored already changes no table, as long as an id names
\* one span and no failure has left a wrong rowid in the cache.
THEOREM DuplicatesChangeNothing ==
  ASSUME UniqueIds, ~FaultOnNew
  PROVE  BatchSpec => DuplicateIsNoOp
<1> DEFINE Inv == BatchTyped /\ TablesInv /\ FilingInv /\ RepeatInv
<1>1. BatchInit => Inv
  <2>1. BatchInit => RepeatInv BY DEF BatchInit, Init, RepeatInv
  <2> QED BY <2>1, BatchInitTyped, InitTables, InitFiling
<1>2. Inv /\ [BatchNext]_<<vars, batchVars>> => Inv'
  BY BatchNextTyped, NextTables, NextFiling, NextRepeat
<1>3. Inv /\ [BatchNext]_<<vars, batchVars>> =>
        [pc = "commit" /\ arg.id \in DOMAIN db.spans => db' = db]_vars
  BY NextRepeat
<1> QED BY <1>1, <1>2, <1>3, PTL DEF BatchSpec, DuplicateIsNoOp
=============================================================================
