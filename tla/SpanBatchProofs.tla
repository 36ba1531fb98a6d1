-------------------------- MODULE SpanBatchProofs --------------------------
(***************************************************************************)
(* Theorems about SpanBatch, where InsertSpan and InsertSpans share the    *)
(* connection, for every set of spans, every batch and every failure.      *)
(*                                                                         *)
(* A savepoint makes a small transaction of each span: what SpanStore's    *)
(* statements do between Begin and Commit they do between Savepoint and    *)
(* Release, so the lemmas about them are used again, and what is new is    *)
(* the bookkeeping of the batch.                                           *)
(***************************************************************************)
EXTENDS SpanBatch, SpanStoreProofs

BatchTyped ==
    /\ TypeOK /\ AreTables(save)
    /\ items \in Seq(Spans) /\ pos \in Nat
    /\ InBatch => pos \in 1 .. Len(items) + 1
    /\ ~InBatch => pos = 0 /\ errs = {}
    /\ pc # "idle" /\ InBatch => pos \in DOMAIN items /\ arg = items[pos]
    /\ errs \subseteq 1 .. pos - 1

\* The statements of insertSpanTx are steps of InsertSpan too.
LEMMA InnerIsNext == Inner => Next /\ pc # "idle" /\ pc' # "idle" /\ UNCHANGED <<db, arg, acked, batchVars>>
BY DEF Inner, Next, Statement, Serialize, CachedProject, StoredProject,
       CreateProject, WidenTrace, CreateTrace, InsertRow, DuplicateRow, Propagate

\* InsertSpan alone makes only InsertSpan's steps.
LEMMA SingleIsNext == Single => Next /\ ~InBatch /\ UNCHANGED batchVars
BY DEF Single, Next

\* An idle connection is typed.
LEMMA BatchInitTyped == BatchInit => BatchTyped
BY InitTyped, EmptyTyped, EmptySeq DEF BatchInit, BatchTyped, InBatch

\* Every step of the batch keeps the types, and the place in the batch.
LEMMA BatchNextTyped ==
  BatchTyped /\ [BatchNext]_<<vars, batchVars>> => BatchTyped'
<1> SUFFICES ASSUME BatchTyped, [BatchNext]_<<vars, batchVars>> PROVE BatchTyped'
  OBVIOUS
<1> USE DEF Steps
<1>0. /\ Len(items) \in Nat /\ DOMAIN items = 1..Len(items)
      /\ \A i \in DOMAIN items : items[i] \in Spans
  BY LenProperties, ElementOfSeq DEF BatchTyped
<1>1. CASE Single
  BY <1>1, SingleIsNext, NextTyped DEF BatchTyped, batchVars, InBatch
<1>2. ASSUME NEW batch \in Batches, BeginBatch(batch) PROVE BatchTyped'
  <2>1. batch \in Seq(Spans) /\ batch # <<>> /\ Len(batch) \in Nat
    BY BatchesAssumption, LenProperties
  <2>2. TypeOK' BY <1>2 DEF BatchTyped, TypeOK, BeginBatch
  <2> QED BY <1>2, <2>1, <2>2 DEF BatchTyped, BeginBatch, InBatch
<1>3. CASE Savepoint
  <2>1. items # <<>> /\ items[pos] \in Spans BY <1>0, <1>3, EmptySeq DEF Savepoint
  <2>2. TypeOK' BY <1>3, <2>1 DEF BatchTyped, TypeOK, Savepoint
  <2> QED BY <1>0, <1>3, <2>1, <2>2 DEF BatchTyped, TypeOK, Savepoint, InBatch
<1>4. CASE InBatch /\ Inner
  BY <1>4, InnerIsNext, NextTyped DEF BatchTyped, batchVars, InBatch
<1>5. CASE Release
  <2>1. TypeOK' BY <1>5, EndTyped DEF BatchTyped, TypeOK, Release
  <2>2. pos \in DOMAIN items /\ pos' = pos + 1 /\ pc' = "idle"
        /\ UNCHANGED <<items, save, errs>>
    BY <1>5, EndTyped DEF BatchTyped, Release
  <2> QED BY <1>0, <1>5, <2>1, <2>2 DEF BatchTyped, Release, InBatch
<1>6. CASE RollbackTo
  <2>1. TypeOK' BY <1>6, EndTyped DEF BatchTyped, TypeOK, RollbackTo
  <2>2. pos \in DOMAIN items /\ pos' = pos + 1 /\ pc' = "idle"
        /\ errs' = errs \cup {pos} /\ UNCHANGED <<items, save>>
    <3>1. pc # "idle" BY <1>6, FaultAssumption DEF RollbackTo, Errs
    <3> QED BY <1>6, <3>1, EndTyped DEF BatchTyped, RollbackTo
  <2> QED BY <1>0, <1>6, <2>1, <2>2 DEF BatchTyped, RollbackTo, InBatch
<1>7. CASE CommitBatch
  <2>1. TypeOK'
    <3>1. acked' \subseteq Spans
      BY <1>0, <1>7 DEF BatchTyped, TypeOK, CommitBatch
    <3> QED BY <1>7, <3>1 DEF BatchTyped, TypeOK, CommitBatch
  <2> QED BY <1>7, <2>1, EmptyTyped, EmptySeq
      DEF BatchTyped, CommitBatch, EndBatch, InBatch
<1>8. CASE CommitFails \/ (Restart /\ EndBatch)
  <2>1. /\ work' = db /\ EndTx /\ EndBatch /\ UNCHANGED <<db, acked>>
        /\ cache' = cache \/ cache' = NoRows
    BY <1>8 DEF CommitFails, Restart
  <2>2. IsTable(cache', Projects, Nat)
    BY <2>1 DEF BatchTyped, TypeOK, IsTable, NoRows
  <2>3. TypeOK' BY <2>1, <2>2, EndTyped DEF BatchTyped, TypeOK
  <2>4. pc' = "idle" /\ items' = <<>> /\ pos' = 0 /\ save' = EmptyTables /\ errs' = {}
    BY <2>1, EndTyped DEF EndBatch
  <2> QED BY <2>3, <2>4, EmptyTyped, EmptySeq DEF BatchTyped, InBatch
<1>9. CASE UNCHANGED <<vars, batchVars>>
  BY <1>9 DEF BatchTyped, TypeOK, vars, batchVars, InBatch
<1> QED BY <1>1, <1>2, <1>3, <1>4, <1>5, <1>6, <1>7, <1>8, <1>9
    DEF BatchNext, BatchStatement

\* Alone or in batches, the tables, the cache and the locals keep their types.
THEOREM BatchTypeCorrect == BatchSpec => []TypeOK
<1>1. BatchTyped => TypeOK BY DEF BatchTyped
<1> QED BY <1>1, BatchInitTyped, BatchNextTyped, PTL DEF BatchSpec
-----------------------------------------------------------------------------
(* The counters. *)

AllBalanced(rows) == \A i \in DOMAIN rows : BalancedRow(rows, i, {})

\* Rows are balanced at the savepoint too; inside insertSpanTx they are what
\* they are in a transaction of InsertSpan.
BatchBalanced ==
    /\ AllBalanced(db.spans) /\ AllBalanced(save.spans)
    /\ pc # "propagate" => AllBalanced(work.spans)
    /\ WorkBalanced \/ (InBatch /\ pc = "idle")

\* An empty store is balanced.
LEMMA BatchInitBalanced == BatchInit => BatchBalanced
<1> SUFFICES ASSUME BatchInit PROVE BatchBalanced
  OBVIOUS
<1>1. DOMAIN EmptyTables.spans = {} BY DEF EmptyTables, NoRows
<1>2. db = EmptyTables /\ work = db /\ save = EmptyTables
  BY DEF BatchInit, Init
<1> QED BY <1>1, <1>2, InitBalanced DEF BatchInit, BatchBalanced, AllBalanced

\* A rollback to the savepoint and a commit of what stands are balanced, as
\* every statement between them is.
LEMMA BatchNextBalanced ==
  BatchTyped /\ BatchBalanced /\ [BatchNext]_<<vars, batchVars>> => BatchBalanced'
<1> SUFFICES ASSUME BatchTyped, BatchBalanced, [BatchNext]_<<vars, batchVars>>
             PROVE  BatchBalanced'
  OBVIOUS
<1>0. WorkBalanced => AllBalanced(db.spans) /\ (pc # "propagate" => AllBalanced(work.spans))
  BY DEF WorkBalanced, AllBalanced
<1>1. CASE Single \/ (InBatch /\ Inner)
  <2>1. Next /\ UNCHANGED batchVars /\ (~InBatch \/ pc # "idle")
    BY <1>1, SingleIsNext, InnerIsNext
  <2>2. WorkBalanced BY <2>1 DEF BatchBalanced
  <2>3. WorkBalanced' BY <2>1, <2>2, NextBalanced DEF BatchTyped
  <2> QED BY <2>1, <2>3 DEF WorkBalanced, BatchBalanced, AllBalanced, batchVars
<1>2. ASSUME NEW batch \in Batches, BeginBatch(batch) PROVE BatchBalanced'
  <2>1. batch # <<>> BY BatchesAssumption
  <2> QED BY <1>2, <2>1 DEF BatchBalanced, BeginBatch, InBatch
<1>3. CASE Savepoint
  <2>1. /\ pc = "idle" /\ pc' = "serialize" /\ save' = work /\ UNCHANGED <<db, work>>
    BY <1>3 DEF Savepoint
  <2>2. WorkBalanced' BY <2>1 DEF BatchBalanced, AllBalanced, WorkBalanced
  <2> QED BY <2>1, <2>2 DEF BatchBalanced
<1>4. CASE Release
  <2>1. /\ pc = "commit" /\ pc' = "idle" /\ InBatch' /\ UNCHANGED <<db, work, save>>
    BY <1>4, EndTyped DEF Release, InBatch
  <2> QED BY <2>1 DEF BatchBalanced
<1>5. CASE RollbackTo
  <2>1. work' = save /\ pc' = "idle" /\ InBatch' /\ UNCHANGED <<db, save>>
    BY <1>5, EndTyped DEF RollbackTo, InBatch
  <2> QED BY <2>1 DEF BatchBalanced
<1>6. CASE CommitBatch \/ CommitFails \/ (Restart /\ EndBatch)
  <2>1. /\ work' = db' /\ pc' = "idle" /\ save' = EmptyTables
        /\ db' = db \/ (db' = work /\ pc = "idle")
    BY <1>6, EndTyped DEF CommitBatch, CommitFails, Restart, EndBatch
  <2>2. DOMAIN EmptyTables.spans = {} BY DEF EmptyTables, NoRows
  <2>3. AllBalanced(db'.spans) BY <2>1 DEF BatchBalanced
  <2>4. WorkBalanced' BY <2>1, <2>3 DEF WorkBalanced, AllBalanced
  <2> QED BY <2>1, <2>2, <2>3, <2>4 DEF BatchBalanced, AllBalanced
<1>7. CASE UNCHANGED <<vars, batchVars>>
  BY <1>7 DEF BatchBalanced, AllBalanced, WorkBalanced, vars, batchVars, InBatch
<1> QED BY <1>1, <1>2, <1>3, <1>4, <1>5, <1>6, <1>7 DEF BatchNext, BatchStatement

\* InsertSpan and InsertSpans together keep the cumulative counters right,
\* whatever span of a batch fails.
THEOREM BatchCountersBalance == BatchSpec => []Balanced
<1>1. BatchBalanced => Balanced
  <2>1. \A i, t : Children(db.spans, t, i) \ {} = Children(db.spans, t, i)
    OBVIOUS
  <2> QED BY <2>1 DEF BatchBalanced, AllBalanced, Balanced, BalancedRow
<1>2. BatchInit => BatchTyped /\ BatchBalanced
  BY BatchInitTyped, BatchInitBalanced
<1>3. BatchTyped /\ BatchBalanced /\ [BatchNext]_<<vars, batchVars>>
        => (BatchTyped /\ BatchBalanced)'
  BY BatchNextTyped, BatchNextBalanced
<1> QED BY <1>1, <1>2, <1>3, PTL DEF BatchSpec
-----------------------------------------------------------------------------
(* The answers. *)

Ids(S) == {s.id : s \in S}

\* The spans whose row the open transaction holds, but for the one that is
\* being inserted.
Before == acked \cup {items[i] : i \in (1 .. pos - 1) \ errs}

Landed == pc \in {"propagate", "commit"}

\* The rows of the transaction are those of the stored spans, of the spans of
\* the batch without an error, and of the one whose INSERT is done.
AnswersInv ==
    /\ DOMAIN db.spans = Ids(acked)
    /\ DOMAIN work.spans = IF Landed THEN Ids(Before) \cup {arg.id} ELSE Ids(Before)
    /\ InBatch /\ pc # "idle" => DOMAIN save.spans = Ids(Before)

\* No row, no answer.
LEMMA InitAnswers == BatchInit => AnswersInv
BY DEF BatchInit, Init, AnswersInv, EmptyTables, NoRows, Ids, Before, Landed, InBatch

\* What the statements of insertSpanTx do to the ids of the rows.
LEMMA InnerRows ==
  ASSUME TypeOK,
         \/ Serialize
         \/ CachedProject \/ StoredProject \/ CreateProject
         \/ WidenTrace \/ CreateTrace
         \/ InsertRow \/ DuplicateRow
         \/ Propagate
  PROVE  /\ UNCHANGED <<db, arg, acked>> /\ pc # "idle" /\ pc' # "idle"
         /\ \/ Landed' = Landed /\ DOMAIN work'.spans = DOMAIN work.spans
            \/ ~Landed /\ Landed' /\ DOMAIN work'.spans = DOMAIN work.spans \cup {arg.id}
<1>1. CASE Serialize \/ CachedProject \/ StoredProject
  BY <1>1 DEF Serialize, CachedProject, StoredProject, Landed
<1>2. CASE CreateProject
  BY <1>2, CreateProjectTables DEF CreateProject, Landed
<1>3. CASE WidenTrace
  BY <1>3, WidenTraceTables DEF TypeOK, WidenTrace, Landed
<1>4. CASE CreateTrace
  BY <1>4, CreateTraceTables DEF CreateTrace, Landed
<1>5. CASE InsertRow
  <2>1. DOMAIN work'.spans = DOMAIN work.spans \cup {arg.id}
    BY <1>5, InsertRowTables DEF Put
  <2> QED BY <1>5, <2>1 DEF InsertRow, Landed
<1>6. CASE DuplicateRow
  BY <1>6 DEF DuplicateRow, Landed
<1>7. CASE Propagate
  BY <1>7, PropagateTables DEF Propagate, Landed, Raised
<1> QED BY <1>1, <1>2, <1>3, <1>4, <1>5, <1>6, <1>7

\* An error takes back the rows of its span and no others; the answers say so.
LEMMA NextAnswers ==
  BatchTyped /\ AnswersInv /\ [BatchNext]_<<vars, batchVars>> => AnswersInv'
<1> SUFFICES ASSUME BatchTyped, AnswersInv, [BatchNext]_<<vars, batchVars>>
             PROVE  AnswersInv'
  OBVIOUS
<1>0. ~InBatch => Before = acked /\ pos = 0 /\ errs = {}
  BY DEF BatchTyped, Before
<1>1. CASE Single
  <2>1. ~InBatch /\ UNCHANGED batchVars BY <1>1 DEF Single
  <2>2. ~InBatch' /\ Before' = acked' BY <2>1, <1>0 DEF batchVars, InBatch, Before
  <2>3. ASSUME NEW s \in Spans, Begin(s) PROVE AnswersInv'
    BY <2>1, <2>2, <2>3, <1>0 DEF Begin, AnswersInv, Landed, Ids
  <2>4. CASE \/ Serialize
             \/ CachedProject \/ StoredProject \/ CreateProject
             \/ WidenTrace \/ CreateTrace
             \/ InsertRow \/ DuplicateRow
             \/ Propagate
    <3>1. /\ UNCHANGED <<db, arg, acked>>
          /\ \/ Landed' = Landed /\ DOMAIN work'.spans = DOMAIN work.spans
             \/ ~Landed /\ Landed' /\ DOMAIN work'.spans = DOMAIN work.spans \cup {arg.id}
      BY <2>4, InnerRows DEF BatchTyped
    <3>2. Before' = Before BY <2>1, <2>2, <3>1, <1>0
    <3>3. CASE Landed' = Landed /\ DOMAIN work'.spans = DOMAIN work.spans
      BY <2>2, <3>1, <3>2, <3>3 DEF AnswersInv
    <3>4. CASE ~Landed /\ Landed' /\ DOMAIN work'.spans = DOMAIN work.spans \cup {arg.id}
      BY <2>2, <3>1, <3>2, <3>4 DEF AnswersInv
    <3> QED BY <3>1, <3>3, <3>4
  <2>5. CASE Commit
    <3>1. /\ Landed /\ ~Landed' /\ db' = work /\ work' = work
          /\ acked' = acked \cup {arg}
      BY <2>5 DEF Commit, EndTx, Landed
    <3>2. Ids(acked') = Ids(acked) \cup {arg.id} BY <3>1 DEF Ids
    <3> QED BY <2>1, <2>2, <3>1, <3>2, <1>0 DEF AnswersInv
  <2>6. CASE SerializeFails \/ Fault
    <3>1. work' = db /\ ~Landed' /\ UNCHANGED <<db, acked>>
      BY <2>6 DEF SerializeFails, Fault, Rollback, EndTx, Landed
    <3> QED BY <2>1, <2>2, <3>1, <1>0 DEF AnswersInv
  <2> QED BY <1>1, <2>3, <2>4, <2>5, <2>6 DEF Single, Statement
<1>2. ASSUME NEW batch \in Batches, BeginBatch(batch) PROVE AnswersInv'
  <2>1. /\ ~InBatch /\ pc' = "idle" /\ pos' = 1 /\ work' = db
        /\ UNCHANGED <<db, acked, errs>>
    BY <1>2 DEF BeginBatch
  <2>2. Before' = acked BY <2>1, <1>0 DEF Before
  <2> QED BY <2>1, <2>2, <1>0 DEF AnswersInv, Landed
<1>3. CASE Savepoint
  <2>1. /\ pc = "idle" /\ pc' = "serialize" /\ save' = work
        /\ UNCHANGED <<db, work, acked, items, pos, errs>>
    BY <1>3 DEF Savepoint
  <2>2. Before' = Before BY <2>1 DEF Before
  <2> QED BY <2>1, <2>2 DEF AnswersInv, Landed
<1>4. CASE InBatch /\ Inner
  <2>1. UNCHANGED batchVars BY <1>4 DEF Inner
  <2>2. UNCHANGED <<db, arg, acked>> /\ pc # "idle" /\ pc' # "idle"
    BY <1>4, InnerIsNext
  <2>3. Before' = Before BY <2>1, <2>2 DEF Before, batchVars
  <2>4. \/ Landed' = Landed /\ DOMAIN work'.spans = DOMAIN work.spans
        \/ ~Landed /\ Landed' /\ DOMAIN work'.spans = DOMAIN work.spans \cup {arg.id}
    BY <1>4, InnerRows DEF BatchTyped, Inner
  <2>5. save' = save /\ (InBatch' <=> InBatch) BY <2>1 DEF batchVars, InBatch
  <2>6. CASE Landed' = Landed /\ DOMAIN work'.spans = DOMAIN work.spans
    BY <2>2, <2>3, <2>5, <2>6 DEF AnswersInv
  <2>7. CASE ~Landed /\ Landed' /\ DOMAIN work'.spans = DOMAIN work.spans \cup {arg.id}
    BY <2>2, <2>3, <2>5, <2>7 DEF AnswersInv
  <2> QED BY <2>4, <2>6, <2>7
<1>5. CASE Release
  <2>1. /\ InBatch /\ Landed /\ pc # "idle" /\ pc' = "idle" /\ pos' = pos + 1
        /\ UNCHANGED <<db, work, acked, items, save, errs>>
    BY <1>5, EndTyped DEF Release, Landed
  <2>2. pos \in Nat \ {0} /\ arg = items[pos] /\ pos \notin errs
    BY <2>1 DEF BatchTyped
  <2>3. (1 .. pos' - 1) \ errs = ((1 .. pos - 1) \ errs) \cup {pos} BY <2>1, <2>2
  <2>4. Before' = Before \cup {arg} BY <2>1, <2>2, <2>3 DEF Before
  <2>5. Ids(Before') = Ids(Before) \cup {arg.id} BY <2>4 DEF Ids
  <2>6. DOMAIN work'.spans = Ids(Before) \cup {arg.id} BY <2>1 DEF AnswersInv
  <2>7. DOMAIN db'.spans = Ids(acked') BY <2>1 DEF AnswersInv
  <2>8. ~Landed' BY <2>1 DEF Landed
  <2> QED BY <2>1, <2>5, <2>6, <2>7, <2>8 DEF AnswersInv
<1>6. CASE RollbackTo
  <2>1. /\ InBatch /\ work' = save /\ pc # "idle" /\ pc' = "idle"
        /\ pos' = pos + 1 /\ errs' = errs \cup {pos}
        /\ UNCHANGED <<db, acked, items, save>>
    BY <1>6, EndTyped, FaultAssumption DEF RollbackTo, Errs, Steps
  <2>2. pos \in Nat \ {0} BY <2>1 DEF BatchTyped
  <2>3. (1 .. pos' - 1) \ errs' = (1 .. pos - 1) \ errs BY <2>1, <2>2
  <2>4. Before' = Before BY <2>1, <2>3 DEF Before
  <2>5. ~Landed' BY <2>1 DEF Landed
  <2> QED BY <2>1, <2>4, <2>5 DEF AnswersInv
<1>7. CASE CommitBatch
  <2>1. /\ pc = "idle" /\ pc' = "idle" /\ pos > Len(items) /\ InBatch
        /\ db' = work /\ work' = work /\ pos' = 0 /\ errs' = {} /\ items' = <<>>
        /\ acked' = acked \cup {items[i] : i \in DOMAIN items \ errs}
    BY <1>7 DEF CommitBatch, EndBatch
  <2>2. Len(items) \in Nat /\ DOMAIN items = 1 .. Len(items) /\ pos = Len(items) + 1
    BY <2>1, LenProperties DEF BatchTyped
  <2>3. DOMAIN items = 1 .. pos - 1 BY <2>2
  <2>4. Before = acked' BY <2>1, <2>3 DEF Before
  <2>5. Before' = acked' BY <2>1 DEF Before
  <2>6. ~Landed /\ ~Landed' /\ ~InBatch' BY <2>1 DEF Landed, InBatch
  <2> QED BY <2>1, <2>4, <2>5, <2>6 DEF AnswersInv
<1>8. CASE CommitFails \/ (Restart /\ EndBatch)
  <2>1. /\ work' = db /\ pc' = "idle" /\ pos' = 0 /\ errs' = {} /\ items' = <<>>
        /\ UNCHANGED <<db, acked>>
    BY <1>8, EndTyped DEF CommitFails, Restart, EndBatch
  <2>2. Before' = acked BY <2>1 DEF Before
  <2> QED BY <2>1, <2>2 DEF AnswersInv, Landed
<1>9. CASE UNCHANGED <<vars, batchVars>>
  <2>1. UNCHANGED <<db, work, pc, arg, acked, items, pos, save, errs>>
    BY <1>9 DEF vars, batchVars
  <2>2. Before' = Before /\ Landed' = Landed /\ InBatch' = InBatch
    BY <2>1 DEF Before, Landed, InBatch
  <2> QED BY <2>1, <2>2 DEF AnswersInv
<1> QED BY <1>1, <1>2, <1>3, <1>4, <1>5, <1>6, <1>7, <1>8, <1>9
    DEF BatchNext, BatchStatement

\* A span is stored if and only if a call it was passed to, InsertSpan or
\* InsertSpans, answered nil for it.
THEOREM BatchAnswersAreTrue == BatchSpec => []AnswersAreTrue
<1>1. AnswersInv => AnswersAreTrue BY DEF AnswersInv, AnswersAreTrue, Ids
<1>2. BatchInit => BatchTyped /\ AnswersInv BY BatchInitTyped, InitAnswers
<1>3. BatchTyped /\ AnswersInv /\ [BatchNext]_<<vars, batchVars>>
        => (BatchTyped /\ AnswersInv)'
  BY BatchNextTyped, NextAnswers
<1> QED BY <1>1, <1>2, <1>3, PTL DEF BatchSpec
=============================================================================
