----------------------------- MODULE SpanBatch -----------------------------
(***************************************************************************)
(* InsertSpans: many spans in one transaction, each behind a savepoint     *)
(* that a failure returns to.  It runs insertSpanTx, whose statements are  *)
(* SpanStore's, on the connection that InsertSpan uses as well.            *)
(*                                                                         *)
(* Between two spans of the batch `pc` is "idle" and `items` is not empty; *)
(* at "commit" insertSpanTx has returned nil and the savepoint is to be    *)
(* released.                                                               *)
(***************************************************************************)
EXTENDS SpanStore

CONSTANT Batches   \* the batches a caller passes

ASSUME BatchesAssumption == Batches \subseteq Seq(Spans) \ {<<>>}

VARIABLES
    items,   \* the batch, <<>> when InsertSpans is not running
    pos,     \* the span of it that is next or being inserted
    save,    \* the tables at the savepoint
    errs     \* the positions whose errors are set

batchVars == <<items, pos, save, errs>>

InBatch == items # <<>>
-----------------------------------------------------------------------------
BatchInit ==
    /\ Init
    /\ items = <<>> /\ pos = 0 /\ save = EmptyTables /\ errs = {}

\* InsertSpans returns.
EndBatch == items' = <<>> /\ pos' = 0 /\ save' = EmptyTables /\ errs' = {}

\* db.BeginTx; when it fails nothing has changed.
BeginBatch(batch) ==
    /\ pc = "idle" /\ ~InBatch
    /\ items' = batch /\ pos' = 1
    /\ work' = db
    /\ UNCHANGED <<db, pc, arg, rowid, totals, cache, acked, save, errs>>

\* SAVEPOINT insert_span.
Savepoint ==
    /\ pc = "idle" /\ pos \in DOMAIN items
    /\ arg' = items[pos] /\ pc' = "serialize" /\ save' = work
    /\ UNCHANGED <<db, work, rowid, totals, cache, acked, items, pos, errs>>

\* insertSpanTx.
Inner ==
    /\ \/ Serialize
       \/ CachedProject \/ StoredProject \/ CreateProject
       \/ WidenTrace \/ CreateTrace
       \/ InsertRow \/ DuplicateRow
       \/ Propagate
    /\ UNCHANGED batchVars

\* RELEASE insert_span after a success.
Release ==
    /\ InBatch /\ pc = "commit"
    /\ pos' = pos + 1 /\ EndTx
    /\ UNCHANGED <<db, work, cache, acked, items, save, errs>>

\* The errors insertSpanTx returns; `before` are the tables a rollback leads to.
Errs(before) ==
    \/ pc = "serialize" /\ ~arg.marshals
    \/ /\ pc \in FaultSteps \ {"commit"}
       /\ Len(work.projects) > Len(before.projects) => FaultOnNew

\* Mutant: ROLLBACK, which takes the whole transaction back.
RollbackAll ==
    /\ InBatch /\ Errs(db)
    /\ work' = db
    /\ errs' = errs \cup {pos} /\ pos' = pos + 1 /\ EndTx
    /\ UNCHANGED <<db, cache, acked, items, save>>

\* ROLLBACK TO insert_span and its RELEASE; the error is this span's, and the
\* cache keeps what the span put into it.
RollbackTo ==
    /\ InBatch /\ Errs(save)
    /\ work' = save
    /\ errs' = errs \cup {pos} /\ pos' = pos + 1 /\ EndTx
    /\ UNCHANGED <<db, cache, acked, items, save>>

\* tx.Commit: the spans without an error are stored.
CommitBatch ==
    /\ InBatch /\ pc = "idle" /\ pos > Len(items)
    /\ db' = work
    /\ acked' = acked \cup {items[i] : i \in DOMAIN items \ errs}
    /\ EndBatch
    /\ UNCHANGED <<work, pc, arg, rowid, totals, cache>>

\* The commit fails, or the context is cancelled on the way to it, which
\* rolls back and fails every statement from there on: no error is nil.
CommitFails ==
    /\ InBatch /\ "commit" \in FaultSteps
    /\ CreatedProject => FaultOnNew
    /\ work' = db /\ EndTx /\ EndBatch
    /\ UNCHANGED <<db, cache, acked>>

BatchStatement == Savepoint \/ (InBatch /\ Inner) \/ Release \/ RollbackTo \/ CommitBatch

\* InsertSpan alone.
Single ==
    /\ ~InBatch
    /\ (\E s \in Spans : Begin(s)) \/ Statement \/ Fault
    /\ UNCHANGED batchVars

BatchNext ==
    \/ Single
    \/ \E batch \in Batches : BeginBatch(batch)
    \/ BatchStatement
    \/ CommitFails
    \/ Restart /\ EndBatch

BatchFairness ==
    /\ WF_<<vars, batchVars>>(~InBatch /\ Statement /\ UNCHANGED batchVars)
    /\ WF_<<vars, batchVars>>(BatchStatement)

BatchSpec == BatchInit /\ [][BatchNext]_<<vars, batchVars>> /\ BatchFairness
-----------------------------------------------------------------------------
(* Properties. *)

\* "nil entries for spans that persisted successfully": a span is stored if
\* and only if one of the calls it was passed to answered nil, whatever
\* failed before or after it in its batch.
AnswersAreTrue == {s.id : s \in acked} = DOMAIN db.spans
=============================================================================
