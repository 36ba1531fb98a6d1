------------------------------- MODULE Ingest -------------------------------
(***************************************************************************)
(* The ingestion path of the running server: the OTLP handlers that decode *)
(* a request and hand its spans to the batcher (collector.Handler,         *)
(* Batcher.AddAll), the batcher's channel and its single writer goroutine  *)
(* (Batcher.loop, Batcher.flush), and the main goroutine that serves,      *)
(* shuts the HTTP server down, closes the batcher and exits (run,          *)
(* Batcher.Close, Server.Shutdown).                                        *)
(*                                                                         *)
(* A span in flight is the pair <<r, i>>: the i-th span of request r.  A   *)
(* client's retry is a request of its own; that the store ignores the      *)
(* spans it has is SpanStore's matter.  One InsertSpan is one step here,   *)
(* which stores the span or fails: SpanStore shows that it is one          *)
(* transaction.                                                            *)
(***************************************************************************)
EXTENDS Naturals, Sequences, SequencesExt, FiniteSets

CONSTANTS
    Requests,    \* export requests
    Size,        \* how many spans a request carries
    Malformed,   \* requests that are refused with a 4xx status
    Capacity,    \* bufferCapacity
    FlushSize    \* flushSize

ASSUME SizeAssumption == Size \in [Requests -> Nat]
ASSUME MalformedAssumption == Malformed \subseteq Requests
ASSUME CapacityAssumption == Capacity \in Nat \ {0}
ASSUME FlushSizeAssumption == FlushSize \in Nat \ {0}

VARIABLES
    handler,  \* what each request's handler goroutine is doing
    sent,     \* how many of its spans the handler has put in the channel
    ch,       \* the spans in the channel's buffer
    closed,   \* has Close closed the channel?
    batch,    \* the writer's slice
    written,  \* how many spans of the slice flush has been through
    writer,   \* where the writer goroutine is
    main,     \* where the main goroutine is
    log,      \* history: the spans given to InsertSpan, in order
    failed    \* history: the spans InsertSpan returned an error for

vars == <<handler, sent, ch, closed, batch, written, writer, main, log, failed>>

\* The writer selects, is in a flush of the loop, in the last flush, or gone.
WriterStates == {"select", "flush", "drain", "exited"}

\* Main serves; waits in Shutdown; is about to call Close after Shutdown or
\* after a listener error; waits for the writer after closing the channel on
\* either path; has returned; or the process was killed.
MainStates == {"serving", "shutdown", "stopped", "broken",
               "draining", "drainingBroken", "exited", "crashed"}

HandlerStates == {"none", "reading", "adding", "acked", "rejected", "panicked"}

Items == {x \in Requests \X Nat : x[2] \in 1..Size[x[1]]}

Running == main \notin {"exited", "crashed"}

\* Connections that are open go on bringing requests until Shutdown is
\* called; on a listener error it never is.
Accepting == main \in {"serving", "broken", "drainingBroken"}

Active(r) == handler[r] \in {"reading", "adding"}
-----------------------------------------------------------------------------
Init ==
    /\ handler = [r \in Requests |-> "none"]
    /\ sent = [r \in Requests |-> 0]
    /\ ch = <<>> /\ closed = FALSE
    /\ batch = <<>> /\ written = 0 /\ writer = "select"
    /\ main = "serving"
    /\ log = <<>> /\ failed = {}

(* The handlers. *)

Arrive(r) ==
    /\ Accepting /\ handler[r] = "none"
    /\ handler' = [handler EXCEPT ![r] = "reading"]
    /\ UNCHANGED <<sent, ch, closed, batch, written, writer, main, log, failed>>

\* The early returns with 405, 415 and 422: nothing has been enqueued.
Reject(r) ==
    /\ Running /\ handler[r] = "reading" /\ r \in Malformed
    /\ handler' = [handler EXCEPT ![r] = "rejected"]
    /\ UNCHANGED <<sent, ch, closed, batch, written, writer, main, log, failed>>

\* The whole body is read and decoded before the first span is enqueued.
Decode(r) ==
    /\ Running /\ handler[r] = "reading" /\ r \notin Malformed
    /\ handler' = [handler EXCEPT ![r] = "adding"]
    /\ UNCHANGED <<sent, ch, closed, batch, written, writer, main, log, failed>>

\* Mutant: the spans of a request counted from zero.
SendFromZero(r) ==
    /\ Running /\ handler[r] = "adding" /\ sent[r] < Size[r]
    /\ ~closed /\ Len(ch) < Capacity
    /\ ch' = Append(ch, <<r, sent[r]>>)
    /\ sent' = [sent EXCEPT ![r] = @ + 1]
    /\ UNCHANGED <<handler, closed, batch, written, writer, main, log, failed>>

\* AddAll: b.ch <- p, which blocks while the buffer is full.
Send(r) ==
    /\ Running /\ handler[r] = "adding" /\ sent[r] < Size[r]
    /\ ~closed /\ Len(ch) < Capacity
    /\ ch' = Append(ch, <<r, sent[r] + 1>>)
    /\ sent' = [sent EXCEPT ![r] = @ + 1]
    /\ UNCHANGED <<handler, closed, batch, written, writer, main, log, failed>>

\* A send on a closed channel panics, also one that was blocked when the
\* channel was closed; net/http recovers and drops the connection.
Panic(r) ==
    /\ Running /\ handler[r] = "adding" /\ sent[r] < Size[r]
    /\ closed
    /\ handler' = [handler EXCEPT ![r] = "panicked"]
    /\ UNCHANGED <<sent, ch, closed, batch, written, writer, main, log, failed>>

\* Mutant: AddAll started in a goroutine, the answer not waiting for it.
AcknowledgeAtOnce(r) ==
    /\ Running /\ handler[r] = "adding"
    /\ handler' = [handler EXCEPT ![r] = "acked"]
    /\ UNCHANGED <<sent, ch, closed, batch, written, writer, main, log, failed>>

\* AddAll has returned: status 200.
Acknowledge(r) ==
    /\ Running /\ handler[r] = "adding" /\ sent[r] = Size[r]
    /\ handler' = [handler EXCEPT ![r] = "acked"]
    /\ UNCHANGED <<sent, ch, closed, batch, written, writer, main, log, failed>>
-----------------------------------------------------------------------------
(* The writer goroutine. *)

\* Mutant: a batch flushed when it exceeds flushSize.
ReceiveOneMore ==
    /\ Running /\ writer = "select" /\ ch # <<>>
    /\ batch' = Append(batch, Head(ch)) /\ ch' = Tail(ch)
    /\ writer' = IF Len(batch') > FlushSize THEN "flush" ELSE "select"
    /\ UNCHANGED <<handler, sent, closed, written, main, log, failed>>

\* case p, ok := <-b.ch with ok: append, and flush a full batch.
Receive ==
    /\ Running /\ writer = "select" /\ ch # <<>>
    /\ batch' = Append(batch, Head(ch)) /\ ch' = Tail(ch)
    /\ writer' = IF Len(batch') >= FlushSize THEN "flush" ELSE "select"
    /\ UNCHANGED <<handler, sent, closed, written, main, log, failed>>

\* Mutant: the ticker too flushes full batches only.
TickWhenFull ==
    /\ Running /\ writer = "select" /\ Len(batch) >= FlushSize
    /\ writer' = "flush"
    /\ UNCHANGED <<handler, sent, ch, closed, batch, written, main, log, failed>>

\* case <-ticker.C: flush what there is.
Tick ==
    /\ Running /\ writer = "select" /\ batch # <<>>
    /\ writer' = "flush"
    /\ UNCHANGED <<handler, sent, ch, closed, batch, written, main, log, failed>>

\* Mutant: a closed flag looked at instead of the end of the channel.
ReceiveClosedEarly ==
    /\ Running /\ writer = "select" /\ closed
    /\ writer' = "drain"
    /\ UNCHANGED <<handler, sent, ch, closed, batch, written, main, log, failed>>

\* case p, ok := <-b.ch without ok: closed, and the buffer is empty.
ReceiveClosed ==
    /\ Running /\ writer = "select" /\ closed /\ ch = <<>>
    /\ writer' = "drain"
    /\ UNCHANGED <<handler, sent, ch, closed, batch, written, main, log, failed>>

Inserting ==
    /\ Running /\ writer \in {"flush", "drain"} /\ written < Len(batch)
    /\ written' = written + 1
    /\ log' = Append(log, batch[written + 1])
    /\ UNCHANGED <<handler, sent, ch, closed, batch, writer, main>>

\* flush: InsertSpan of the next span, committed ...
Insert == Inserting /\ UNCHANGED failed

\* ... or failed, which is logged, and the loop goes on.
InsertFails == Inserting /\ failed' = failed \cup {batch[written + 1]}

\* Mutant: batch = batch[:0] left out.
FlushedKeepsBatch ==
    /\ Running /\ writer \in {"flush", "drain"} /\ written = Len(batch)
    /\ written' = 0
    /\ writer' = IF writer = "flush" THEN "select" ELSE "exited"
    /\ UNCHANGED <<handler, sent, ch, closed, batch, main, log, failed>>

\* Mutant: the writer returns when a span of the batch failed.
FlushedGivesUp ==
    /\ Running /\ writer \in {"flush", "drain"} /\ written = Len(batch)
    /\ batch' = <<>> /\ written' = 0
    /\ writer' = IF writer = "flush" /\ ToSet(batch) \cap failed = {}
                 THEN "select" ELSE "exited"
    /\ UNCHANGED <<handler, sent, ch, closed, main, log, failed>>

\* flush has returned: batch = batch[:0], or the writer exits.
Flushed ==
    /\ Running /\ writer \in {"flush", "drain"} /\ written = Len(batch)
    /\ batch' = <<>> /\ written' = 0
    /\ writer' = IF writer = "flush" THEN "select" ELSE "exited"
    /\ UNCHANGED <<handler, sent, ch, closed, main, log, failed>>
-----------------------------------------------------------------------------
(* The main goroutine. *)

Goto(from, to) ==
    /\ main = from /\ main' = to
    /\ UNCHANGED <<handler, sent, ch, closed, batch, written, writer, log, failed>>

\* SIGINT or SIGTERM: run calls Shutdown, which closes the listener.
Signal == Goto("serving", "shutdown")

\* ListenAndServe returns an error: run calls Close at once.
ListenFails == Goto("serving", "broken")

\* Shutdown returns nil: no connection is active.
ShutdownDone == (\A r \in Requests : ~Active(r)) /\ Goto("shutdown", "stopped")

\* The 15 seconds are over first; run calls Close all the same.
ShutdownTimesOut == Goto("shutdown", "stopped")

\* Mutant: Close waits for the writer and closes nothing.
CloseNothing ==
    /\ main \in {"stopped", "broken"}
    /\ main' = IF main = "stopped" THEN "draining" ELSE "drainingBroken"
    /\ UNCHANGED <<handler, sent, ch, closed, batch, written, writer, log, failed>>

\* Close: close(b.ch), then <-b.done.
CloseChannel ==
    /\ main \in {"stopped", "broken"}
    /\ main' = IF main = "stopped" THEN "draining" ELSE "drainingBroken"
    /\ closed' = TRUE
    /\ UNCHANGED <<handler, sent, ch, batch, written, writer, log, failed>>

\* The writer is done: run returns, the database is closed, the process ends
\* whatever its handlers are doing.
Exit ==
    /\ writer = "exited"
    /\ \E from \in {"draining", "drainingBroken"} : Goto(from, "exited")

\* The process is killed.
Crash == \E from \in MainStates \ {"exited", "crashed"} : Goto(from, "crashed")

Terminated == ~Running /\ UNCHANGED vars

Next ==
    \/ \E r \in Requests :
          \/ Arrive(r) \/ Reject(r) \/ Decode(r)
          \/ Send(r) \/ Panic(r) \/ Acknowledge(r)
    \/ Receive \/ Tick \/ ReceiveClosed \/ Insert \/ InsertFails \/ Flushed
    \/ Signal \/ ListenFails \/ ShutdownDone \/ ShutdownTimesOut
    \/ CloseChannel \/ Exit
    \/ Crash
    \/ Terminated

(* Fairness: every goroutine that can run is scheduled.  Blocked senders   *)
(* of a Go channel queue first in first out, so a sender is not passed     *)
(* over for ever: strong fairness.  A client may stall while it sends its  *)
(* body, so neither Arrive nor Decode is fair.                             *)
Fairness ==
    /\ \A r \in Requests :
          SF_vars(Send(r)) /\ WF_vars(Panic(r)) /\ WF_vars(Acknowledge(r))
    /\ WF_vars(Receive) /\ WF_vars(Tick) /\ WF_vars(ReceiveClosed)
    /\ WF_vars(Insert \/ InsertFails) /\ WF_vars(Flushed)
    /\ WF_vars(ShutdownDone \/ ShutdownTimesOut)
    /\ WF_vars(CloseChannel) /\ WF_vars(Exit)

Spec == Init /\ [][Next]_vars /\ Fairness
-----------------------------------------------------------------------------
(* Properties. *)

\* Each variable holds what the code's types allow.
TypeOK ==
    /\ handler \in [Requests -> HandlerStates]
    /\ sent \in [Requests -> Nat] /\ \A r \in Requests : sent[r] <= Size[r]
    /\ ch \in Seq(Items) /\ closed \in BOOLEAN
    /\ batch \in Seq(Items) /\ written \in 0..Len(batch)
    /\ writer \in WriterStates /\ main \in MainStates
    /\ log \in Seq(Items) /\ failed \subseteq ToSet(log)

\* The spans on their way, oldest first: given to InsertSpan, in the rest of
\* the slice, in the channel.
FlowOf(l, b, w, c) == l \o SubSeq(b, w + 1, Len(b)) \o c

Flow == FlowOf(log, batch, written, ch)

\* AddAll "keeps ordering within a request intact while the writer loop
\* batches across requests": whatever requests interleave and however the
\* flushes fall, all the spans a request has sent are in the flow, in their
\* order and each only once.
InOrderOnce ==
    /\ \A r \in Requests : \A i \in 1..sent[r] : <<r, i>> \in ToSet(Flow)
    /\ \A m, n \in 1..Len(Flow) :
          m < n /\ Flow[m][1] = Flow[n][1] => Flow[m][2] < Flow[n][2]

\* bufferCapacity "bounds how many spans may queue", and a batch reaches
\* flushSize spans and no more.
BoundedMemory == Len(ch) <= Capacity /\ Len(batch) <= FlushSize

\* "Graceful shutdown loses nothing that was acknowledged to clients": when
\* run returns, on any of its paths, every span of a request that was
\* answered with 200 has been given to InsertSpan.
NothingAckedLost ==
    main = "exited" =>
        \A r \in Requests : handler[r] = "acked" =>
            \A i \in 1..Size[r] : <<r, i>> \in ToSet(log)

\* The spans of the requests that were answered with 200.
AckedSpans == UNION {{r} \X (1..Size[r]) : r \in {r \in Requests : handler[r] = "acked"}}

\* "Downstream storage is asynchronous by design": the answer is sent before
\* anything is stored, but however many requests are under way, no more
\* acknowledged spans than the buffers hold are without an attempt to store
\* them, which is what a kill may lose.
LossIsBounded ==
    Cardinality(AckedSpans \ ToSet(log)) <= Capacity + FlushSize

\* An acknowledged span reaches the store or a logged failure, unless the
\* process is killed: no batch waits for more spans for ever.
AckedSettles ==
    \A r \in Requests :
        handler[r] = "acked" ~>
            main = "crashed" \/ \A i \in 1..Size[r] : <<r, i>> \in ToSet(log)

\* A handler that is adding spans does not block for ever on a full channel.
HandlersAnswer ==
    \A r \in Requests :
        handler[r] = "adding" ~> handler[r] \in {"acked", "panicked"} \/ ~Running

\* Once run has left its select the process ends: the drain terminates,
\* though handlers may still be blocked or bringing requests.
ShutdownEnds == main \in {"shutdown", "broken"} ~> ~Running

\* What a client can tell of the process.
Status == IF main = "exited" THEN "stopped"
          ELSE IF main = "crashed" THEN "killed"
          ELSE "up"

\* The ingestion path, read as a sink for spans.
Sink == INSTANCE SpanSink WITH
    accepted <- sent,
    settled  <- ToSet(log),
    acked    <- {r \in Requests : handler[r] = "acked"},
    status   <- Status

\* The goroutines together keep the promise of the sink: acknowledged means
\* accepted, and a graceful stop leaves no accepted span behind.
ImplementsSink == Sink!Spec

\* AddAll "blocks only when the buffer is full": a handler that is adding
\* spans is never cut short by Close.
NoHandlerPanics == \A r \in Requests : handler[r] # "panicked"
=============================================================================
