# Tracewell: specifications, model checking and proofs

Tracewell collects OpenTelemetry traces of LLM applications over HTTP, stores
them in one SQLite file and serves them through a REST API. This directory holds
TLA+ modules that model the program's own logic, TLC configurations that check
them on small instances, and proofs checked by TLAPS. Paths below are relative
to the repository root, under `src/`.

- [1. The system](#1-the-system)
- [2. The modules](#2-the-modules)
- [3. The runs](#3-the-runs)
- [4. What the code does differently from what it says](#4-what-the-code-does-differently-from-what-it-says)
- [5. The proofs](#5-the-proofs)
- [6. Assumptions, and what is left out](#6-assumptions-and-what-is-left-out)
- [7. Plan](#7-plan)

## 1. The system

    exporter --POST /v1/traces--> Handler --AddAll--> channel --> Batcher.loop
                                  DecodeSpans                         | flush
    client <---GET /v1/...------- Queries <---- SQLite file <---- InsertSpan
                                                one connection

    main: open, serve, signal, Shutdown, Batcher.Close, exit

| Part | State | Operations | Module |
|---|---|---|---|
| Span store, `internal/store/span_insert.go`, `store.go`, `schema.sql` | the tables `projects`, `traces`, `spans`; `projectCache` in memory | `InsertSpan` = one transaction: `spanToColumns`, `ensureProject`, `upsertTrace`, child sum, `INSERT ... ON CONFLICT DO NOTHING`, `propagateToAncestors`, commit or rollback; `Open` | `SpanStore`, `RowTime`, `SpanLedger` |
| `InsertSpans`, `internal/store/span_batch.go` | as above, and a savepoint | a batch in one transaction, each span behind a savepoint; exported, without a caller in the program | `SpanBatch` |
| Batcher, `internal/collector/batcher.go` | channel, the writer's slice | `AddAll`, `loop` (receive, tick, channel closed), `flush`, `Close` | `Ingest`, `SpanSink` |
| OTLP handler, `internal/collector/handler.go` | per request | refuse, decode, enqueue, answer | `Ingest` |
| Process, `cmd/tracewell/main.go`, `internal/server/server.go` | where `run` is | serve, signal, listener error, `Shutdown`, `Close`, return | `Ingest` |
| Query API, `internal/api` | none; the cursor is the client's | `projectList`, `projectGet`, `traceList`, `spanList`, `traceSpanList`, with `FindProject`, `scanPage` and `fillTokenCounts` | `QueryAPI` |
| Decoding, `internal/collector/decode.go`, `internal/semconv`, `internal/trace` | per request | `DecodeSpans`, `SynthesizeFromGenAI`, `Merge`, `Extract` | `Decode` |
| Attributes, `internal/attrs` | the trie of one span | `Unflatten` (`add`, `step`, `setValue`, materialization), `LoadJSONStrings` | `Attributes`, `Decode` |
| Routing and health, `internal/server/handler.go`, `health` | none | | not modelled: stateless |

The parts meet in three places: the channel between handlers and the writer
goroutine, the single database connection (`main.go:101`) that transactions and
queries share, and the tables.

What is hard about it:

- **Order of arrival.** The spans of a tree arrive in any order; the cumulative
  counters of every span are maintained incrementally.
- **Failures inside a transaction.** The tables roll back, `projectCache` does not.
- **Retries.** Exporters send spans again that were stored.
- **Shutdown.** `run` calls `Close`, which closes the channel, on three paths; on
  two of them handlers may still be sending.
- **Pages over changing data.** A trace's start time, which orders the listing,
  moves while a client pages through it.
- **Texts for numbers and times.** Times are compared as RFC3339Nano texts,
  latencies with a text bound as cursor.
- **Maps without an order.** Attributes are kept in Go maps; the trie is filled and
  views are merged in whatever order a range takes.
- **Savepoints.** A batch goes on after a span that failed; what that span did
  must be gone from the tables and from the answers.

`PROJECT.json` lists each hazard at its line with the properties that watch it.

What makes each part correct:

- store: the counters equal a recount, a trace is filed under the project of one
  of its spans, its range covers its spans, repeats change nothing, commits take
  nothing back, `InsertSpan` returns, a span is stored if and only if a call
  answered nil for it;
- ingestion: what is acknowledged is stored or logged as failed, in order and
  once; memory and what a kill loses are bounded; handlers and shutdown finish;
- decoding: the tree holds what was sent where its key says, loses only what
  clashes, and does not depend on the order of a map unless keys clash; of two
  conventions the explicit one wins;
- queries: a walk through the pages misses and repeats nothing it should not,
  stays in one project, keeps to its time bounds, and ends.

## 2. The modules

### `RowTime` — the order of instants as texts

`formatTime` renders RFC3339Nano, which trims trailing zeros: `12Z`, `12.5Z`,
`12.25Z`. `upsertTrace` and the trace listing compare these texts. An instant is a number of
hundredths of a second, the coarsest unit that shows both effects of the trimming;
`TextKey` orders instants as their texts are ordered.

### `SpanStore` — InsertSpan, statement by statement

| Variable | Code |
|---|---|
| `db` | what is committed |
| `work` | the tables as the open transaction sees them |
| `pc`, `arg`, `rowid`, `totals` | the next statement and the locals of `insertSpanTx` |
| `cache` | `Store.projects` |
| `acked` | history: spans for which `InsertSpan` or `InsertSpans` answered nil |

Actions: `Begin`; `Serialize`/`SerializeFails` (`spanToColumns`);
`CachedProject`/`StoredProject`/`CreateProject` (`ensureProject`);
`WidenTrace`/`CreateTrace` (`upsertTrace`); `InsertRow`/`DuplicateRow` (child sum
and INSERT, early return when no row changed); `Propagate`; `Commit`; `Fault` (any
statement returns an error: deferred rollback); `Restart` (the process dies, the
transaction with it, the cache starts empty).

A project's rowid is its position in a sequence, because SQLite gives a new row
of a table without AUTOINCREMENT the largest rowid plus one and hence gives a
rolled-back rowid again. Trace and span rows are known by their unique text ids.
The recursive CTE is `Lineage`, the least set that holds the parent and is closed
under `parent_id` inside the trace; it is a set comprehension and not a recursive
operator so that it can be proved about. `WalkEnds` says when the CTE, which
uses `UNION ALL` and remembers nothing, terminates.

### `SpanBatch` — InsertSpans on the same connection

Extends `SpanStore` by `items` (the batch), `pos`, `save` (the tables at the
savepoint) and `errs`. `BeginBatch`, `Savepoint`, `Inner` (the statements of
`insertSpanTx`, which are `SpanStore`'s own), `Release`, `RollbackTo`, `CommitBatch`,
`CommitFails`; `Single` is an `InsertSpan` that comes between batches. The `store`
runs check this specification, so every property of the store holds for single
spans and batches alike.

### `SpanLedger` — what the store promises

A span is taken once, alone or as one of the set that a batch's commit
takes; the counters are recomputed from all spans present by reachability
(`WayUp`, the least set closed under the parent in the same trace, and `Subtree`),
the ranges as hulls; a new trace is filed under the project and the session of
one and the same span, and stays there. `SpanStore` refines it:
`Ledger == INSTANCE SpanLedger WITH ...`, each commit is one step or none. Nothing in
the ledger is incremental, so the refinement says that the incremental code computes
what a recount would.

### `Ingest` — handlers, channel, writer, main

| Variable | Code |
|---|---|
| `handler`, `sent` | each request's goroutine, its position in `AddAll`'s loop |
| `ch`, `closed` | the channel |
| `batch`, `written`, `writer` | `loop`'s slice, `flush`'s position in it, the goroutine |
| `main` | where `run` is |
| `log`, `failed` | history: calls of `InsertSpan` and those that failed |

One action per select case, send, InsertSpan call and step of `run`. `Tick` may
happen whenever the writer selects, since nothing is known of the time other
steps take. `Panic` is the send on a closed channel, which `net/http` recovers.
`Crash` kills the process anywhere. One `InsertSpan` is one step because
`SpanStore` shows it to be one transaction.

### `SpanSink` — what the ingestion path promises

Accept, settle, acknowledge when all spans of the request are accepted, stop only
when nothing accepted is unsettled; a kill may lose what was accepted. `Ingest`
refines it.

### `Attributes` and `Decode` — from an exported span to a stored one

`Attributes` holds the data: keys as sequences of segments, `PlainInt` and
`CanonicalSeg` (a row of digits is respelled as an int that wraps around), the trie as
a function from addresses to values (`Path` is a fold, so that it can be
proved about; `IsValue` says what is asked of a value's shape: the fields of a map
are found by paths), what it materializes to, and, apart from
that, what the expansion should be given the paths alone (`Expected`, `Clashes`). Each
child of a node is on one of two tracks, `branch` or `index`, as in
`node.branches` and `node.indices`; `Demoted` is `setValue`'s loop and `Hidden` says which
children `materializeInto` never reaches.

`Decode` runs it: `NextSpan` (`decodeSpan` begins: `decodeAttributes` fills a Go
map), `Skip` or `Take` any key that is left (the range over the map), `StepBranch`, `StepIndex`,
`StepLastDigits` (the three outcomes of `step`), `SetValue`, `Finish`.
`Finish` materializes, calls `Merge` and builds the span; `Merge` ranges over maps
again when it flattens the tree, hence its result is one of `Views`. The properties
compare the tree with the keys that were sent and the fields with the attributes
of either convention.

### `QueryAPI` — pages while spans are committed

| Variable | Code |
|---|---|
| `db` | committed tables, rowid = position; the writer's transaction is one `Insert` |
| `conn` | the pool's only connection: free, the writer's, or a client's open rows |
| `client` | a client's walk: its listing and filters, the request's progress, the cursor, the page, its token counts, what it has been shown, and (history) the tables at its first page and at this page's rows |

All five requests: projects, one project, its traces and spans page by page, the
spans of one trace. `FindProject`, `Refuse` (a parameter that does not parse, after
the project was looked for), `QueryPage` (WHERE, ORDER BY, LIMIT + 1), `ScanPage`
(rows read and closed, which returns the connection), `FillTokenCounts`, `Answer`
(the client hands the cursor back, and the next request looks the project up
anew), `Fail` (context cancelled or query error). A page is a
set: the first `Limit` rows of the order. `FindProjectRows` models the rule that
an identifier that parses as an integer is only a rowid.

### Checking and proof modules

`MCSpanStore`, `MCIngest`, `MCDecode`, `MCQueryAPI` give the constants values. The theorems
(section 5) are in `IngestProofs`; `SpanStoreProofs`, `SpanBatchProofs`, `SpanTablesProofs` and
`LedgerProofs`, each of which extends the one before; `QueryAPIProofs`; `DecodeProofs`; and `SumLemmas`
holds what several of them need of sums and maxima. Definitions marked
"Mutant:" beside an action are plausible bugs; each property of a passing run is
violated when its mutant replaces the action, which shows that the property
can fail in this instance.

## 3. The runs

| Run | Config | Distinct states | Shows |
|---|---|---|---|
| `store` | `MCSpanStore.cfg` | 34,015 | passes, 10 properties |
| `ingest` | `MCIngest.cfg` | 90,753 | passes, 9 properties |
| `pages` | `MCQueryAPI.cfg` | 68,946 | passes, 7 properties |
| `decode` | `MCDecode.cfg` | 144,354 | passes, 6 properties |
| `store_rollback` | `MCSpanStoreRollback.cfg` | | `FiledUnderOwnProject` violated |
| `store_fractions` | `MCSpanStoreFractions.cfg` | | `RangeCovers` violated |
| `store_cycle` | `MCSpanStoreCycle.cfg` | | `InsertReturns` violated |
| `ingest_panic` | `MCIngestPanic.cfg` | | `NoHandlerPanics` violated |
| `pages_repeat` | `MCQueryAPIRepeat.cfg` | | `NoRowTwice` violated |
| `pages_latency` | `MCQueryAPILatency.cfg` | | `NothingSkipped` violated |
| `pages_bounds` | `MCQueryAPIBounds.cfg` | | `BoundsExact` violated |
| `decode_lost` | `MCDecodeLost.cfg` | | `NothingLost` violated |

**store.** Six spans: a chain of three and a sibling of another project and session in
one trace, a second trace whose root names a parent in the first one, a span that
cannot be serialized. Every order of arrival, any number of repeats, alone or in
one of three batches (a span that fails between two that do not; a span twice in one
batch, its parent between; two projects for one trace), every statement failing, a
restart anywhere. Token counts are powers of two, one of them negative, so that a sum shows
which spans are in it. A chain of three lets the middle, the root or the leaf come
last, the three ways a span meets its relatives; a longer chain repeats these. A batch of
three has a first, a middle and a last savepoint. Properties: `Balanced` (a row is
its own values plus its children's), `ImplementsLedger` (equal to a recount),
`AnswersAreTrue` (stored if and only if answered nil), `FiledUnderOwnProject`,
`CacheAgrees`, `RangeCovers`, `OnlyGrows`, `DuplicateIsNoOp`, `InsertReturns`. The
instance leaves out what section 4 reports, with which several of them do not hold:
statements fail only in transactions that created no project (`FaultOnNew = FALSE`),
times are whole seconds, span ids are unique, `parent_id` has no cycle.

**ingest.** Requests of three spans and of one and a refused one, a channel of one, batches
of two: the channel fills, senders of two requests compete for it, the long request
fills slice and channel together, a batch ends inside a
request, and a batch stays incomplete until a tick or the close. Signal, listener
error, Shutdown timeout and kill at every point. `InOrderOnce`,
`BoundedMemory`, `NothingAckedLost`, `LossIsBounded` (a kill takes no more acknowledged
spans than slice and channel hold), `AckedSettles`, `HandlersAnswer`,
`ShutdownEnds`, `ImplementsSink`.

**pages.** Five traces stored, two of them starting in the same instant on both sides
of a page's end and one half a second off, which the texts misorder; meanwhile
one trace's start moves to the very beginning of the order and gets an error, its span
names a new project, and a new trace appears. One client walks a listing of each
kind in pages of two, two of them with time bounds off the second (from 12.7 a trace
that starts at 12 is wrongly shown, up to 13.2 one that starts at 13 is wrongly left out); a
second one, with listings of one page (an unknown project, one named by its rowid,
one whose name is another one's rowid, the spans of a trace, a single project, a refused
parameter), competes for the connection. `NothingSkipped`: a finished walk has shown
every row that matched at its beginning and at its end; walks in ascending order
may miss a trace whose start moved, and only that. `RepeatsExplained`: the mirror image for
repeats. `BoundsHold`: a page shows a trace from outside the bounds, and a finished walk leaves out
one from inside them, only if it starts in the second of a bound (that it does then is 4.8). `CountsCoverPage`: token counts, read by a later query, are the totals of the page's
traces at one moment, not before the one its rows were read at. `OneProject`: all pages of a walk are of one project
although each looks it up anew. `WalksEnd`: no request waits for ever, and pages of two rows
lead on (pages of one do not in a listing by rowid, see 4.5). The exceptions these
properties allow do occur in this instance.

**decode.** Every set of up to four of twelve attributes whose keys share nodes
(positions, plain keys, values on the way, padded digits, blank segments, digits too
long for an int, the root), every set of up to four of nine convention attributes (both
forms, values of every type that is read), and a request of several spans with what no set
of attributes is (repeated keys, unset values, JSON texts), each ranged over in every
order. Four keys are enough for a node with a value, a position, a plain key and a second
position. `NothingInvented` (a value of the tree is that of an attribute of this span, where
its key says), `LossExplained` (what is missing goes through a node whose children are
positions and plain keys mixed, or shares its path with what is kept), `OrderIsIrrelevant`
(without such a node the tree is `Expected`), `ExplicitWins` (the model, the four counts and the
total are what an explicit attribute says wherever one says something, as its own value, as a field of a
map or as a structure), `TotalExplained`. One request gives the completion count twice, by its own key
and in a map under `llm.token_count`, and a position below it, so that the maps `Merge` ranges over yield
its key twice: `Views` then has a view for each value, and `Explicit` has both.
`IntSize` = 128 stands for 2^64: `12` fits, `64` is the first number that turns negative and
`128` turns to 0, the position that `0` and `00` name too.

**Fairness.** `SpanStore`: weak fairness of the transaction's statements, as SQLite
runs a statement to its end. `Ingest`: every goroutine that can run is
scheduled; blocked senders of a Go channel queue first in first out, hence strong
fairness of `Send`. Nothing is assumed of the arrival of requests, of signals or
of a client that stalls while it sends its body. `QueryAPI`: a connection that is
returned goes to one of those who wait, hence strong fairness of a client's
steps although transactions take the connection again and again; a transaction
ends.

`Decode` states safety only: `DecodeSpans` is a loop over finite data.

**Deadlock** is checked in every run. `Ingest` stutters explicitly when the process
has ended and nothing else can happen (`Terminated`), `Decode` when `DecodeSpans` has
returned (`Returned`).

## 4. What the code does differently from what it says

1. `store_rollback` (`span_insert.go:224`). `ensureProject` caches a new project's
   rowid before the commit. A statement fails, the row is rolled back, the cache
   keeps the rowid: the next trace of the project is filed under a rowid that
   does not exist (foreign keys are off) or that another project has got.
2. `store_fractions` (`span_insert.go:169`). `12.5Z < 12Z` as texts: the range of a
   trace does not cover a span that starts at `12` when another starts at `12.5`.
3. `store_cycle` (`span_insert.go:239`). A span that is its own ancestor: the
   recursive CTE never ends and with it the writer goroutine.
4. `ingest_panic` (`batcher.go:61`). `Close` while a handler is in `AddAll` (after a
   Shutdown timeout or a listener error): the send panics. `NothingAckedLost`
   holds nonetheless, since such a request is not acknowledged.
5. `pages_repeat` (`span_queries.go:111`). "rowid of the first row of the next page":
   the cursor is the last row of this page and the query includes it, so each page
   repeats a row, and with `limit=1` the walk never moves on. `ListProjects` does the same.
6. `pages_latency` (`queries.go:194`). The latency cursor is bound as a text; in
   SQLite every number is less than every text. Ascending walks end after the
   first page, descending ones return it for ever.
7. `decode_lost` (`unflatten.go:236`). A node with a digit key that ends and one that goes
   on: in one order of the map both are kept, in the other the second is dropped.
8. `pages_bounds` (`queries.go:179`). "inclusive lower bound", "exclusive upper bound on trace start", "RFC3339Nano UTC
   text sorts chronologically": a trace that starts at `13` is left out of those before `13.2`, one that
   starts at `12` is listed from `12.7` on.

Smaller ones, which the models contain and no run is spent on:

- `ROLLBACK TO` takes back a project that the failed span of a batch created, and the cache keeps its
  rowid (`span_batch.go:60`): the next span of the batch is filed under it and committed, although "a failure rolls back only
  that span's partial writes and the rest of the batch proceeds". It is the cache entry of item 1 inside one
  transaction; the program does not call `InsertSpans`.
- Without a `gen_ai` attribute `Merge` passes the nested tree to `Extract` (`genai.go:96`), which looks dotted
  keys up at its top level: a span with only OpenInference attributes has no token counts and no
  model, unless an attribute is called `llm` alone (`CountsNeedGenAI`, section 5).
- Nothing checks ids: the hex text of a missing one is empty (`decode.go:86`), and `span_id` is unique over all
  traces. A span whose id a span of another trace has is answered nil and not stored, and its trace's row stays,
  without spans, since `ensureProject` and `upsertTrace` run before the INSERT (`span_insert.go:139`). What the
  runs and the theorems say of duplicates, they say of spans with unique ids.
- `flush` opens a transaction per span; the comment at `batcher.go:102` speaks of one
  for all.
- The span kind that `SynthesizeFromGenAI` makes is never read: the kind comes from the flat
  map (`decode.go:93`).
- A synthesized total stays beside explicit counts that replaced its summands: the
  third case of `TotalExplained`.
- Keys that begin with a digit segment that goes on are dropped at the root
  (`Hidden`); the holes of an array are closed (`Rank`).
- `projectList` takes a malformed cursor for none; the other listings refuse it.
- A project with a numeric name is reached by its rowid only (`queries.go:86`).

## 5. The proofs

All by `tlapm` with SMT, Zenon and PTL; no statement is left without a proof.

**`IngestProofs`**, for every set of requests, sizes, capacity and batch size:
`TypeCorrect`, `MemoryIsBounded`, `OrderIsKept`, `GracefulExitLosesNothing`,
`LossStaysBounded`, `IngestImplementsSink`. The argument is one quantity, `Flow` = what was given to InsertSpan,
then the rest of the slice, then the channel. No step of the writer changes it;
`Send` appends the request's next span. So the flow holds exactly
what was sent, in order. `NothingAckedLost` alone is not inductive: `IInv` adds that
the flow holds nothing else (`OnlySent`), that an acknowledged request has sent everything
(`AckedSent`), and what the writer's position says about slice and channel
(`WriterInv`): a writer that has left has seen the channel closed and empty, hence
at the exit `Flow = log`. The refinement theorem uses the same invariant: a call of
`InsertSpan` settles a span that was accepted and not yet settled, because the flow holds it once. `LossStaysBounded` counts: what is acknowledged and
not in the log is in the flow behind it, so there are no more such spans than the slice
and the channel are long (`FewElements`).

**`SumLemmas`**: `SumFunctionOnSet` is a fold in an order of CHOOSE's making. The
lemmas show that such a fold exists on every finite set, that it gives an
integer, depends only on the values, and that one element can be taken out
of it. Induction is by sets (`SubsetInduction`), since the library's induction theorems
take an operator.

**`SpanStoreProofs`**, for all spans (cycles and shared ids included), with every fault
and restart:

- `TypeCorrect`.
- `CountersBalance`: `Spec => []Balanced`, without further assumptions. The invariant
  `WorkBalanced` says that inside the transaction every row is balanced, except
  that between the INSERT and the UPDATE the rows do not count the new
  one among their children. `InsertBalances`: the new row takes the sum of its children. `PropagateBalances`:
  adding a number to every row of a walk along `parent_id` keeps
  each row equal to its own values plus its children's, because a row other than
  the walk's first has exactly one child in the walk (`LineageIsPath`); `WalkEnds`,
  the statement's own termination, is what makes the walk a path.
- `ProjectsAreRight`: if no statement fails in a transaction that created a project
  (`~FaultOnNew`), traces are filed under a project of their spans and the cache
  agrees with the table. `ProjectsInv` carries the rowid of the
  open transaction and the distinctness of project names. The run `store_rollback` shows the
  assumption is needed.

**`SpanBatchProofs`**: the same for `BatchSpec`, where batches and single spans share the
connection: `BatchTypeCorrect`, `BatchCountersBalance`, `BatchAnswersAreTrue`. A savepoint makes a
small transaction of each span, so `SpanStoreProofs`' lemmas about the statements are used
again. `BatchBalanced` adds that the tables at the savepoint are balanced as
well, which is what `ROLLBACK TO` needs. `BatchAnswersAreTrue` rests on `AnswersInv`: the rows of the
open transaction are those committed plus the spans of the batch so far
without an error, and the one whose INSERT is done.

**`SpanTablesProofs`**, for `BatchSpec`. `Shapes` reduces every step to one of seven forms (a
statement, start, drop, commit, release, return to the savepoint, stutter); each invariant below
then speaks of three sets of tables, `db`, `work` and, inside a batch, `save`, because each of them may
become the others.

- `RangesCoverSeconds`, without assumptions: what a trace's range misses of a stored
  span is less than a second. `TablesInv`: trace rows are hulls in the order of the texts, span
  rows show their spans.
- `RangesCover`: with times of whole seconds (`WholeSeconds`) it misses nothing. The run
  `store_fractions` shows why that is assumed.
- `BatchProjectsAreRight`: `FiledUnderOwnProject` and `CacheAgrees` if no statement fails
  after its transaction created a project (`~FaultOnNew`; `store_rollback` shows why).
  `FilingInv` says of each pair of tables that the one extends the projects of the other: a savepoint that
  is returned to must still have the rows the cache names.
- `BatchOnlyGrows`, without assumptions: no commit takes back a project's rowid, a trace's project,
  session or range, or an error count. `GrowthInv`: the open transaction and the savepoint
  extend what is committed.
- `DuplicatesChangeNothing`: with `UniqueIds` and `~FaultOnNew`, a transaction for a span that is stored
  writes nothing (`RepeatInv`: its `work` stays `db` to the end). Without unique ids the second span's
  trace row is written (section 4).

**`LedgerProofs`**: `StoreImplementsLedger`, for whole seconds, unique ids and `~FaultOnNew`: each commit is
one step of `SpanLedger` or none. `UniqueIds` leaves out spans without an id (section 4 says what
becomes of them). The counters are where work was needed. `Balanced`
says what a row is in terms of its children; that this makes it the sum over its descendants
(`TotalsAreRecount`) is an induction up the tree, done here on the sets of spans that hold a row's
subtree: a child's subtree lies in such a set without the row itself. That takes rows without a cycle, and no assumption is made about
them: `AcyclicInv` says that no table has a cycle, except one that the newest row has just closed, and then
`propagateToAncestors` walks into it and does not return (4.3), so the transaction never commits.

**`QueryAPIProofs`**, for every set of clients, listings, stored tables and commits.

- `TypeCorrect`; `RowsAreOfOneProject`; `CountsAreOfOneMoment`.
- `BoundsErrWithinASecond`, in both directions, for trace listings by `start_time`: for two times of different
  seconds the texts are ordered as the times are (`FilterAndInterval`), so the filter and the
  interval agree on a trace that is not near a bound, and `WalkShows`, the core of `NothingIsSkipped`, does the rest.
- `NothingIsSkipped` and `RepeatsAreExplained`. The argument has two halves. Commits let the tables only grow
  (`Grew`): rows keep their places, but a trace's start may move back; so what matched at the
  beginning and matches now has matched all the time. And each page goes on at an edge, the cursor:
  what is still to be shown lies behind it (`Covered`), what was shown does not (`Passed`), but for
  traces that moved, which is what the two properties except. They are stated for trace listings by
  `start_time` (`ByStart`), besides those of projects and spans: by `latency_ms` the pages do not lead on
  (4.6, `pages_latency`).
- The tables that are stored at the beginning are a fold over a sequence of spans; that they are
  sound is an induction on its prefixes (`SubsetInduction`).

**`DecodeProofs`**, for every set of requests and every order of the Go maps. `DecodeInv` has
four parts: `Tree` (what `Unflatten`'s trie is: parents present, positions without a value,
no position beside a branch of the same key that carries one), `Grown`, `Sourced` and `Keeps`.

- `TypeCorrect`.
- `InventsNothing`: `Sourced`, a value stands at an address whose segments are the path of an attribute
  with this value. Demotion is a map of addresses that keeps their segments; what it overwrites has the same ones.
- `ExplainsLoss`: `Keeps`, what the range has come to is held, is being added or clashes.
  `Grown` is the strengthening it needs: a node is on the way of some path (`OnTheWay`), one whose paths
  all go on through positions has branches only if a value demoted it (`AtRest`), and if nothing clashes,
  a path leads to one node (`Single`).
- `ForgetsOrder`: when nothing clashes, the finished trie has exactly one node with a value for
  each path (`Complete`), a node's branches and positions are those the paths ask for (`TrackIs`),
  and the position an array element gets, its rank among its siblings, is the rank of its
  segment among the paths (`PositionsAre`, `RankIs`): `Materialized` is `Expected`, whatever the order was.
- `ExplicitIsTaken`: whatever the flattened tree has under a key is what some attribute says of it
  (`ExplicitEntries`), and where all attributes of a path say something of a key of words, the tree has the
  key (`SettledEntry`), since keys of words never clash; hence nothing synthesized gets in under it, and a view,
  whatever order `Merge` took, has one of the explicit values. No attribute is excepted: those that yield a
  key twice are covered.
- `TotalsExplained`, on both paths of `Merge`: an integer that `Extract` finds at the tree's top level
  is an entry of the flattened tree too (`TopLevelIs`), and what is synthesized under the
  total's key is an integer.
- `CountsNeedGenAI`: without `gen_ai` attributes nothing is extracted under the keys of the counts and the
  model. A key of several segments is at the tree's top level only beside a value under its first segment
  (`LongKeyBesideShort`), which is `llm` for all of them.

Assumed: `IntSize` is positive, and `RequestsAssumption` and `JsonAssumption`, that requests and JSON texts
are what a decoder can return. `Path` and the trie's ranks are folds, which the lemmas unfold one step at a time
(`FoldLeft` is a recursive function on sets); the inductions are on sets.

Only model-checked: the liveness properties (`InsertReturns`, `WalksEnd`, and the `AckedSettles`,
`HandlersAnswer`, `ShutdownEnds` of ingestion), since fairness and ENABLED are out of the prover's reach.
What holds only with an assumption is proved with it and refuted without it by a run of section 4, but for unique
ids, whose case section 4 describes.

## 6. Assumptions, and what is left out

- One connection (`main.go:101`): transactions do not interleave. Another process
  that opens the same file is not modelled.
- Foreign keys are off: the DSN in `main.go` does not enable them.
- A failed COMMIT rolls back. A killed process loses no commit; a power
  failure under `synchronous(NORMAL)` may, and is not modelled.
- Token counts are integers without a bound, possibly negative; SQLite's
  overflow into REAL is not modelled.
- Columns no property reads are left out: names, events, attributes, messages,
  `created_at`, `updated_at`.
- A statement that fails is undone alone; that SQLite takes the whole transaction back
  on a full disk or an I/O error is not modelled. A `SAVEPOINT`, `RELEASE` or `ROLLBACK TO` of
  `insertSpanSavepoint` writes nothing to the file, so it fails by itself only when the context is cancelled;
  then `database/sql` rolls the whole transaction back and `Commit` fails too, for all spans of the batch:
  `CommitFails`, which may happen anywhere in a batch.
- The handler's content (protobuf, gzip, the three error statuses) is one
  decision, malformed or not.
- `flushInterval` and the timeouts are nondeterministic.
- `QueryAPI`: the columns returned and filters on immutable columns other than the status
  are left out; they select as the status does. `julianday`'s rounding is left out:
  latencies are exact.
- `Decode`: names and ids, which are copied or hex encoded, are left out; a JSON text is
  what it decodes to, and the JSON of a structure is one text.
- Symmetry reduction is not used: the runs check liveness.

Not modelled: routing and the health probe (stateless); a power loss that takes back
commits under `synchronous(NORMAL)` (`main.go:95`), since nothing in the code reacts to
it; the order of the nanosecond and text forms of a time past the year 2262
(`decode.go:134`), though the wrap itself is `UnixNano`. `Ingest` and `SpanStore` are not one
specification: they meet by refinement (one `InsertSpan` is one step of `SpanLedger`, which is all
`Ingest` uses), since the product of their states is out of TLC's reach.

## 7. Plan

The models are complete but for what section 6 names, and each safety and action property that a passing run
checks is a theorem. What is left:

1. Latency listings: `RepeatsExplained` for one page, the part that `pages_latency` leaves true.
2. The safety halves of the liveness properties: that a request in `AddAll` and the writer are never both
   blocked, that a walk's edge moves on with each page of two rows, that a chain of steps without a
   fault ends in a commit, each as a decreasing measure.
3. An overflow of the counters into REAL, and the duplicates of spans without ids as a ledger of their own.
