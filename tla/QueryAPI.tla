------------------------------ MODULE QueryAPI ------------------------------
(***************************************************************************)
(* The read side, internal/api: clients walk through the pages of a        *)
(* listing, handing each page's cursor back for the next, while spans are  *)
(* committed between the pages and between the queries of one page.        *)
(*                                                                         *)
(* Requests and the writer share the one connection main.go opens: a       *)
(* transaction holds it from BeginTx to its end, a query until its rows    *)
(* are closed.  The server keeps nothing between two requests; the cursor  *)
(* is the client's.                                                        *)
(***************************************************************************)
EXTENDS RowTime, Sequences, SequencesExt, FiniteSets, Functions

CONSTANTS
    Clients,
    WalksOf,    \* client -> the listings it may ask for
    Stored,     \* the spans in the database at the start, oldest first
    Spans,      \* the spans committed meanwhile
    Limit,      \* the limit parameter of every request
    Numeric,    \* the project identifiers that parse as an integer -> that integer
    NoBound,    \* a time filter that is absent
    Free, Writer

Walks == UNION {WalksOf[c] : c \in Clients}

Identifiers == {w.project : w \in Walks}
Traces == {w.trace : w \in Walks}

Walk == [list : {"projects", "project", "spans", "traces", "trace"},
         project : Identifiers, trace : Traces, malformed : BOOLEAN,
         sort : {"start_time", "latency_ms"}, order : {"asc", "desc"},
         error : {"any", "true", "false"},
         from : Nat \cup {NoBound}, to : Nat \cup {NoBound}]

ASSUME WalksAssumption == Walks # {} /\ Walks \subseteq Walk
ASSUME LimitAssumption == Limit \in 1 .. 1000
ASSUME SpansAssumption ==
    /\ Stored \in Seq(Range(Stored))
    /\ \A s \in Spans \cup Range(Stored) :
          s.start \in Nat /\ s.end \in Nat /\ s.error \in BOOLEAN /\ s.tokens \in Int
ASSUME ConnAssumption == Free # Writer /\ {Free, Writer} \cap Clients = {}

VARIABLES
    db,      \* committed tables
    conn,    \* who holds the connection
    client   \* client -> its walk and the request it is waiting for

vars == <<db, conn, client>>
-----------------------------------------------------------------------------
(* The tables.  A row's rowid is its position: rows are never deleted.     *)

EmptyTables == [projects |-> <<>>, traces |-> <<>>, spans |-> <<>>]

RowsOf(table, P(_)) == {i \in DOMAIN table : P(table[i])}

\* InsertSpan as one step, the columns that no listing reads left out.
Insert(tables, s) ==
    LET projects == IF s.project \in Range(tables.projects) THEN tables.projects
                    ELSE Append(tables.projects, s.project)
        known == RowsOf(tables.traces, LAMBDA r : r.id = s.trace)
        traces == IF known = {}
                  THEN Append(tables.traces,
                          [id |-> s.trace, start |-> s.start, end |-> s.end,
                           project |-> CHOOSE i \in DOMAIN projects :
                                           projects[i] = s.project])
                  ELSE [t \in DOMAIN tables.traces |->
                          IF t \notin known THEN tables.traces[t]
                          ELSE [tables.traces[t] EXCEPT
                                  !.start = TextMin(@, s.start),
                                  !.end = TextMax(@, s.end)]]
        span == [id |-> s.id, error |-> s.error, tokens |-> s.tokens,
                 trace |-> CHOOSE t \in DOMAIN traces : traces[t].id = s.trace]
    IN [projects |-> projects, traces |-> traces,
        spans |-> IF RowsOf(tables.spans, LAMBDA r : r.id = s.id) = {}
                  THEN Append(tables.spans, span) ELSE tables.spans]
-----------------------------------------------------------------------------
(* The queries. *)

\* Mutant: the name tried as well when the integer is no rowid.
FindProjectRowsOrName(tables, identifier) ==
    {i \in DOMAIN tables.projects :
        IF identifier \in DOMAIN Numeric /\ Numeric[identifier] \in DOMAIN tables.projects
        THEN i = Numeric[identifier]
        ELSE tables.projects[i] = identifier}

\* FindProject: an identifier that parses as an integer is only ever a rowid.
FindProjectRows(tables, identifier) ==
    {i \in DOMAIN tables.projects :
        IF identifier \in DOMAIN Numeric THEN i = Numeric[identifier]
        ELSE tables.projects[i] = identifier}

SpansOf(tables, t) == {i \in DOMAIN tables.spans : tables.spans[i].trace = t}

HasError(tables, t) ==
    \E i \in SpansOf(tables, t) : tables.spans[i].error

\* The SUM of fillTokenCounts; a span of another kind than LLM has no tokens.
TokenTotal(tables, t) ==
    SumFunctionOnSet([i \in DOMAIN tables.spans |-> tables.spans[i].tokens],
                     SpansOf(tables, t))

\* Mutant: an upper bound that includes the instant it names.
StartsWithinOrAt(w, start) ==
    /\ w.from # NoBound => ~TextBefore(start, w.from)
    /\ w.to # NoBound => ~TextBefore(w.to, start)

\* The conditions on t.start_time.
StartsWithin(w, start) ==
    /\ w.from # NoBound => ~TextBefore(start, w.from)
    /\ w.to # NoBound => TextBefore(start, w.to)

\* The rows the WHERE clause of a query keeps, the cursor left aside.
Matching(tables, w, p) ==
    CASE w.list = "projects" -> DOMAIN tables.projects
      [] w.list = "project" -> {}
      [] w.list = "spans" ->
            {i \in DOMAIN tables.spans :
                /\ tables.traces[tables.spans[i].trace].project = p
                /\ w.error # "any" => tables.spans[i].error = (w.error = "true")}
      [] w.list = "trace" ->
            {i \in DOMAIN tables.spans :
                LET t == tables.traces[tables.spans[i].trace] IN
                t.project = p /\ t.id = w.trace}
      [] w.list = "traces" ->
            {t \in DOMAIN tables.traces :
                /\ tables.traces[t].project = p
                /\ StartsWithin(w, tables.traces[t].start)
                /\ w.error # "any" => HasError(tables, t) = (w.error = "true")}

\* ListTraceSpans has no LIMIT.
Paged(w) == w.list # "trace"

ByRowid(w) == w.list # "traces"

\* The value a listing is ordered by, before the rowid.
SortKey(tables, w, r) ==
    CASE ByRowid(w) -> 0
      [] ~ByRowid(w) /\ w.sort = "start_time" -> TextKey(tables.traces[r].start)
      [] ~ByRowid(w) /\ w.sort = "latency_ms" ->
            tables.traces[r].end - tables.traces[r].start

\* ORDER BY: is (key, row) k before l in the walk's order?
Ahead(w, k, l) ==
    IF ~ByRowid(w) /\ w.order = "asc"
    THEN k.key < l.key \/ (k.key = l.key /\ k.row < l.row)
    ELSE k.key > l.key \/ (k.key = l.key /\ k.row > l.row)

Place(tables, w, r) == [key |-> SortKey(tables, w, r), row |-> r]

NoCursor == [key |-> 0, row |-> 0]

\* Mutant: a cursor that carries the sort value alone.
PastCursorSortValueOnly(tables, w, cursor, r) ==
    \/ cursor = NoCursor
    \/ IF ByRowid(w) THEN r <= cursor.row
       ELSE /\ Ahead(w, cursor, Place(tables, w, r))
            /\ SortKey(tables, w, r) # cursor.key

\* Mutant: the tuple comparison without the strictness of its last part.
PastCursorInclusive(tables, w, cursor, r) ==
    \/ cursor = NoCursor
    \/ IF ByRowid(w) THEN r <= cursor.row
       ELSE \/ Ahead(w, cursor, Place(tables, w, r))
            \/ Place(tables, w, r) = cursor

\* The cursor's condition.  Listings by rowid start at the cursor's row.  The
\* cursor of the latency order is bound as a text, and to SQLite every
\* number is less than every text.
PastCursor(tables, w, cursor, r) ==
    \/ cursor = NoCursor
    \/ CASE ByRowid(w) -> r <= cursor.row
         [] w.list = "traces" /\ w.sort = "start_time" ->
               Ahead(w, cursor, Place(tables, w, r))
         [] w.list = "traces" /\ w.sort = "latency_ms" -> w.order = "desc"

\* Mutant: the row that only signals "there is more" kept in the page.
LeadingWithExtra(tables, w, rows) ==
    {r \in rows : Paged(w) => Cardinality({q \in rows :
        Ahead(w, Place(tables, w, q), Place(tables, w, r))}) <= Limit}

\* scanPage: the first Limit of the rows, or all of them.
Leading(tables, w, rows) ==
    {r \in rows : Paged(w) => Cardinality({q \in rows :
        Ahead(w, Place(tables, w, q), Place(tables, w, r))}) < Limit}

\* The cursor a page is answered with: the place of its last row.
LastPlace(tables, w, page) ==
    Place(tables, w, CHOOSE r \in page : \A q \in page \ {r} :
        Ahead(w, Place(tables, w, q), Place(tables, w, r)))
-----------------------------------------------------------------------------
NoCounts == [t \in {} |-> 0]

NoWalk(label) == [pc |-> label, walk |-> CHOOSE w \in Walks : TRUE, project |-> 0,
          cursor |-> NoCursor, page |-> {}, next |-> NoCursor, counts |-> NoCounts,
          shown |-> {}, first |-> EmptyTables, seen |-> EmptyTables]

Init ==
    /\ db = FoldLeft(Insert, EmptyTables, Stored)
    /\ conn = Free
    /\ client = [c \in Clients |-> NoWalk("idle")]

At(c, label) == client[c].pc = label

\* Where a request begins: projectList alone does not look for a project.
Request(w) == IF w.list = "projects" THEN "query" ELSE "find"

\* A client asks for the first page.  It makes one walk.
Open(c, w) ==
    /\ At(c, "idle")
    /\ client' = [client EXCEPT ![c] =
                    [@ EXCEPT !.pc = Request(w), !.walk = w]]
    /\ UNCHANGED <<db, conn>>

\* FindProject; without a row the handler answers 404 and the walk is over.
FindProject(c) ==
    /\ At(c, "find") /\ conn = Free
    /\ LET found == FindProjectRows(db, client[c].walk.project) IN
       \/ /\ found = {}
          /\ client' = [client EXCEPT ![c] = NoWalk("failed")]
       \/ \E p \in found :
             client' = [client EXCEPT ![c] =
                [@ EXCEPT !.pc = IF client[c].walk.list = "project" THEN "answer" ELSE "query",
                          !.project = p]]
    /\ UNCHANGED <<db, conn>>

\* A parameter that does not parse is answered with 422, after the project
\* has been looked for.
Refuse(c) ==
    /\ At(c, "query") /\ client[c].walk.malformed
    /\ client' = [client EXCEPT ![c] = NoWalk("failed")]
    /\ UNCHANGED <<db, conn>>

\* ListProjects, ListSpans, ListTraces, ListTraceSpans: the page query, whose
\* open rows hold the connection.  The tables of the first page and of this
\* one are kept as history.
QueryPage(c) ==
    /\ At(c, "query") /\ ~client[c].walk.malformed /\ conn = Free
    /\ LET me == client[c]
           rows == {r \in Matching(db, me.walk, me.project) :
                      PastCursor(db, me.walk, me.cursor, r)}
           page == Leading(db, me.walk, rows)
       IN client' = [client EXCEPT ![c] =
            [me EXCEPT !.pc = "scan", !.page = page,
                       !.next = IF page # rows THEN LastPlace(db, me.walk, page) ELSE NoCursor,
                       !.seen = db,
                       !.first = IF me.cursor = NoCursor THEN db ELSE me.first]]
    /\ conn' = c
    /\ UNCHANGED db

\* What follows a page query: a page of traces still needs its token counts.
AfterScan(c) ==
    IF client[c].walk.list = "traces" /\ client[c].page # {} THEN "count" ELSE "answer"

\* Mutant: a page query whose rows stay open until ListTraces returns.
ScanPageKeepsRows(c) ==
    /\ At(c, "scan")
    /\ client' = [client EXCEPT ![c].pc = AfterScan(c)]
    /\ UNCHANGED <<db, conn>>

\* scanPage reads the rows to their end and closes them.
ScanPage(c) ==
    /\ At(c, "scan")
    /\ conn' = Free
    /\ client' = [client EXCEPT ![c].pc = AfterScan(c)]
    /\ UNCHANGED db

\* Mutant: the loop that collects the ids stops before the last of them.
FillTokenCountsButLast(c) ==
    /\ At(c, "count") /\ conn = Free
    /\ LET me == client[c]
           last == LastPlace(me.seen, me.walk, me.page).row
       IN client' = [client EXCEPT ![c] =
            [@ EXCEPT !.pc = "answer",
                      !.counts = [t \in me.page |-> IF t = last THEN 0 ELSE TokenTotal(db, t)]]]
    /\ UNCHANGED <<db, conn>>

\* fillTokenCounts: a second query, which needs the connection again.
FillTokenCounts(c) ==
    /\ At(c, "count") /\ conn = Free
    /\ client' = [client EXCEPT ![c] =
            [@ EXCEPT !.pc = "answer",
                      !.counts = [t \in client[c].page |-> TokenTotal(db, t)]]]
    /\ UNCHANGED <<db, conn>>

\* The answer; a client that finds a cursor in it asks for the next page.
Answer(c) ==
    /\ At(c, "answer")
    /\ LET me == client[c] IN
       client' = [client EXCEPT ![c] =
            [@ EXCEPT !.pc = IF me.next = NoCursor THEN "done" ELSE Request(me.walk),
                      !.shown = me.shown \cup me.page, !.page = {},
                      !.counts = NoCounts, !.seen = EmptyTables,
                      !.cursor = me.next, !.next = NoCursor]]
    /\ UNCHANGED <<db, conn>>

\* The client disconnects, which cancels the request's context, or a query
\* fails; rows that were open are closed.
Fail(c) ==
    /\ client[c].pc \notin {"idle", "done", "failed"}
    /\ client' = [client EXCEPT ![c] = NoWalk("failed")]
    /\ conn' = IF conn = c THEN Free ELSE conn
    /\ UNCHANGED db

\* The batcher's transaction.
BeginTx ==
    /\ conn = Free /\ conn' = Writer
    /\ UNCHANGED <<db, client>>

Commit(s) ==
    /\ conn = Writer /\ conn' = Free
    /\ db' = Insert(db, s)
    /\ UNCHANGED client

Rollback ==
    /\ conn = Writer /\ conn' = Free
    /\ UNCHANGED <<db, client>>

EndTx == Rollback \/ \E s \in Spans : Commit(s)

Step(c) ==
    \/ FindProject(c) \/ Refuse(c)
    \/ QueryPage(c) \/ ScanPage(c) \/ FillTokenCounts(c) \/ Answer(c)

Next ==
    \/ \E c \in Clients : Step(c) \/ Fail(c) \/ \E w \in WalksOf[c] : Open(c, w)
    \/ BeginTx \/ EndTx

\* database/sql gives a connection that is returned to one of those who wait
\* for it, so whoever waits again and again is served in the end.
Fairness ==
    /\ \A c \in Clients : SF_vars(Step(c))
    /\ WF_vars(EndTx)

Spec == Init /\ [][Next]_vars /\ Fairness
-----------------------------------------------------------------------------
(* Properties. *)

\* Tables, cursors and pages are what the schema and the queries allow; no
\* page is longer than the limit the client asked for.
TypeOK ==
    /\ DOMAIN db = {"projects", "traces", "spans"}
    /\ conn \in {Free, Writer} \cup Clients
    /\ \A c \in Clients :
          /\ client[c].pc \in {"idle", "find", "query", "scan", "count",
                               "answer", "done", "failed"}
          /\ client[c].walk \in Walks
          /\ client[c].project \in {0} \cup DOMAIN db.projects
          /\ client[c].cursor.row \in Nat /\ client[c].next.row \in Nat
          /\ IsFiniteSet(client[c].page)
          /\ Paged(client[c].walk) => Cardinality(client[c].page) <= Limit

\* The listing's rows as they were at its first page and are now.
Then(c) == Matching(client[c].first, client[c].walk, client[c].project)
Now(c)  == Matching(db, client[c].walk, client[c].project)

\* Has the row been filed at another place of the order since the first page?
Moved(c, r) ==
    \/ r \notin Then(c)
    \/ SortKey(client[c].first, client[c].walk, r) # SortKey(db, client[c].walk, r)

Descends(w) == ByRowid(w) \/ w.order = "desc"

\* "Keyset pagination ... so pages remain stable": a walk that reaches the
\* last page has shown every row that matched from its beginning to its end,
\* whatever was committed between its pages.  Walks in ascending order of
\* start_time may miss a trace whose start moved back behind the cursor, and
\* no other.
NothingSkipped ==
    \A c \in Clients : At(c, "done") =>
        \A r \in Then(c) \cap Now(c) :
            r \in client[c].shown \/ (~Descends(client[c].walk) /\ Moved(c, r))

\* A trace is shown twice only in descending order and only when its start
\* moved back meanwhile; a listing by rowid repeats nothing but the row its
\* cursor names.
RepeatsExplained ==
    \A c \in Clients : At(c, "scan") =>
        \A r \in client[c].page \cap client[c].shown :
            IF ByRowid(client[c].walk) THEN r = client[c].cursor.row
            ELSE Descends(client[c].walk) /\ Moved(c, r)

\* The project that a row of a listing belongs to.
ProjectOfRow(w, r) ==
    IF w.list = "traces" THEN db.traces[r].project
    ELSE db.traces[db.spans[r].trace].project

\* Each page looks the project up anew, while projects appear: the rows of a
\* walk are all of the one project that the identifier leads to, a rowid or
\* a name.
OneProject ==
    \A c \in Clients : client[c].walk.list \in {"spans", "traces", "trace"} =>
        \A r \in client[c].page \cup client[c].shown :
            /\ ProjectOfRow(client[c].walk, r) = client[c].project
            /\ client[c].project \in FindProjectRows(db, client[c].walk.project)

SameSecond(t, u) == t \div Second = u \div Second

\* The interval a client asks for, in times.
Within(w, t) ==
    /\ w.from # NoBound => t >= w.from
    /\ w.to # NoBound => t < w.to

\* In a bound's second texts and times are ordered differently.
NearBound(w, t) ==
    \E bound \in {w.from, w.to} \ {NoBound} : SameSecond(t, bound) /\ t # bound

\* The traces a client means by its filters.
Wanted(tables, w, p) ==
    {t \in DOMAIN tables.traces :
        /\ tables.traces[t].project = p
        /\ Within(w, tables.traces[t].start)
        /\ w.error # "any" => HasError(tables, t) = (w.error = "true")}

\* A page shows only traces from inside the interval, and a finished walk has
\* shown all of those that were wanted from its beginning to its end, but for
\* those that NothingSkipped excuses; with `tolerant`, traces near a bound may
\* be taken for the wrong side.
BoundsKept(c, tolerant) ==
    LET me == client[c]
        Excused(start) == tolerant /\ NearBound(me.walk, start)
    IN /\ At(c, "scan") =>
            \A r \in me.page : LET start == db.traces[r].start IN
                Within(me.walk, start) \/ Excused(start)
       /\ At(c, "done") =>
            \A r \in Wanted(me.first, me.walk, me.project)
                     \cap Wanted(db, me.walk, me.project) :
                \/ r \in me.shown
                \/ ~Descends(me.walk) /\ Moved(c, r)
                \/ Excused(me.first.traces[r].start) \/ Excused(db.traces[r].start)

\* The time filters compare texts: they take no trace for the wrong side of a
\* bound, shown or left out, unless it starts in the bound's second, through
\* all commits between the pages.
BoundsHold ==
    \A c \in Clients : client[c].walk.list = "traces" => BoundsKept(c, TRUE)

\* "inclusive lower bound on trace start", "exclusive upper bound on trace
\* start", on a text that "sorts chronologically".
BoundsExact ==
    \A c \in Clients : client[c].walk.list = "traces" => BoundsKept(c, FALSE)

\* The tables as they were when n spans were stored, as far as spans go.
WithSpans(tables, n) == [tables EXCEPT !.spans = SubSeq(@, 1, n)]

\* "token aggregates ... for exactly the page's trace ids": the counts of a
\* page come from a later query than its rows, and yet they are the totals of
\* the page's traces at one moment, with all the spans that the rows,
\* has_error included, were computed from, and none twice.
CountsCoverPage ==
    \A c \in Clients : At(c, "answer") /\ client[c].walk.list = "traces" =>
        \E n \in Len(client[c].seen.spans) .. Len(db.spans) :
            client[c].counts =
                [t \in client[c].page |-> TokenTotal(WithSpans(db, n), t)]

\* "rowid of the first row of the next page": no page of a listing by rowid
\* shows a row that an earlier page of the walk has shown.
NoRowTwice ==
    \A c \in Clients : At(c, "scan") /\ ByRowid(client[c].walk) =>
        client[c].page \cap client[c].shown = {}

\* Every walk comes to an end: no request waits for ever for the connection
\* that another, or its own first query, holds, and every page leads on.
WalksEnd ==
    \A c \in Clients :
        client[c].pc \notin {"idle", "done", "failed"} ~>
            client[c].pc \in {"done", "failed"}
=============================================================================
