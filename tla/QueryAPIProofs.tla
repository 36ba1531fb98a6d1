--------------------------- MODULE QueryAPIProofs ---------------------------
(***************************************************************************)
(* Proofs about the pages of the query API.                                *)
(*                                                                         *)
(* The argument has two halves.  Commits only let the tables grow: rows    *)
(* keep their places, but a trace's start may move back (Grew), so a row   *)
(* that matched a walk's conditions when it began and matches them now has *)
(* matched them all the time.  And every page continues where the last one *)
(* ended: what matched then and now has been shown, or is behind the edge  *)
(* that the cursor names, or is a trace that moved (Covered, Passed).      *)
(*                                                                         *)
(* What is said of a client is said of its record, me, and of the tables,  *)
(* so that a commit and a client's step can be looked at apart.            *)
(***************************************************************************)
EXTENDS QueryAPI, SumLemmas, SequenceTheorems

\* The spans there are, and the types of rows.
Sent == Spans \cup Range(Stored)
Names == {s.project : s \in Sent}
TraceRow == [id : {s.trace : s \in Sent}, start : Nat, end : Nat, project : Nat]
SpanRow == [id : {s.id : s \in Sent}, error : BOOLEAN, tokens : Int, trace : Nat]
Tables == [projects : Seq(Names), traces : Seq(TraceRow), spans : Seq(SpanRow)]

\* What the schema and the statements keep true of the tables.
Sound(T) ==
    /\ T \in Tables
    /\ \A i, j \in DOMAIN T.projects : T.projects[i] = T.projects[j] => i = j
    /\ \A t \in DOMAIN T.traces : T.traces[t].project \in DOMAIN T.projects
    /\ \A i \in DOMAIN T.spans : T.spans[i].trace \in DOMAIN T.traces

\* Rows are added; of those there are, only a trace's range changes, and its
\* start moves back.
Grew(T, U) ==
    /\ Len(T.projects) <= Len(U.projects)
    /\ Len(T.traces) <= Len(U.traces)
    /\ Len(T.spans) <= Len(U.spans)
    /\ \A i \in DOMAIN T.projects : U.projects[i] = T.projects[i]
    /\ \A i \in DOMAIN T.spans : U.spans[i] = T.spans[i]
    /\ \A t \in DOMAIN T.traces :
          /\ U.traces[t].id = T.traces[t].id
          /\ U.traces[t].project = T.traces[t].project
          /\ TextKey(U.traces[t].start) <= TextKey(T.traces[t].start)

Cursor == {NoCursor} \cup [key : Int, row : Nat \ {0}]

Client == [pc : {"idle", "find", "query", "scan", "count", "answer", "done", "failed"},
           walk : Walks, project : Nat, cursor : Cursor, page : SUBSET Nat,
           next : Cursor, counts : UNION {[P -> Int] : P \in SUBSET Nat},
           shown : SUBSET Nat, first : Tables, seen : Tables]

\* The table whose rows a listing shows.
Listed(T, w) ==
    CASE w.list = "projects" -> DOMAIN T.projects
      [] w.list = "traces" -> DOMAIN T.traces
      [] OTHER -> DOMAIN T.spans

Typed(me, T) ==
    /\ me \in Client
    /\ me.project \in {0} \cup DOMAIN T.projects
    /\ me.page \cup me.shown \subseteq Listed(T, me.walk)
    /\ Paged(me.walk) => Cardinality(me.page) <= Limit
    /\ ByRowid(me.walk) => me.cursor.key = 0 /\ me.next.key = 0
    /\ Sound(me.first) /\ Grew(me.first, T)
    /\ Sound(me.seen) /\ Grew(me.seen, T)

\* What the label says of the rest.
Staged(me) ==
    /\ me.pc \notin {"scan", "count", "answer"} => me.page = {} /\ me.next = NoCursor
    /\ me.pc \in {"idle", "failed", "done"} => me.cursor = NoCursor
    /\ me.cursor = NoCursor /\ me.pc # "done" => me.shown = {}
    /\ me.pc # "answer" => me.counts = NoCounts

\* The project has been looked for, and found.
HasProject(me) ==
    \/ me.pc \in {"query", "scan", "count", "answer", "done"}
    \/ me.cursor # NoCursor

Found(me, T) ==
    me.walk.list # "projects" /\ HasProject(me) =>
        me.project \in FindProjectRows(T, me.walk.project)

Filed(T, w, r) ==
    IF w.list = "traces" THEN T.traces[r].project
    ELSE T.traces[T.spans[r].trace].project

Ours(me, T) ==
    me.walk.list \in {"spans", "traces", "trace"} =>
        \A r \in me.page \cup me.shown :
            HasProject(me) /\ Filed(T, me.walk, r) = me.project

\* The rows are open: what they show is what is stored.
Scanned(me, T) ==
    me.pc = "scan" =>
        me.page \subseteq Matching(T, me.walk, me.project)

Counted(me, T) ==
    me.pc = "answer" /\ me.walk.list = "traces" =>
        \E n \in Len(me.seen.spans) .. Len(T.spans) :
            me.counts = [t \in me.page |-> TokenTotal(WithSpans(T, n), t)]

\* A walk that has had a page, and the place up to which it has come.
Begun(me) == me.pc \in {"scan", "count", "answer", "done"} \/ me.cursor # NoCursor

Edge(me) == IF me.pc \in {"scan", "count", "answer"} THEN me.next ELSE me.cursor

Stayed(me, T, r) ==
    /\ r \in Matching(me.first, me.walk, me.project)
    /\ SortKey(me.first, me.walk, r) = SortKey(T, me.walk, r)

\* What is still to come lies behind the edge.
Covered(me, T) ==
    Begun(me) =>
        \A r \in Matching(me.first, me.walk, me.project) \cap Matching(T, me.walk, me.project) :
            \/ r \in me.shown \cup me.page
            \/ Edge(me) # NoCursor /\ Ahead(me.walk, Edge(me), Place(T, me.walk, r))
            \/ ~Descends(me.walk) /\ ~Stayed(me, T, r)

\* What has been shown does not.
Passed(me, T) ==
    Edge(me) # NoCursor =>
        \A r \in me.shown \cup me.page :
            \/ ~Ahead(me.walk, Edge(me), Place(T, me.walk, r))
            \/ ~ByRowid(me.walk) /\ Descends(me.walk) /\ ~Stayed(me, T, r)

Repeated(me, T) ==
    me.pc = "scan" =>
        \A r \in me.page \cap me.shown :
            IF ByRowid(me.walk) THEN r = me.cursor.row
            ELSE Descends(me.walk) /\ ~Stayed(me, T, r)

Good(me, T) ==
    /\ Typed(me, T) /\ Staged(me) /\ Found(me, T) /\ Ours(me, T)
    /\ Scanned(me, T) /\ Counted(me, T)

Ordered(me, T) == Covered(me, T) /\ Passed(me, T) /\ Repeated(me, T)

IInv ==
    /\ Sound(db)
    /\ conn \in {Free, Writer} \cup Clients
    /\ DOMAIN client = Clients
    /\ \A c \in Clients : Good(client[c], db) /\ (client[c].pc = "scan" => conn = c)

WalkInv == IInv /\ \A c \in Clients : Ordered(client[c], db)
-----------------------------------------------------------------------------
(* The tables grow. *)

\* The order of texts is that of integers, and between two seconds that of
\* times.
LEMMA TextOrder ==
  ASSUME NEW t \in Nat, NEW u \in Nat
  PROVE  /\ TextKey(t) \in Int
         /\ TextBefore(t, u) <=> TextKey(t) < TextKey(u)
         /\ t \div Second < u \div Second => TextBefore(t, u)
<1>1. \A n \in Nat : /\ n \div Second \in Int /\ n % 10 \in 0 .. 9
                     /\ (n \div 10) % 10 \in 0 .. 9
  BY DEF Second
<1>2. \A n \in Nat : TenthsKey(n) \in 0 .. 10 /\ HundredthsKey(n) \in 0 .. 10
  BY <1>1 DEF TenthsKey, HundredthsKey, Zulu
<1> DEFINE s == t \div Second  r == u \div Second
<1>3. s \in Int /\ r \in Int BY <1>1
<1>4. /\ TextKey(t) = 121 * s + 11 * TenthsKey(t) + HundredthsKey(t)
      /\ TextKey(u) = 121 * r + 11 * TenthsKey(u) + HundredthsKey(u)
  BY DEF TextKey
<1> HIDE DEF s, r
<1>5. TextKey(t) \in Int BY <1>2, <1>3, <1>4
<1>6. s < r => TextKey(t) < TextKey(u) BY <1>2, <1>3, <1>4
<1> QED BY <1>5, <1>6 DEF TextBefore, s, r

\* The spans have the types of what the handlers read.
LEMMA SentTyped ==
  ASSUME NEW s \in Sent
  PROVE  s.start \in Nat /\ s.end \in Nat /\ s.error \in BOOLEAN /\ s.tokens \in Int
BY SpansAssumption DEF Sent

\* The rows of a table.
LEMMA TableRows ==
  ASSUME NEW R, NEW q \in Seq(R)
  PROVE  /\ Len(q) \in Nat /\ DOMAIN q = 1 .. Len(q)
         /\ \A i \in DOMAIN q : q[i] \in R
<1>1. q \in [1 .. Len(q) -> R] /\ Len(q) \in Nat BY LenProperties
<1> QED BY <1>1

\* The rows of sound tables.
LEMMA SoundRows ==
  ASSUME NEW T, Sound(T)
  PROVE  /\ Len(T.projects) \in Nat /\ DOMAIN T.projects = 1 .. Len(T.projects)
         /\ Len(T.traces) \in Nat /\ DOMAIN T.traces = 1 .. Len(T.traces)
         /\ Len(T.spans) \in Nat /\ DOMAIN T.spans = 1 .. Len(T.spans)
         /\ \A t \in DOMAIN T.traces :
               /\ T.traces[t] \in TraceRow
               /\ T.traces[t].start \in Nat /\ T.traces[t].end \in Nat
               /\ TextKey(T.traces[t].start) \in Int
         /\ \A i \in DOMAIN T.spans :
               T.spans[i] \in SpanRow /\ T.spans[i].error \in BOOLEAN
               /\ T.spans[i].tokens \in Int
<1>1. T.projects \in Seq(Names) /\ T.traces \in Seq(TraceRow) /\ T.spans \in Seq(SpanRow)
  BY DEF Sound, Tables
<1>2. /\ \A t \in DOMAIN T.traces : T.traces[t] \in TraceRow
      /\ \A i \in DOMAIN T.spans : T.spans[i] \in SpanRow
  BY <1>1, TableRows
<1>3. /\ Len(T.projects) \in Nat /\ DOMAIN T.projects = 1 .. Len(T.projects)
      /\ Len(T.traces) \in Nat /\ DOMAIN T.traces = 1 .. Len(T.traces)
      /\ Len(T.spans) \in Nat /\ DOMAIN T.spans = 1 .. Len(T.spans)
  BY <1>1, TableRows
<1>4. \A r \in TraceRow : r.start \in Nat /\ r.end \in Nat BY DEF TraceRow
<1>5. \A r \in SpanRow : r.error \in BOOLEAN /\ r.tokens \in Int BY DEF SpanRow
<1> QED BY <1>2, <1>3, <1>4, <1>5, TextOrder

LEMMA GrewRefl == ASSUME NEW T, Sound(T) PROVE Grew(T, T)
<1>1. \A m \in Int : m <= m OBVIOUS
<1> QED BY <1>1, SoundRows DEF Grew

LEMMA GrewTrans ==
  ASSUME NEW T, NEW U, NEW V, Sound(T), Sound(U), Sound(V), Grew(T, U), Grew(U, V)
  PROVE  Grew(T, V)
<1>1. \A X \in {T, U, V} :
        /\ Len(X.projects) \in Nat /\ Len(X.traces) \in Nat /\ Len(X.spans) \in Nat
        /\ DOMAIN X.projects = 1 .. Len(X.projects)
        /\ DOMAIN X.traces = 1 .. Len(X.traces) /\ DOMAIN X.spans = 1 .. Len(X.spans)
        /\ \A t \in DOMAIN X.traces : TextKey(X.traces[t].start) \in Int
  BY SoundRows
<1>2. DOMAIN T.projects \subseteq DOMAIN U.projects
      /\ DOMAIN T.traces \subseteq DOMAIN U.traces /\ DOMAIN T.spans \subseteq DOMAIN U.spans
      /\ DOMAIN U.traces \subseteq DOMAIN V.traces
  BY <1>1 DEF Grew
<1>3. Len(T.projects) <= Len(V.projects) /\ Len(T.traces) <= Len(V.traces)
      /\ Len(T.spans) <= Len(V.spans)
  <2>1. \A m, n, k \in Nat : m <= n /\ n <= k => m <= k OBVIOUS
  <2> QED BY <1>1, <2>1 DEF Grew
<1>4. ASSUME NEW t \in DOMAIN T.traces
      PROVE  TextKey(V.traces[t].start) <= TextKey(T.traces[t].start)
  <2>1. t \in DOMAIN U.traces /\ t \in DOMAIN V.traces BY <1>2
  <2>2. /\ TextKey(V.traces[t].start) <= TextKey(U.traces[t].start)
        /\ TextKey(U.traces[t].start) <= TextKey(T.traces[t].start)
    BY <2>1 DEF Grew
  <2>3. /\ TextKey(V.traces[t].start) \in Int /\ TextKey(U.traces[t].start) \in Int
        /\ TextKey(T.traces[t].start) \in Int
    BY <1>1, <2>1
  <2> QED BY <2>2, <2>3
<1> QED BY <1>2, <1>3, <1>4 DEF Grew

\* Rows stay.
LEMMA GrewKeeps ==
  ASSUME NEW T, NEW U, Sound(T), Sound(U), Grew(T, U)
  PROVE  /\ DOMAIN T.projects \subseteq DOMAIN U.projects
         /\ DOMAIN T.traces \subseteq DOMAIN U.traces
         /\ DOMAIN T.spans \subseteq DOMAIN U.spans
<1>1. \A X \in {T, U} :
        /\ Len(X.projects) \in Nat /\ Len(X.traces) \in Nat /\ Len(X.spans) \in Nat
        /\ DOMAIN X.projects = 1 .. Len(X.projects)
        /\ DOMAIN X.traces = 1 .. Len(X.traces) /\ DOMAIN X.spans = 1 .. Len(X.spans)
  BY SoundRows
<1> QED BY <1>1 DEF Grew

\* A transaction adds rows or widens a trace's range, and keeps the tables
\* sound.
LEMMA InsertGrows ==
  ASSUME NEW T, Sound(T), NEW s \in Sent
  PROVE  Sound(Insert(T, s)) /\ Grew(T, Insert(T, s))
<1> DEFINE projects == IF s.project \in Range(T.projects) THEN T.projects
                       ELSE Append(T.projects, s.project)
           known == {t \in DOMAIN T.traces : T.traces[t].id = s.trace}
           p == CHOOSE i \in DOMAIN projects : projects[i] = s.project
           fresh == [id |-> s.trace, start |-> s.start, end |-> s.end, project |-> p]
           Wider(r) == [r EXCEPT !.start = TextMin(@, s.start), !.end = TextMax(@, s.end)]
           traces == IF known = {} THEN Append(T.traces, fresh)
                     ELSE [t \in DOMAIN T.traces |->
                             IF t \notin known THEN T.traces[t] ELSE Wider(T.traces[t])]
           k == CHOOSE t \in DOMAIN traces : traces[t].id = s.trace
           row == [id |-> s.id, error |-> s.error, tokens |-> s.tokens, trace |-> k]
           spans == IF {i \in DOMAIN T.spans : T.spans[i].id = s.id} = {}
                    THEN Append(T.spans, row) ELSE T.spans
<1>0. Insert(T, s) = [projects |-> projects, traces |-> traces, spans |-> spans]
  BY DEF Insert, RowsOf
<1>1. /\ T.projects \in Seq(Names) /\ T.traces \in Seq(TraceRow) /\ T.spans \in Seq(SpanRow)
      /\ s.project \in Names /\ s.start \in Nat /\ s.end \in Nat
  BY SentTyped DEF Sound, Tables, Names
<1>2. /\ projects \in Seq(Names) /\ Len(T.projects) <= Len(projects)
      /\ \A i \in DOMAIN T.projects : i \in DOMAIN projects /\ projects[i] = T.projects[i]
      /\ \A i, j \in DOMAIN projects : projects[i] = projects[j] => i = j
      /\ \E i \in DOMAIN projects : projects[i] = s.project
  <2>1. CASE s.project \in Range(T.projects)
    <3>1. projects = T.projects BY <2>1
    <3> QED BY <1>1, <2>1, <3>1 DEF Range, Sound
  <2>2. CASE s.project \notin Range(T.projects)
    <3>1. projects = Append(T.projects, s.project) BY <2>2
    <3>2. /\ projects \in Seq(Names) /\ Len(projects) = Len(T.projects) + 1
          /\ \A i \in 1 .. Len(T.projects) : projects[i] = T.projects[i]
          /\ projects[Len(T.projects) + 1] = s.project
      BY <1>1, <3>1, AppendProperties
    <3>3. Len(T.projects) \in Nat /\ DOMAIN T.projects = 1 .. Len(T.projects)
          /\ DOMAIN projects = 1 .. Len(T.projects) + 1
      BY <1>1, <3>2
    <3> HIDE DEF projects
    <3>4. \A i \in DOMAIN T.projects : projects[i] # s.project
      BY <2>2, <3>2, <3>3 DEF Range
    <3> QED BY <3>2, <3>3, <3>4 DEF Sound
  <2> QED BY <2>1, <2>2
<1> HIDE DEF projects
<1>3. p \in DOMAIN projects /\ p \in Nat BY <1>2
<1> HIDE DEF p
<1>4. fresh \in TraceRow /\ fresh.id = s.trace /\ fresh.project = p
  BY <1>1, <1>3 DEF TraceRow
<1>5. ASSUME NEW r \in TraceRow
      PROVE  /\ Wider(r) \in TraceRow /\ Wider(r).id = r.id /\ Wider(r).project = r.project
             /\ TextKey(Wider(r).start) <= TextKey(r.start)
  <2>1. r.start \in Nat /\ r.end \in Nat BY DEF TraceRow
  <2>2. TextMin(r.start, s.start) \in Nat /\ TextMax(r.end, s.end) \in Nat
        /\ TextKey(TextMin(r.start, s.start)) <= TextKey(r.start)
    <3> DEFINE x == r.start
               y == s.start
    <3>1. x \in Nat /\ y \in Nat BY <1>1, <2>1
    <3>2. TextMax(r.end, s.end) \in Nat BY <1>1, <2>1 DEF TextMax
    <3> HIDE DEF x, y
    <3>3. /\ TextKey(x) \in Int /\ TextKey(y) \in Int
          /\ TextBefore(y, x) <=> TextKey(y) < TextKey(x)
      BY <3>1, TextOrder
    <3>4. TextMin(x, y) \in Nat /\ TextKey(TextMin(x, y)) <= TextKey(x)
      <4>1. CASE TextBefore(y, x)
        <5>1. TextMin(x, y) = y BY <4>1 DEF TextMin
        <5> QED BY <3>1, <3>3, <4>1, <5>1
      <4>2. CASE ~TextBefore(y, x)
        <5>1. TextMin(x, y) = x BY <4>2 DEF TextMin
        <5> QED BY <3>1, <3>3, <5>1
      <4> QED BY <4>1, <4>2
    <3> QED BY <3>2, <3>4 DEF x, y
  <2> DEFINE first == TextMin(r.start, s.start)
             end == TextMax(r.end, s.end)
  <2>3. Wider(r) = [r EXCEPT !.start = first, !.end = end] OBVIOUS
  <2> HIDE DEF first, end, Wider
  <2>4. first \in Nat /\ end \in Nat /\ TextKey(first) <= TextKey(r.start)
    BY <2>2 DEF first, end
  <2> QED BY <2>3, <2>4 DEF TraceRow
<1> HIDE DEF Wider, fresh
<1>6. /\ traces \in Seq(TraceRow) /\ Len(T.traces) <= Len(traces)
      /\ \A t \in DOMAIN T.traces :
            /\ t \in DOMAIN traces
            /\ traces[t].id = T.traces[t].id /\ traces[t].project = T.traces[t].project
            /\ TextKey(traces[t].start) <= TextKey(T.traces[t].start)
      /\ \A t \in DOMAIN traces : t \in DOMAIN T.traces \/ traces[t].project = p
      /\ \E t \in DOMAIN traces : traces[t].id = s.trace
  <2>0. \A t \in DOMAIN T.traces : T.traces[t] \in TraceRow /\ T.traces[t].start \in Nat
    BY SoundRows
  <2>1. CASE known = {}
    <3>1. traces = Append(T.traces, fresh) BY <2>1
    <3>2. /\ traces \in Seq(TraceRow) /\ Len(traces) = Len(T.traces) + 1
          /\ \A i \in 1 .. Len(T.traces) : traces[i] = T.traces[i]
          /\ traces[Len(T.traces) + 1] = fresh
      BY <1>1, <1>4, <3>1, AppendProperties
    <3>3. Len(T.traces) \in Nat /\ DOMAIN T.traces = 1 .. Len(T.traces)
          /\ DOMAIN traces = 1 .. Len(T.traces) + 1
      BY <1>1, <3>2
    <3> HIDE DEF traces, known
    <3>4. \A t \in DOMAIN T.traces : TextKey(T.traces[t].start) <= TextKey(T.traces[t].start)
      BY <2>0, TextOrder
    <3> QED BY <1>4, <3>2, <3>3, <3>4
  <2>2. CASE known # {}
    <3>1. traces = [t \in DOMAIN T.traces |->
                      IF t \notin known THEN T.traces[t] ELSE Wider(T.traces[t])]
      BY <2>2
    <3>2. DOMAIN traces = DOMAIN T.traces /\ DOMAIN T.traces = 1 .. Len(T.traces)
          /\ Len(T.traces) \in Nat
      BY <1>1, <3>1
    <3>3. \A t \in DOMAIN T.traces :
             /\ traces[t] \in TraceRow /\ traces[t].id = T.traces[t].id
             /\ traces[t].project = T.traces[t].project
             /\ TextKey(traces[t].start) <= TextKey(T.traces[t].start)
      BY <1>5, <2>0, <3>1, TextOrder
    <3>4. traces \in Seq(TraceRow) /\ Len(traces) = Len(T.traces)
      <4>1. traces = [t \in 1 .. Len(T.traces) |-> traces[t]] BY <3>1, <3>2
      <4> HIDE DEF traces, known
      <4>2. \A t \in 1 .. Len(T.traces) : traces[t] \in TraceRow BY <3>2, <3>3
      <4>3. [t \in 1 .. Len(T.traces) |-> traces[t]] \in Seq(TraceRow)
        BY <3>2, <4>2, IsASeq
      <4>4. traces \in Seq(TraceRow) BY <4>1, <4>3
      <4>5. DOMAIN traces = 1 .. Len(traces) /\ Len(traces) \in Nat BY <4>4, TableRows
      <4> QED BY <3>2, <4>4, <4>5
    <3>5. PICK t \in DOMAIN T.traces : T.traces[t].id = s.trace BY <2>2
    <3> HIDE DEF traces, known
    <3> QED BY <3>2, <3>3, <3>4, <3>5
  <2> QED BY <2>1, <2>2
<1> HIDE DEF traces
<1>7. k \in DOMAIN traces /\ k \in Nat BY <1>6
<1> HIDE DEF k
<1>8. row \in SpanRow /\ row.trace = k BY <1>7, SentTyped DEF SpanRow
<1> HIDE DEF row
<1>9. /\ spans \in Seq(SpanRow) /\ Len(T.spans) <= Len(spans)
      /\ \A i \in DOMAIN T.spans : i \in DOMAIN spans /\ spans[i] = T.spans[i]
      /\ \A i \in DOMAIN spans : i \in DOMAIN T.spans \/ spans[i].trace = k
  <2>1. CASE spans = T.spans
    <3> HIDE DEF spans
    <3>1. Len(T.spans) <= Len(T.spans) BY SoundRows
    <3> QED BY <1>1, <2>1, <3>1
  <2>2. CASE spans = Append(T.spans, row)
    <3>1. /\ spans \in Seq(SpanRow) /\ Len(spans) = Len(T.spans) + 1
          /\ \A i \in 1 .. Len(T.spans) : spans[i] = T.spans[i]
          /\ spans[Len(T.spans) + 1] = row
      BY <1>1, <1>8, <2>2, AppendProperties
    <3>2. Len(T.spans) \in Nat /\ DOMAIN T.spans = 1 .. Len(T.spans)
          /\ DOMAIN spans = 1 .. Len(T.spans) + 1
      BY <1>1, <3>1
    <3> HIDE DEF spans
    <3> QED BY <1>8, <3>1, <3>2
  <2> QED BY <2>1, <2>2
<1> HIDE DEF spans
<1>10. \A t \in DOMAIN traces : traces[t].project \in DOMAIN projects
  BY <1>2, <1>3, <1>6 DEF Sound
<1>11. \A i \in DOMAIN spans : spans[i].trace \in DOMAIN traces
  BY <1>6, <1>7, <1>9 DEF Sound
<1> DEFINE U == [projects |-> projects, traces |-> traces, spans |-> spans]
<1>12. U.projects = projects /\ U.traces = traces /\ U.spans = spans OBVIOUS
<1>13. U \in Tables BY <1>2, <1>6, <1>9 DEF Tables
<1> HIDE DEF U
<1>14. Sound(U) BY <1>2, <1>10, <1>11, <1>12, <1>13 DEF Sound
<1>15. Grew(T, U) BY <1>2, <1>6, <1>9, <1>12 DEF Grew
<1> QED BY <1>0, <1>14, <1>15 DEF U
-----------------------------------------------------------------------------
(* The database at the start: a fold over what was stored before.          *)

\* One step of the fold, with g for the rest.
Filling(g, S) ==
    IF S = {} THEN EmptyTables ELSE Insert(g[S \ {Max(S)}], Stored[Max(S)])

IsFilling(g) == g = [S \in SUBSET DOMAIN Stored |-> Filling(g, S)]

LEMMA FillingExists == \E g : IsFilling(g)
<1> DEFINE D == DOMAIN Stored
           Small(n) == {S \in SUBSET D : Cardinality(S) <= n}
           Partly(g, n) == g = [S \in Small(n) |-> Filling(g, S)]
           N == {n \in Nat : \E g : Partly(g, n)}
<1>a. IsFiniteSet(D) /\ D \subseteq Nat
  <2>1. Stored \in Seq(Range(Stored)) BY SpansAssumption
  <2>2. D = 1 .. Len(Stored) /\ Len(Stored) \in Nat BY <2>1, TableRows
  <2> QED BY <2>2, FS_Interval
<1>0. \A S \in SUBSET D : IsFiniteSet(S) /\ Cardinality(S) \in Nat
  BY <1>a, FS_Subset, FS_CardinalityType
<1>1. 0 \in N
  <2> DEFINE g == [S \in Small(0) |-> EmptyTables]
  <2>1. \A S \in Small(0) : S = {} BY <1>0, FS_EmptySet
  <2>2. \A S \in Small(0) : Filling(g, S) = EmptyTables BY <2>1 DEF Filling
  <2>3. Partly(g, 0) BY <2>2
  <2> QED BY <2>3
<1>2. ASSUME NEW n \in Nat, n \in N PROVE n + 1 \in N
  <2>1. PICK g : Partly(g, n) BY <1>2
  <2> DEFINE h == [S \in Small(n + 1) |-> Filling(g, S)]
  <2>2. ASSUME NEW S \in Small(n + 1) PROVE Filling(h, S) = Filling(g, S)
    <3>1. CASE S = {} BY <3>1 DEF Filling
    <3>2. CASE S # {}
      <4> DEFINE R == S \ {Max(S)}
      <4>0. Max(S) \in S BY <1>a, <1>0, <3>2, MaxIn
      <4>1. R \in SUBSET D /\ Cardinality(R) = Cardinality(S) - 1
        BY <1>0, <4>0, FS_RemoveElement
      <4>2. R \in Small(n) /\ R \in Small(n + 1)
        BY <1>0, <4>1
      <4>3. g[R] = Filling(g, R) BY <2>1, <4>2
      <4>4. h[R] = Filling(g, R) BY <4>2
      <4> QED BY <3>2, <4>3, <4>4 DEF Filling
    <3> QED BY <3>1, <3>2
  <2>3. Partly(h, n + 1) BY <2>2
  <2> HIDE DEF h
  <2> QED BY <2>3
<1>3. Nat \subseteq N
  <2> HIDE DEF N
  <2> QED BY <1>1, <1>2, Upward
<1>4. PICK g : Partly(g, Cardinality(D))
  BY <1>0, <1>3
<1>5. Small(Cardinality(D)) = SUBSET D
  BY <1>0, <1>a, FS_Subset
<1> QED BY <1>4, <1>5 DEF IsFilling

\* The database that the first request meets is sound.
LEMMA StoredSound == Sound(FoldLeft(Insert, EmptyTables, Stored))
<1> DEFINE D == DOMAIN Stored
           g == CHOOSE g : IsFilling(g)
<1>1. FoldLeft(Insert, EmptyTables, Stored) = g[D]
  <2>1. FoldLeft(Insert, EmptyTables, Stored) =
          LET iter[S \in SUBSET D] ==
                IF S = {} THEN EmptyTables
                ELSE LET x == Max(S) IN Insert(iter[S \ {x}], Stored[x])
          IN  iter[D]
    BY DEF FoldLeft, MapThenFoldSet
  <2> QED BY <2>1 DEF IsFilling, Filling
<1>2. IsFilling(g) BY FillingExists
<1> HIDE DEF g
<1>a. IsFiniteSet(D) /\ D \subseteq Nat /\ \A i \in D : Stored[i] \in Sent
  <2>1. Stored \in Seq(Range(Stored)) BY SpansAssumption
  <2>2. D = 1 .. Len(Stored) /\ Len(Stored) \in Nat /\ \A i \in D : Stored[i] \in Range(Stored)
    BY <2>1, TableRows
  <2> QED BY <2>2, FS_Interval DEF Sent
<1> DEFINE A == {S \in SUBSET D : Sound(g[S])}
<1>3. ASSUME NEW S \in SUBSET D, \A x \in S : S \ {x} \in A PROVE S \in A
  <2>1. g[S] = Filling(g, S) BY <1>2 DEF IsFilling
  <2>2. CASE S = {}
    <3>1. EmptyTables \in Tables BY EmptySeq DEF EmptyTables, Tables
    <3>2. Sound(EmptyTables) BY <3>1 DEF Sound, EmptyTables
    <3> QED BY <2>1, <2>2, <3>2 DEF Filling
  <2>3. CASE S # {}
    <3>1. Max(S) \in S /\ Stored[Max(S)] \in Sent BY <1>a, <2>3, MaxIn, FS_Subset
    <3>2. Sound(g[S \ {Max(S)}]) BY <1>3, <3>1
    <3>3. Sound(Insert(g[S \ {Max(S)}], Stored[Max(S)])) BY <3>1, <3>2, InsertGrows
    <3> QED BY <2>1, <2>3, <3>3 DEF Filling
  <2> QED BY <2>2, <2>3
<1>4. SUBSET D \subseteq A
  <2> HIDE DEF A, D
  <2> QED BY <1>a, <1>3, SubsetInduction
<1> QED BY <1>1, <1>4
-----------------------------------------------------------------------------
(* The rows of a listing. *)

LEMMA WalkTyped ==
  ASSUME NEW w \in Walks
  PROVE  /\ w.list \in {"projects", "project", "spans", "traces", "trace"}
         /\ w.sort \in {"start_time", "latency_ms"} /\ w.order \in {"asc", "desc"}
         /\ w.from \in Nat \cup {NoBound} /\ w.to \in Nat \cup {NoBound}
BY WalksAssumption DEF Walk

\* Listings show rows of one table.
LEMMA MatchingListed ==
  ASSUME NEW T, Sound(T), NEW w \in Walks, NEW p
  PROVE  /\ Matching(T, w, p) \subseteq Listed(T, w)
         /\ Listed(T, w) \subseteq Nat \ {0} /\ IsFiniteSet(Listed(T, w))
<1>1. \A n \in Nat : 1 .. n \subseteq Nat \ {0} /\ IsFiniteSet(1 .. n)
  BY FS_Interval
<1>2. Listed(T, w) \in {1 .. Len(T.projects), 1 .. Len(T.traces), 1 .. Len(T.spans)}
  BY SoundRows, WalkTyped DEF Listed
<1>3. Matching(T, w, p) \subseteq Listed(T, w)
  BY WalkTyped DEF Matching, Listed
<1> QED BY <1>1, <1>2, <1>3, SoundRows

LEMMA KeyTyped ==
  ASSUME NEW T, Sound(T), NEW w \in Walks, NEW r \in Listed(T, w)
  PROVE  SortKey(T, w, r) \in Int /\ (ByRowid(w) => SortKey(T, w, r) = 0)
<1>1. CASE ByRowid(w) BY <1>1 DEF SortKey
<1>2. CASE ~ByRowid(w)
  <2>1. r \in DOMAIN T.traces BY <1>2 DEF Listed, ByRowid
  <2>2. /\ T.traces[r].start \in Nat /\ T.traces[r].end \in Nat
        /\ TextKey(T.traces[r].start) \in Int
    BY <2>1, SoundRows
  <2> QED BY <1>2, <2>2, WalkTyped DEF SortKey
<1> QED BY <1>1, <1>2

\* A span is found in every later state of its table, where it was and as it
\* was; of a trace the id and the project.
LEMMA ListedStays ==
  ASSUME NEW T, NEW U, Sound(T), Sound(U), Grew(T, U), NEW w \in Walks,
         NEW r \in Listed(T, w)
  PROVE  /\ r \in Listed(U, w)
         /\ w.list \in {"spans", "traces", "trace"} => Filed(U, w, r) = Filed(T, w, r)
<1>1. r \in Listed(U, w) BY GrewKeeps, WalkTyped DEF Listed
<1>2. CASE w.list = "traces"
  <2>1. r \in DOMAIN T.traces BY <1>2 DEF Listed
  <2> QED BY <1>1, <1>2, <2>1 DEF Filed, Grew
<1>3. CASE w.list \in {"spans", "trace"}
  <2>1. r \in DOMAIN T.spans BY <1>3 DEF Listed
  <2>2. T.spans[r].trace \in DOMAIN T.traces /\ U.spans[r] = T.spans[r]
    BY <2>1 DEF Sound, Grew
  <2> QED BY <1>1, <1>3, <2>2 DEF Filed, Grew
<1> QED BY <1>1, <1>2, <1>3

LEMMA MatchingFiled ==
  ASSUME NEW T, NEW w \in Walks, NEW p, NEW r \in Matching(T, w, p),
         w.list \in {"spans", "traces", "trace"}
  PROVE  Filed(T, w, r) = p
BY DEF Matching, Filed

\* The walks by start: latency_ms does not page at all, see NothingSkipped.
ByStart == \A w \in Walks : w.list = "traces" => w.sort = "start_time"

\* A trace only moves back.
LEMMA KeyFalls ==
  ASSUME ByStart, NEW T, NEW U, Sound(T), Sound(U), Grew(T, U),
         NEW w \in Walks, NEW r \in Listed(T, w)
  PROVE  SortKey(U, w, r) <= SortKey(T, w, r)
<1>1. CASE ByRowid(w) BY <1>1 DEF SortKey
<1>2. CASE ~ByRowid(w)
  <2>1. r \in DOMAIN T.traces /\ w.sort = "start_time"
    BY <1>2 DEF Listed, ByRowid, ByStart
  <2> QED BY <1>2, <2>1 DEF SortKey, Grew
<1> QED BY <1>1, <1>2

LEMMA ErrorStays ==
  ASSUME NEW T, NEW U, Sound(T), Sound(U), Grew(T, U), NEW t, HasError(T, t)
  PROVE  HasError(U, t)
BY GrewKeeps DEF HasError, SpansOf, Grew

\* A row that matches before and after has matched in between: what makes a
\* row match is fixed, or comes once, or goes once.
LEMMA MatchingConvex ==
  ASSUME NEW T, NEW U, NEW V, Sound(T), Sound(U), Sound(V), Grew(T, U), Grew(U, V),
         NEW w \in Walks, NEW p, NEW r \in Matching(T, w, p), r \in Matching(V, w, p)
  PROVE  r \in Matching(U, w, p)
<1>0. r \in Listed(T, w) /\ r \in Listed(U, w) BY MatchingListed, ListedStays
<1>1. CASE w.list = "projects" BY <1>0, <1>1 DEF Matching, Listed
<1>2. CASE w.list = "project" BY <1>2 DEF Matching
<1>3. CASE w.list = "spans"
  <2>1. r \in DOMAIN T.spans /\ r \in DOMAIN U.spans /\ U.spans[r] = T.spans[r]
    BY <1>0, <1>3 DEF Listed, Grew
  <2>2. T.spans[r].trace \in DOMAIN T.traces BY <2>1 DEF Sound
  <2>3. U.traces[T.spans[r].trace].project = T.traces[T.spans[r].trace].project
    BY <2>2 DEF Grew
  <2> QED BY <1>3, <2>1, <2>3 DEF Matching
<1>4. CASE w.list = "trace"
  <2>1. r \in DOMAIN T.spans /\ r \in DOMAIN U.spans /\ U.spans[r] = T.spans[r]
    BY <1>0, <1>4 DEF Listed, Grew
  <2>2. T.spans[r].trace \in DOMAIN T.traces BY <2>1 DEF Sound
  <2>3. /\ U.traces[T.spans[r].trace].project = T.traces[T.spans[r].trace].project
        /\ U.traces[T.spans[r].trace].id = T.traces[T.spans[r].trace].id
    BY <2>2 DEF Grew
  <2> QED BY <1>4, <2>1, <2>3 DEF Matching
<1>5. CASE w.list = "traces"
  <2>1. r \in DOMAIN T.traces /\ r \in DOMAIN U.traces /\ r \in DOMAIN V.traces
    BY <1>0, <1>5, GrewKeeps DEF Listed
  <2> DEFINE t == T.traces[r].start  u == U.traces[r].start  v == V.traces[r].start
  <2>2. U.traces[r].project = T.traces[r].project BY <2>1 DEF Grew
  <2>3. t \in Nat /\ u \in Nat /\ v \in Nat
        /\ TextKey(u) <= TextKey(t) /\ TextKey(v) <= TextKey(u)
    BY <2>1, SoundRows DEF Grew
  <2>4. T.traces[r].project = p /\ StartsWithin(w, t) /\ StartsWithin(w, v)
    BY <1>5 DEF Matching
  <2> HIDE DEF t, u, v
  <2>5. StartsWithin(w, u)
    <3>1. /\ w.from # NoBound => TextKey(w.from) \in Int /\ w.from \in Nat
          /\ w.to # NoBound => TextKey(w.to) \in Int /\ w.to \in Nat
      BY WalkTyped, TextOrder
    <3>2. TextKey(t) \in Int /\ TextKey(u) \in Int /\ TextKey(v) \in Int
      BY <2>3, TextOrder
    <3> QED BY <2>3, <2>4, <3>1, <3>2 DEF StartsWithin, TextBefore
  <2>6. w.error # "any" => HasError(U, r) = (w.error = "true")
    <3>1. w.error # "any" => /\ HasError(T, r) = (w.error = "true")
                             /\ HasError(V, r) = (w.error = "true")
      BY <1>5 DEF Matching
    <3>2. HasError(T, r) => HasError(U, r) BY ErrorStays
    <3>3. HasError(U, r) => HasError(V, r) BY ErrorStays
    <3>4. HasError(U, r) \in BOOLEAN BY DEF HasError
    <3> QED BY <3>1, <3>2, <3>3, <3>4
  <2> QED BY <1>5, <2>1, <2>2, <2>4, <2>5, <2>6 DEF Matching, u
<1> QED BY <1>1, <1>2, <1>3, <1>4, <1>5, WalkTyped

\* A project that is found stays the one.
LEMMA FoundStays ==
  ASSUME NEW T, NEW U, Sound(T), Sound(U), Grew(T, U), NEW x,
         NEW p \in FindProjectRows(T, x)
  PROVE  p \in FindProjectRows(U, x)
BY GrewKeeps DEF FindProjectRows, Grew

LEMMA FoundOnce ==
  ASSUME NEW T, Sound(T), NEW x, NEW p \in FindProjectRows(T, x),
         NEW q \in FindProjectRows(T, x)
  PROVE  p = q /\ p \in DOMAIN T.projects
BY DEF FindProjectRows, Sound
-----------------------------------------------------------------------------
(* A page. *)

Places == [key : Int, row : Int]

\* ORDER BY is a total order of places.
LEMMA AheadOrder ==
  ASSUME NEW w, NEW k \in Places, NEW l \in Places, NEW m \in Places
  PROVE  /\ ~Ahead(w, k, k)
         /\ Ahead(w, k, l) => ~Ahead(w, l, k)
         /\ Ahead(w, k, l) /\ Ahead(w, l, m) => Ahead(w, k, m)
         /\ k.row # l.row => Ahead(w, k, l) \/ Ahead(w, l, k)
<1>1. /\ k.key \in Int /\ k.row \in Int /\ l.key \in Int /\ l.row \in Int
      /\ m.key \in Int /\ m.row \in Int
  BY DEF Places
<1> QED BY <1>1 DEF Ahead

LEMMA PlaceTyped ==
  ASSUME NEW T, Sound(T), NEW w \in Walks, NEW r \in Listed(T, w)
  PROVE  /\ Place(T, w, r) \in Places /\ Place(T, w, r).row = r
         /\ Place(T, w, r).key = SortKey(T, w, r)
         /\ Place(T, w, r) # NoCursor /\ Place(T, w, r) \in Cursor
<1>1. SortKey(T, w, r) \in Int /\ r \in Nat \ {0} BY KeyTyped, MatchingListed
<1> QED BY <1>1 DEF Place, Places, NoCursor, Cursor

\* A finite set that a relation orders has a first element.
LEMMA Foremost ==
  ASSUME NEW S, IsFiniteSet(S), S # {}, NEW R,
         \A x, y \in S : x # y => <<x, y>> \in R \/ <<y, x>> \in R,
         \A x, y, z \in S : <<x, y>> \in R /\ <<y, z>> \in R => <<x, z>> \in R
  PROVE  \E x \in S : \A y \in S \ {x} : <<x, y>> \in R
<1> DEFINE A == {T \in SUBSET S : T # {} => \E x \in T : \A y \in T \ {x} : <<x, y>> \in R}
<1>1. ASSUME NEW T \in SUBSET S, \A x \in T : T \ {x} \in A PROVE T \in A
  <2> SUFFICES ASSUME T # {} PROVE \E x \in T : \A y \in T \ {x} : <<x, y>> \in R
    OBVIOUS
  <2>1. PICK z \in T : TRUE OBVIOUS
  <2>2. CASE T \ {z} = {} BY <2>1, <2>2
  <2>3. CASE T \ {z} # {}
    <3>1. PICK x \in T \ {z} : \A y \in (T \ {z}) \ {x} : <<x, y>> \in R
      BY <1>1, <2>3
    <3>2. CASE <<x, z>> \in R
      <4>1. \A y \in T \ {x} : <<x, y>> \in R BY <3>1, <3>2
      <4> QED BY <3>1, <4>1
    <3>3. CASE <<z, x>> \in R
      <4>1. \A y \in T \ {z} : <<z, y>> \in R BY <3>1, <3>3
      <4> QED BY <2>1, <4>1
    <3> QED BY <3>1, <3>2, <3>3
  <2> QED BY <2>2, <2>3
<1>2. SUBSET S \subseteq A
  <2> HIDE DEF A
  <2> QED BY <1>1, SubsetInduction
<1> QED BY <1>2

\* The rows of a query have a first one and a last one.
LEMMA RowsEnds ==
  ASSUME NEW T, Sound(T), NEW w \in Walks, NEW S \in SUBSET Listed(T, w), S # {}
  PROVE  /\ IsFiniteSet(S)
         /\ \E r \in S : \A q \in S \ {r} : Ahead(w, Place(T, w, r), Place(T, w, q))
         /\ \E r \in S : \A q \in S \ {r} : Ahead(w, Place(T, w, q), Place(T, w, r))
<1>0. IsFiniteSet(S) BY MatchingListed, FS_Subset
<1> DEFINE P(r) == Place(T, w, r)
           R == {e \in S \X S : Ahead(w, P(e[1]), P(e[2]))}
           Q == {e \in S \X S : Ahead(w, P(e[2]), P(e[1]))}
<1>1. \A r \in S : P(r) \in Places /\ P(r).row = r BY PlaceTyped
<1> HIDE DEF P
<1>2. \A x, y \in S : x # y => Ahead(w, P(x), P(y)) \/ Ahead(w, P(y), P(x))
  BY <1>1, AheadOrder
<1>3. \A x, y, z \in S : Ahead(w, P(x), P(y)) /\ Ahead(w, P(y), P(z)) => Ahead(w, P(x), P(z))
  BY <1>1, AheadOrder
<1>4. \A x, y \in S : /\ <<x, y>> \in R <=> Ahead(w, P(x), P(y))
                      /\ <<x, y>> \in Q <=> Ahead(w, P(y), P(x))
  OBVIOUS
<1> HIDE DEF R, Q
<1>5. \E r \in S : \A q \in S \ {r} : <<r, q>> \in R
  BY <1>0, <1>2, <1>3, <1>4, Foremost
<1>6. \E r \in S : \A q \in S \ {r} : <<r, q>> \in Q
  BY <1>0, <1>2, <1>3, <1>4, Foremost
<1> QED BY <1>0, <1>4, <1>5, <1>6 DEF P

\* A page is a beginning of its rows, no longer than the limit, and not empty
\* when there are rows; the cursor is its last row's place.
LEMMA LeadingIs ==
  ASSUME NEW T, Sound(T), NEW w \in Walks, NEW rows \in SUBSET Listed(T, w)
  PROVE  /\ Leading(T, w, rows) \subseteq rows /\ IsFiniteSet(Leading(T, w, rows))
         /\ Paged(w) => Cardinality(Leading(T, w, rows)) <= Limit
         /\ \A q \in Leading(T, w, rows) : \A r \in rows \ Leading(T, w, rows) :
               Ahead(w, Place(T, w, q), Place(T, w, r))
         /\ rows # {} => Leading(T, w, rows) # {}
<1> DEFINE page == Leading(T, w, rows)
           P(r) == Place(T, w, r)
           front(r) == {q \in rows : Ahead(w, P(q), P(r))}
<1>0. Limit \in Nat \ {0} BY LimitAssumption
<1>1. page = {r \in rows : Paged(w) => Cardinality(front(r)) < Limit}
  BY DEF Leading
<1>2. \A r \in rows : P(r) \in Places /\ P(r).row = r BY PlaceTyped
<1>3. IsFiniteSet(rows) BY MatchingListed, FS_Subset
<1>4. \A r \in rows : IsFiniteSet(front(r)) /\ Cardinality(front(r)) \in Nat
  BY <1>3, FS_Subset, FS_CardinalityType
<1> HIDE DEF page, P
<1>5. page \subseteq rows BY <1>1
<1>6. ASSUME NEW q \in page, NEW r \in rows \ page PROVE Ahead(w, P(q), P(r))
  <2>1. Paged(w) /\ ~(Cardinality(front(r)) < Limit) /\ Cardinality(front(q)) < Limit
    BY <1>1, <1>6
  <2>2. CASE Ahead(w, P(r), P(q))
    <3>1. front(r) \subseteq front(q) BY <1>2, <1>5, <2>2, AheadOrder
    <3>2. Cardinality(front(r)) <= Cardinality(front(q))
      <4>1. IsFiniteSet(front(q)) BY <1>4, <1>5
      <4> HIDE DEF front
      <4> QED BY <3>1, <4>1, FS_Subset
    <3> HIDE DEF front
    <3> QED BY <1>0, <1>4, <1>5, <2>1, <3>2
  <2>3. q # r BY <1>6
  <2>4. Ahead(w, P(q), P(r)) \/ Ahead(w, P(r), P(q)) BY <1>2, <1>5, <2>3, AheadOrder
  <2> QED BY <2>2, <2>4
<1>7. ASSUME rows # {} PROVE page # {}
  <2>1. PICK r \in rows : \A q \in rows \ {r} : Ahead(w, P(r), P(q))
    BY <1>7, RowsEnds DEF P
  <2>2. front(r) = {} BY <1>2, <2>1, AheadOrder
  <2>3. Cardinality(front(r)) = 0 BY <2>2, FS_EmptySet
  <2> QED BY <1>0, <1>1, <2>3
<1>8. ASSUME Paged(w) PROVE Cardinality(page) <= Limit
  <2>1. CASE page = {} BY <1>0, <2>1, FS_EmptySet
  <2>2. CASE page # {}
    <3>1. PICK r \in page : \A q \in page \ {r} : Ahead(w, P(q), P(r))
      BY <1>5, <2>2, RowsEnds DEF P
    <3>2. page \ {r} \subseteq front(r) BY <1>5, <3>1
    <3>3. Cardinality(front(r)) < Limit BY <1>1, <1>8
    <3>4. IsFiniteSet(page) BY <1>3, <1>5, FS_Subset
    <3>5. IsFiniteSet(front(r)) BY <1>4, <1>5
    <3> HIDE DEF front
    <3>6. Cardinality(page \ {r}) <= Cardinality(front(r)) BY <3>2, <3>5, FS_Subset
    <3>7. Cardinality(page \ {r}) = Cardinality(page) - 1 BY <3>1, <3>4, FS_RemoveElement
    <3>8. Cardinality(page) \in Nat /\ Cardinality(front(r)) \in Nat
      BY <3>4, <3>5, FS_CardinalityType
    <3> QED BY <1>0, <3>3, <3>6, <3>7, <3>8
  <2> QED BY <2>1, <2>2
<1>9. IsFiniteSet(page) BY <1>3, <1>5, FS_Subset
<1> QED BY <1>5, <1>6, <1>7, <1>8, <1>9 DEF page, P

LEMMA LastPlaceIs ==
  ASSUME NEW T, Sound(T), NEW w \in Walks, NEW page \in SUBSET Listed(T, w), page # {}
  PROVE  \E l \in page : /\ LastPlace(T, w, page) = Place(T, w, l)
                         /\ \A q \in page \ {l} : Ahead(w, Place(T, w, q), Place(T, w, l))
<1> DEFINE l == CHOOSE r \in page : \A q \in page \ {r} :
                  Ahead(w, Place(T, w, q), Place(T, w, r))
<1>1. l \in page /\ \A q \in page \ {l} : Ahead(w, Place(T, w, q), Place(T, w, l))
  BY RowsEnds
<1> QED BY <1>1 DEF LastPlace
-----------------------------------------------------------------------------
(* Commits. *)

\* What is counted up to a span does not depend on those that come later.
LEMMA CountsStay ==
  ASSUME NEW T, NEW U, Sound(T), Sound(U), Grew(T, U), NEW n \in 0 .. Len(T.spans), NEW t
  PROVE  TokenTotal(WithSpans(U, n), t) = TokenTotal(WithSpans(T, n), t)
<1>1. T \in Tables /\ U \in Tables BY DEF Sound
<1>2. WithSpans(T, n).spans = SubSeq(T.spans, 1, n) /\ WithSpans(U, n).spans = SubSeq(U.spans, 1, n)
  BY <1>1 DEF WithSpans, Tables
<1>3. /\ Len(T.spans) \in Nat /\ \A i \in 1 .. n : T.spans[i] \in SpanRow /\ U.spans[i] = T.spans[i]
  BY SoundRows DEF Grew
<1>4. SubSeq(U.spans, 1, n) = SubSeq(T.spans, 1, n)
  BY <1>3
<1> QED BY <1>2, <1>4 DEF TokenTotal, SpansOf

LEMMA CommitGood ==
  ASSUME NEW T, NEW U, Sound(T), Sound(U), Grew(T, U),
         NEW me, Good(me, T), me.pc # "scan"
  PROVE  Good(me, U)
<1> DEFINE w == me.walk
<1>0. me \in Client /\ w \in Walks BY DEF Good, Typed, Client
<1>1. Typed(me, U)
  <2>1. me.page \cup me.shown \subseteq Listed(U, w) BY <1>0, ListedStays DEF Good, Typed
  <2>2. Grew(me.first, U) /\ Grew(me.seen, U) BY GrewTrans DEF Good, Typed
  <2> QED BY <2>1, <2>2, GrewKeeps DEF Good, Typed
<1>2. Staged(me) BY DEF Good
<1>3. Found(me, U) BY FoundStays DEF Good, Found
<1>4. Ours(me, U) BY <1>0, ListedStays DEF Good, Typed, Ours
<1>5. Scanned(me, U) BY DEF Scanned
<1>6. Counted(me, U)
  <2> SUFFICES ASSUME me.pc = "answer", w.list = "traces"
               PROVE  \E n \in Len(me.seen.spans) .. Len(U.spans) :
                         me.counts = [t \in me.page |-> TokenTotal(WithSpans(U, n), t)]
    BY DEF Counted
  <2>1. PICK n \in Len(me.seen.spans) .. Len(T.spans) :
           me.counts = [t \in me.page |-> TokenTotal(WithSpans(T, n), t)]
    BY DEF Good, Counted
  <2>2. /\ Len(me.seen.spans) \in Nat /\ Len(T.spans) \in Nat /\ Len(U.spans) \in Nat
        /\ Len(T.spans) <= Len(U.spans)
    BY SoundRows DEF Good, Typed, Grew
  <2>3. n \in 0 .. Len(T.spans) /\ n \in Len(me.seen.spans) .. Len(U.spans) BY <2>2
  <2>4. \A t : TokenTotal(WithSpans(U, n), t) = TokenTotal(WithSpans(T, n), t)
    BY <2>3, CountsStay
  <2> QED BY <2>1, <2>3, <2>4
<1> QED BY <1>1, <1>2, <1>3, <1>4, <1>5, <1>6 DEF Good

\* A row that a commit moves has not stayed where it was at the first page.
LEMMA StayedBefore ==
  ASSUME ByStart, NEW T, NEW U, Sound(T), Sound(U), Grew(T, U),
         NEW me, Good(me, T), NEW r \in Listed(T, me.walk), Stayed(me, U, r)
  PROVE  Stayed(me, T, r) /\ Place(U, me.walk, r) = Place(T, me.walk, r)
<1> DEFINE w == me.walk  F == me.first
<1>0. w \in Walks /\ Sound(F) /\ Grew(F, T) BY DEF Good, Typed, Client
<1>1. r \in Listed(F, w) /\ r \in Listed(U, w) BY <1>0, MatchingListed, ListedStays DEF Stayed
<1>2. SortKey(U, w, r) <= SortKey(T, w, r) /\ SortKey(T, w, r) <= SortKey(F, w, r)
  BY <1>0, <1>1, KeyFalls
<1>3. SortKey(U, w, r) \in Int /\ SortKey(T, w, r) \in Int /\ SortKey(F, w, r) \in Int
  BY <1>0, <1>1, KeyTyped
<1>4. SortKey(U, w, r) = SortKey(F, w, r) BY DEF Stayed
<1>5. SortKey(T, w, r) = SortKey(F, w, r) /\ SortKey(T, w, r) = SortKey(U, w, r)
  BY <1>2, <1>3, <1>4
<1> QED BY <1>5 DEF Stayed, Place

LEMMA CommitOrdered ==
  ASSUME ByStart, NEW T, NEW U, Sound(T), Sound(U), Grew(T, U),
         NEW me, Good(me, T), Ordered(me, T), me.pc # "scan"
  PROVE  Ordered(me, U)
<1> DEFINE w == me.walk  F == me.first  K == Edge(me)
<1>0. w \in Walks /\ Sound(F) /\ Grew(F, T) /\ K \in Cursor
      /\ me.page \cup me.shown \subseteq Listed(T, w)
  BY DEF Good, Typed, Client, Edge
<1>a. K # NoCursor => K \in Places /\ (ByRowid(w) => K.key = 0)
  BY <1>0 DEF Cursor, Places, Good, Typed, Edge
<1>b. ASSUME NEW r \in Listed(T, w)
      PROVE  /\ Place(T, w, r) \in Places /\ Place(U, w, r) \in Places
             /\ Place(T, w, r).row = r /\ Place(U, w, r).row = r
             /\ Place(U, w, r).key <= Place(T, w, r).key
             /\ ByRowid(w) => Place(U, w, r) = Place(T, w, r)
  <2>1. r \in Listed(U, w) BY <1>0, ListedStays
  <2>2. SortKey(U, w, r) <= SortKey(T, w, r) BY <1>0, KeyFalls
  <2>3. ByRowid(w) => SortKey(U, w, r) = SortKey(T, w, r) BY <1>0, <2>1, KeyTyped
  <2> QED BY <1>0, <2>1, <2>2, <2>3, PlaceTyped DEF Place
<1>c. \A r \in Listed(T, w) : Stayed(me, U, r) =>
          Stayed(me, T, r) /\ Place(U, w, r) = Place(T, w, r)
  BY StayedBefore
<1>1. Covered(me, U)
  <2> SUFFICES ASSUME Begun(me), NEW r \in Matching(F, w, me.project),
                      r \in Matching(U, w, me.project)
               PROVE  \/ r \in me.shown \cup me.page
                      \/ K # NoCursor /\ Ahead(w, K, Place(U, w, r))
                      \/ ~Descends(w) /\ ~Stayed(me, U, r)
    BY DEF Covered
  <2>1. r \in Matching(T, w, me.project) BY <1>0, MatchingConvex
  <2>2. r \in Listed(T, w) BY <1>0, <2>1, MatchingListed
  <2>3. CASE r \in me.shown \cup me.page BY <2>3
  <2>4. CASE ~Descends(w) /\ ~Stayed(me, T, r) BY <1>c, <2>2, <2>4
  <2>5. CASE K # NoCursor /\ Ahead(w, K, Place(T, w, r))
    <3>1. CASE Descends(w) BY <1>a, <1>b, <2>2, <2>5, <3>1 DEF Ahead, Descends, Places
    <3>2. CASE ~Descends(w) BY <1>c, <2>2, <2>5, <3>2
    <3> QED BY <3>1, <3>2
  <2> QED BY <2>1, <2>3, <2>4, <2>5 DEF Ordered, Covered
<1>2. Passed(me, U)
  <2> SUFFICES ASSUME K # NoCursor, NEW r \in me.shown \cup me.page
               PROVE  \/ ~Ahead(w, K, Place(U, w, r))
                      \/ ~ByRowid(w) /\ Descends(w) /\ ~Stayed(me, U, r)
    BY DEF Passed
  <2>1. r \in Listed(T, w) BY <1>0
  <2>2. CASE ~ByRowid(w) /\ Descends(w) /\ ~Stayed(me, T, r) BY <1>c, <2>1, <2>2
  <2>3. CASE ~Ahead(w, K, Place(T, w, r))
    <3>1. CASE ByRowid(w) BY <1>b, <2>1, <2>3, <3>1
    <3>2. CASE ~ByRowid(w) /\ Descends(w) BY <1>c, <2>1, <2>3, <3>2
    <3>3. CASE ~ByRowid(w) /\ ~Descends(w)
      <4>1. w.order = "asc" BY <1>0, <3>3, WalkTyped DEF Descends
      <4> QED BY <1>a, <1>b, <2>1, <2>3, <3>3, <4>1 DEF Ahead, Places
    <3> QED BY <3>1, <3>2, <3>3
  <2> QED BY <2>2, <2>3 DEF Ordered, Passed
<1>3. Repeated(me, U) BY DEF Repeated
<1> QED BY <1>1, <1>2, <1>3 DEF Ordered
-----------------------------------------------------------------------------
(* The steps of a client, the query of a page aside: me becomes you.       *)

\* A client that has no walk.
LEMMA NoWalkGood ==
  ASSUME NEW T, Sound(T), NEW label \in {"idle", "failed"}
  PROVE  Good(NoWalk(label), T) /\ Ordered(NoWalk(label), T)
<1> DEFINE me == NoWalk(label)
<1>1. /\ me.pc = label /\ me.walk \in Walks /\ me.project = 0 /\ me.cursor = NoCursor
      /\ me.page = {} /\ me.next = NoCursor /\ me.counts = NoCounts /\ me.shown = {}
      /\ me.first = EmptyTables /\ me.seen = EmptyTables
  BY WalksAssumption DEF NoWalk
<1>2. EmptyTables \in Tables BY EmptySeq DEF EmptyTables, Tables
<1>3. Sound(EmptyTables) BY <1>2 DEF Sound, EmptyTables
<1>4. Grew(EmptyTables, T)
  <2>1. Len(EmptyTables.projects) = 0 /\ Len(EmptyTables.traces) = 0 /\ Len(EmptyTables.spans) = 0
        /\ DOMAIN EmptyTables.projects = {} /\ DOMAIN EmptyTables.traces = {}
        /\ DOMAIN EmptyTables.spans = {}
    BY DEF EmptyTables
  <2> QED BY <2>1, SoundRows DEF Grew
<1>5. me \in Client
  <2>1. NoCounts \in [{} -> Int] BY DEF NoCounts
  <2>2. NoCounts \in UNION {[P -> Int] : P \in SUBSET Nat} BY <2>1
  <2>3. WalksAssumption /\ (CHOOSE x \in Walks : TRUE) \in Walks BY WalksAssumption
  <2> QED BY <1>2, <2>2, <2>3 DEF NoWalk, Client, Cursor
<1> HIDE DEF me
<1>6. Typed(me, T)
  <2>1. Cardinality({}) <= Limit BY FS_EmptySet, LimitAssumption
  <2> QED BY <1>1, <1>3, <1>4, <1>5, <2>1 DEF Typed, NoCursor
<1>7. Staged(me) /\ Found(me, T) /\ Ours(me, T) /\ Scanned(me, T) /\ Counted(me, T)
  BY <1>1 DEF Staged, Found, HasProject, Ours, Scanned, Counted
<1>8. Ordered(me, T) BY <1>1 DEF Ordered, Covered, Begun, Edge, Passed, Repeated
<1> QED BY <1>6, <1>7, <1>8 DEF Good, me

LEMMA OpenGood ==
  ASSUME NEW T, Sound(T), NEW me, Good(me, T), me.pc = "idle", NEW w \in Walks
  PROVE  LET you == [me EXCEPT !.pc = Request(w), !.walk = w]
         IN  Good(you, T) /\ Ordered(you, T)
<1> DEFINE you == [me EXCEPT !.pc = Request(w), !.walk = w]
<1>0. me \in Client BY DEF Good, Typed
<1>1. /\ you \in Client /\ you.pc = Request(w) /\ you.walk = w /\ you.project = me.project
      /\ you.cursor = me.cursor /\ you.page = me.page /\ you.next = me.next
      /\ you.counts = me.counts /\ you.shown = me.shown /\ you.first = me.first
      /\ you.seen = me.seen
  BY <1>0 DEF Client, Request
<1>2. /\ me.page = {} /\ me.shown = {} /\ me.cursor = NoCursor /\ me.next = NoCursor
      /\ me.counts = NoCounts
  BY DEF Good, Staged
<1> HIDE DEF you
<1>3. Typed(you, T)
  <2>1. Cardinality({}) <= Limit BY FS_EmptySet, LimitAssumption
  <2> QED BY <1>1, <1>2, <2>1 DEF Good, Typed, NoCursor
<1>4. Request(w) \in {"find", "query"} /\ (w.list # "projects" => Request(w) = "find")
  BY DEF Request
<1>5. Staged(you) /\ Found(you, T) /\ Ours(you, T) /\ Scanned(you, T) /\ Counted(you, T)
  BY <1>1, <1>2, <1>4 DEF Staged, Found, HasProject, Ours, Scanned, Counted
<1>6. Ordered(you, T)
  BY <1>1, <1>2, <1>4 DEF Ordered, Covered, Begun, Edge, Passed, Repeated
<1> QED BY <1>3, <1>5, <1>6 DEF Good, you

LEMMA FindGood ==
  ASSUME NEW T, Sound(T), NEW me, Good(me, T), me.pc = "find",
         NEW p \in FindProjectRows(T, me.walk.project)
  PROVE  LET you == [me EXCEPT !.pc = IF me.walk.list = "project" THEN "answer" ELSE "query",
                               !.project = p]
         IN  Good(you, T) /\ (Ordered(me, T) => Ordered(you, T))
<1> DEFINE you == [me EXCEPT !.pc = IF me.walk.list = "project" THEN "answer" ELSE "query",
                             !.project = p]
<1>0. me \in Client BY DEF Good, Typed
<1>p. p \in Nat /\ p \in DOMAIN T.projects
  BY SoundRows DEF FindProjectRows
<1>1. /\ you \in Client /\ you.pc = (IF me.walk.list = "project" THEN "answer" ELSE "query")
      /\ you.walk = me.walk /\ you.project = p
      /\ you.cursor = me.cursor /\ you.page = me.page /\ you.next = me.next
      /\ you.counts = me.counts /\ you.shown = me.shown /\ you.first = me.first
      /\ you.seen = me.seen
  BY <1>0, <1>p DEF Client
<1> HIDE DEF you
<1>2. me.page = {} /\ me.next = NoCursor /\ (me.cursor = NoCursor => me.shown = {})
      /\ me.counts = NoCounts
  BY DEF Good, Staged
<1>3. me.cursor # NoCursor /\ me.walk.list # "projects" => p = me.project
  BY FoundOnce DEF Good, Found, HasProject
<1>4. Typed(you, T) BY <1>1, <1>p DEF Good, Typed
<1>5. Staged(you) BY <1>1, <1>2 DEF Staged
<1>6. Found(you, T) BY <1>1 DEF Found
<1>7. Ours(you, T)
  BY <1>1, <1>2, <1>3 DEF Good, Ours, HasProject
<1>8. Scanned(you, T) /\ Counted(you, T)
  BY <1>1 DEF Scanned, Counted
<1>9. ASSUME Ordered(me, T) PROVE Ordered(you, T)
  <2>0. Edge(you) = IF me.walk.list = "project" THEN NoCursor ELSE me.cursor
    BY <1>1, <1>2 DEF Edge
  <2>1. CASE me.walk.list = "project"
    <3>1. Matching(you.first, you.walk, you.project) = {} BY <1>1, <2>1 DEF Matching
    <3> QED BY <1>1, <2>0, <2>1, <3>1 DEF Ordered, Covered, Passed, Repeated
  <2>2. CASE me.cursor = NoCursor /\ me.walk.list # "project"
    BY <1>1, <2>0, <2>2 DEF Ordered, Covered, Begun, Passed, Repeated
  <2>3. CASE me.cursor # NoCursor /\ me.walk.list # "project"
    <3>1. \A X : Matching(X, me.walk, p) = Matching(X, me.walk, me.project)
      BY <1>3 DEF Matching
    <3>2. \A r : Stayed(you, T, r) = Stayed(me, T, r) BY <1>1, <3>1 DEF Stayed
    <3>3. Begun(me) /\ Edge(me) = me.cursor BY <2>3 DEF Begun, Edge
    <3>4. Covered(you, T)
      BY <1>1, <1>9, <2>0, <2>3, <3>1, <3>2, <3>3 DEF Ordered, Covered
    <3>5. Passed(you, T)
      BY <1>1, <1>9, <2>0, <2>3, <3>2, <3>3 DEF Ordered, Passed
    <3> QED BY <1>1, <3>4, <3>5 DEF Ordered, Repeated
  <2> QED BY <2>1, <2>2, <2>3
<1> QED BY <1>4, <1>5, <1>6, <1>7, <1>8, <1>9 DEF Good, you

\* The rows are closed, and a page of traces has yet to be counted.
LEMMA ScanGood ==
  ASSUME NEW T, Sound(T), NEW me, Good(me, T), me.pc = "scan",
         NEW label \in {"count", "answer"},
         label = "answer" /\ me.walk.list = "traces" => me.page = {}
  PROVE  LET you == [me EXCEPT !.pc = label]
         IN  Good(you, T) /\ (Ordered(me, T) => Ordered(you, T))
<1> DEFINE you == [me EXCEPT !.pc = label]
<1>0. me \in Client BY DEF Good, Typed
<1>1. /\ you \in Client /\ you.pc = label
      /\ you.walk = me.walk /\ you.project = me.project
      /\ you.cursor = me.cursor /\ you.page = me.page /\ you.next = me.next
      /\ you.counts = me.counts /\ you.shown = me.shown /\ you.first = me.first
      /\ you.seen = me.seen
  BY <1>0 DEF Client
<1> HIDE DEF you
<1>2. Typed(you, T) BY <1>1 DEF Good, Typed
<1>3. Staged(you) BY <1>1 DEF Good, Staged
<1>4. Found(you, T) /\ Ours(you, T) /\ Scanned(you, T)
  BY <1>1 DEF Good, Found, HasProject, Ours, Scanned
<1>5. Counted(you, T)
  <2> SUFFICES ASSUME label = "answer", me.walk.list = "traces"
               PROVE  \E n \in Len(me.seen.spans) .. Len(T.spans) :
                        me.counts = [t \in me.page |-> TokenTotal(WithSpans(T, n), t)]
    BY <1>1 DEF Counted
  <2>1. me.page = {} /\ me.counts = NoCounts BY DEF Good, Staged
  <2>2. me.counts = [t \in me.page |-> TokenTotal(WithSpans(T, Len(T.spans)), t)]
    BY <2>1 DEF NoCounts
  <2>3. Len(T.spans) \in Len(me.seen.spans) .. Len(T.spans)
    BY SoundRows DEF Good, Typed, Grew
  <2> QED BY <2>2, <2>3
<1>6. ASSUME Ordered(me, T) PROVE Ordered(you, T)
  <2>1. Edge(you) = Edge(me) /\ Begun(me) BY <1>1 DEF Edge, Begun
  <2>2. \A r : Stayed(you, T, r) = Stayed(me, T, r) BY <1>1 DEF Stayed
  <2>3. Covered(you, T) BY <1>1, <1>6, <2>1, <2>2 DEF Ordered, Covered
  <2>4. Passed(you, T) BY <1>1, <1>6, <2>1, <2>2 DEF Ordered, Passed
  <2> QED BY <1>1, <2>3, <2>4 DEF Ordered, Repeated
<1> QED BY <1>2, <1>3, <1>4, <1>5, <1>6 DEF Good, you
\* A total is an integer, and one of all the spans that are stored.
LEMMA TotalTyped ==
  ASSUME NEW T, Sound(T), NEW t
  PROVE  /\ TokenTotal(T, t) \in Int
         /\ TokenTotal(WithSpans(T, Len(T.spans)), t) = TokenTotal(T, t)
<1>1. TokenTotal(T, t) \in Int
  <2> DEFINE f == [i \in DOMAIN T.spans |-> T.spans[i].tokens]
  <2>1. SpansOf(T, t) \subseteq DOMAIN T.spans BY DEF SpansOf
  <2>2. IsFiniteSet(SpansOf(T, t))
    <3>1. DOMAIN T.spans = 1 .. Len(T.spans) /\ Len(T.spans) \in Nat BY SoundRows
    <3>2. IsFiniteSet(1 .. Len(T.spans)) BY <3>1, FS_Interval
    <3> QED BY <2>1, <3>1, <3>2, FS_Subset
  <2>3. \A i \in SpansOf(T, t) : f[i] \in Int BY <2>1, SoundRows
  <2> HIDE DEF f
  <2>4. SumFunctionOnSet(f, SpansOf(T, t)) \in Int BY <2>2, <2>3, SumTyped
  <2> QED BY <2>4 DEF TokenTotal, f
<1>2. TokenTotal(WithSpans(T, Len(T.spans)), t) = TokenTotal(T, t)
  <2>1. T \in Tables /\ T.spans \in Seq(SpanRow) BY DEF Sound, Tables
  <2>2. WithSpans(T, Len(T.spans)).spans = SubSeq(T.spans, 1, Len(T.spans))
    BY <2>1 DEF WithSpans, Tables
  <2>3. SubSeq(T.spans, 1, Len(T.spans)) = T.spans BY <2>1
  <2> QED BY <2>2, <2>3 DEF TokenTotal, SpansOf
<1> QED BY <1>1, <1>2

LEMMA CountGood ==
  ASSUME NEW T, Sound(T), NEW me, Good(me, T), me.pc = "count"
  PROVE  LET you == [me EXCEPT !.pc = "answer",
                               !.counts = [t \in me.page |-> TokenTotal(T, t)]]
         IN  Good(you, T) /\ (Ordered(me, T) => Ordered(you, T))
<1> DEFINE counts == [t \in me.page |-> TokenTotal(T, t)]
           you == [me EXCEPT !.pc = "answer", !.counts = counts]
<1>0. me \in Client /\ me.page \in SUBSET Nat BY DEF Good, Typed, Client
<1>a. counts \in UNION {[P -> Int] : P \in SUBSET Nat}
  <2>1. \A t \in me.page : TokenTotal(T, t) \in Int BY TotalTyped
  <2>2. counts \in [me.page -> Int] BY <2>1
  <2> QED BY <1>0, <2>2
<1>b. counts = [t \in me.page |-> TokenTotal(WithSpans(T, Len(T.spans)), t)]
  BY TotalTyped
<1> HIDE DEF counts
<1>1. /\ you \in Client /\ you.pc = "answer"
      /\ you.walk = me.walk /\ you.project = me.project
      /\ you.cursor = me.cursor /\ you.page = me.page /\ you.next = me.next
      /\ you.counts = counts /\ you.shown = me.shown /\ you.first = me.first
      /\ you.seen = me.seen
  BY <1>0, <1>a DEF Client
<1> HIDE DEF you
<1>2. Typed(you, T) BY <1>1 DEF Good, Typed
<1>3. Staged(you) BY <1>1 DEF Good, Staged
<1>4. Found(you, T) /\ Ours(you, T) /\ Scanned(you, T)
  BY <1>1 DEF Good, Found, HasProject, Ours, Scanned
<1>5. Counted(you, T)
  <2>1. Len(T.spans) \in Len(me.seen.spans) .. Len(T.spans)
    BY SoundRows DEF Good, Typed, Grew
  <2> QED BY <1>1, <1>b, <2>1 DEF Counted
<1>6. ASSUME Ordered(me, T) PROVE Ordered(you, T)
  <2>1. Edge(you) = Edge(me) /\ Begun(me) BY <1>1 DEF Edge, Begun
  <2>2. \A r : Stayed(you, T, r) = Stayed(me, T, r) BY <1>1 DEF Stayed
  <2>3. Covered(you, T) BY <1>1, <1>6, <2>1, <2>2 DEF Ordered, Covered
  <2>4. Passed(you, T) BY <1>1, <1>6, <2>1, <2>2 DEF Ordered, Passed
  <2> QED BY <1>1, <2>3, <2>4 DEF Ordered, Repeated
<1> QED BY <1>2, <1>3, <1>4, <1>5, <1>6 DEF Good, you, counts

LEMMA AnswerGood ==
  ASSUME NEW T, Sound(T), NEW me, Good(me, T), me.pc = "answer"
  PROVE  LET you == [me EXCEPT !.pc = IF me.next = NoCursor THEN "done" ELSE Request(me.walk),
                               !.shown = me.shown \cup me.page, !.page = {},
                               !.counts = NoCounts, !.seen = EmptyTables,
                               !.cursor = me.next, !.next = NoCursor]
         IN  Good(you, T) /\ (Ordered(me, T) => Ordered(you, T))
<1> DEFINE you == [me EXCEPT !.pc = IF me.next = NoCursor THEN "done" ELSE Request(me.walk),
                             !.shown = me.shown \cup me.page, !.page = {},
                             !.counts = NoCounts, !.seen = EmptyTables,
                             !.cursor = me.next, !.next = NoCursor]
<1>0. me \in Client BY DEF Good, Typed
<1>a. NoCounts \in UNION {[P -> Int] : P \in SUBSET Nat} /\ EmptyTables \in Tables
      /\ Request(me.walk) \in {"find", "query"} /\ NoCursor \in Cursor
      /\ Sound(EmptyTables) /\ Grew(EmptyTables, T)
  <2> DEFINE idle == NoWalk("idle")
  <2>1. idle \in Client /\ Sound(idle.seen) /\ Grew(idle.seen, T)
    BY NoWalkGood DEF Good, Typed
  <2>2. idle.seen = EmptyTables /\ idle.counts = NoCounts BY DEF NoWalk
  <2> HIDE DEF idle
  <2> QED BY <2>1, <2>2 DEF Client, Request, Cursor
<1>1. /\ you \in Client
      /\ you.pc = (IF me.next = NoCursor THEN "done" ELSE Request(me.walk))
      /\ you.walk = me.walk /\ you.project = me.project
      /\ you.cursor = me.next /\ you.page = {} /\ you.next = NoCursor
      /\ you.counts = NoCounts /\ you.shown = me.shown \cup me.page /\ you.first = me.first
      /\ you.seen = EmptyTables
  BY <1>0, <1>a DEF Client
<1> HIDE DEF you
<1>2. Typed(you, T)
  <2>1. Cardinality({}) <= Limit BY FS_EmptySet, LimitAssumption
  <2> QED BY <1>1, <1>a, <2>1 DEF Good, Typed, NoCursor
<1>3. Staged(you) BY <1>1, <1>a DEF Staged
<1>4. HasProject(me) /\ HasProject(you)
  BY <1>1 DEF HasProject
<1>5. Found(you, T) /\ Ours(you, T)
  BY <1>1, <1>4 DEF Good, Found, Ours
<1>6. Scanned(you, T) /\ Counted(you, T) BY <1>1, <1>a DEF Scanned, Counted
<1>7. ASSUME Ordered(me, T) PROVE Ordered(you, T)
  <2>1. Edge(you) = Edge(me) /\ Begun(me) BY <1>1, <1>a DEF Edge, Begun
  <2>2. \A r : Stayed(you, T, r) = Stayed(me, T, r) BY <1>1 DEF Stayed
  <2>3. Covered(you, T) BY <1>1, <1>7, <2>1, <2>2 DEF Ordered, Covered
  <2>4. Passed(you, T) BY <1>1, <1>7, <2>1, <2>2 DEF Ordered, Passed
  <2> QED BY <1>1, <1>a, <2>3, <2>4 DEF Ordered, Repeated
<1> QED BY <1>2, <1>3, <1>5, <1>6, <1>7 DEF Good, you
-----------------------------------------------------------------------------
(* The query of a page. *)

\* The rows a page query asks for, and the record it leaves.
Asked(me, T) == {r \in Matching(T, me.walk, me.project) : PastCursor(T, me.walk, me.cursor, r)}

Paging(me, T) ==
    LET rows == Asked(me, T)
        page == Leading(T, me.walk, rows)
    IN [me EXCEPT !.pc = "scan", !.page = page,
                  !.next = IF page # rows THEN LastPlace(T, me.walk, page) ELSE NoCursor,
                  !.seen = T,
                  !.first = IF me.cursor = NoCursor THEN T ELSE me.first]

\* The page, what is known of it, and where it ends.
LEMMA PageIs ==
  ASSUME NEW T, Sound(T), NEW me, Good(me, T), me.pc = "query",
         NEW w, w = me.walk, NEW rows, rows = Asked(me, T),
         NEW page, page = Leading(T, w, rows), NEW you, you = Paging(me, T)
  PROVE  /\ rows \subseteq Listed(T, w) /\ page \subseteq rows
         /\ rows \subseteq Matching(T, w, me.project)
         /\ Paged(w) => Cardinality(page) <= Limit
         /\ you \in Client /\ you.pc = "scan" /\ you.walk = w /\ you.project = me.project
         /\ you.cursor = me.cursor /\ you.page = page /\ you.counts = me.counts
         /\ you.shown = me.shown /\ you.seen = T
         /\ you.first = IF me.cursor = NoCursor THEN T ELSE me.first
         /\ ByRowid(w) => you.next.key = 0
         /\ you.next = NoCursor => page = rows
         /\ you.next # NoCursor =>
              \E l \in page : /\ you.next = Place(T, w, l)
                              /\ \A q \in page \ {l} : Ahead(w, Place(T, w, q), Place(T, w, l))
                              /\ \A r \in rows \ page : Ahead(w, Place(T, w, l), Place(T, w, r))
<1>0. me \in Client /\ w \in Walks /\ T \in Tables BY DEF Good, Typed, Client, Sound
<1>1. rows \subseteq Matching(T, w, me.project) BY DEF Asked
<1>2. rows \subseteq Listed(T, w) /\ Listed(T, w) \subseteq Nat BY <1>0, <1>1, MatchingListed
<1>3. /\ page \subseteq rows /\ (Paged(w) => Cardinality(page) <= Limit)
      /\ \A q \in page : \A r \in rows \ page : Ahead(w, Place(T, w, q), Place(T, w, r))
      /\ rows # {} => page # {}
  BY <1>0, <1>2, LeadingIs
<1> DEFINE next == IF page # rows THEN LastPlace(T, w, page) ELSE NoCursor
<1>4. next # NoCursor => page # rows OBVIOUS
<1>5. ASSUME page # rows
      PROVE  \E l \in page : /\ next = Place(T, w, l) /\ next # NoCursor /\ next \in Cursor
                             /\ ByRowid(w) => next.key = 0
                             /\ \A q \in page \ {l} : Ahead(w, Place(T, w, q), Place(T, w, l))
                             /\ \A r \in rows \ page : Ahead(w, Place(T, w, l), Place(T, w, r))
  <2>1. page # {} BY <1>3, <1>5
  <2>2. PICK l \in page : /\ LastPlace(T, w, page) = Place(T, w, l)
                          /\ \A q \in page \ {l} : Ahead(w, Place(T, w, q), Place(T, w, l))
    BY <1>0, <1>2, <1>3, <2>1, LastPlaceIs
  <2>3. l \in Listed(T, w) BY <1>2, <1>3
  <2>4. Place(T, w, l) # NoCursor /\ Place(T, w, l) \in Cursor
        /\ (ByRowid(w) => Place(T, w, l).key = 0)
    BY <1>0, <2>3, PlaceTyped, KeyTyped
  <2> QED BY <1>3, <1>5, <2>2, <2>4
<1>6. next \in Cursor /\ (ByRowid(w) => next.key = 0)
  BY <1>5 DEF Cursor, NoCursor
<1> DEFINE first == IF me.cursor = NoCursor THEN T ELSE me.first
<1>7. you = [me EXCEPT !.pc = "scan", !.page = page, !.next = next, !.seen = T,
                       !.first = first]
  BY <1>0 DEF Paging, Client
<1>a. page \in SUBSET Nat /\ first \in Tables BY <1>0, <1>2, <1>3 DEF Client
<1> HIDE DEF next, first
<1>8. /\ you \in Client /\ you.pc = "scan" /\ you.walk = w /\ you.project = me.project
      /\ you.cursor = me.cursor /\ you.page = page /\ you.counts = me.counts
      /\ you.shown = me.shown /\ you.seen = T /\ you.next = next
      /\ you.first = first
  <2>1. /\ "pc" \in DOMAIN me /\ "page" \in DOMAIN me /\ "next" \in DOMAIN me
        /\ "seen" \in DOMAIN me /\ "first" \in DOMAIN me
    BY <1>0 DEF Client
  <2>2. /\ you.pc = "scan" /\ you.page = page /\ you.next = next /\ you.seen = T
        /\ you.first = first
    BY <1>7, <2>1
  <2>3. /\ you.walk = w /\ you.project = me.project /\ you.cursor = me.cursor
        /\ you.counts = me.counts /\ you.shown = me.shown
    BY <1>7
  <2>4. you \in Client BY <1>0, <1>6, <1>7, <1>a DEF Client
  <2> QED BY <2>2, <2>3, <2>4
<1> QED BY <1>1, <1>2, <1>3, <1>4, <1>5, <1>6, <1>8 DEF next, first

LEMMA QueryGood ==
  ASSUME NEW T, Sound(T), NEW me, Good(me, T), me.pc = "query"
  PROVE  Good(Paging(me, T), T)
<1> DEFINE w == me.walk
           rows == Asked(me, T)
           page == Leading(T, w, rows)
           you == Paging(me, T)
<1>0. w \in Walks BY DEF Good, Typed, Client
<1>1. /\ rows \subseteq Listed(T, w) /\ page \subseteq rows
      /\ rows \subseteq Matching(T, w, me.project)
      /\ Paged(w) => Cardinality(page) <= Limit
      /\ you \in Client /\ you.pc = "scan" /\ you.walk = w /\ you.project = me.project
      /\ you.cursor = me.cursor /\ you.page = page /\ you.counts = me.counts
      /\ you.shown = me.shown /\ you.seen = T
      /\ you.first = IF me.cursor = NoCursor THEN T ELSE me.first
      /\ ByRowid(w) => you.next.key = 0
  BY PageIs
<1> HIDE DEF you, page, rows
<1>2. Grew(T, T) BY GrewRefl
<1>3. Typed(you, T) BY <1>1, <1>2 DEF Good, Typed
<1>4. Staged(you) BY <1>1 DEF Good, Staged
<1>5. HasProject(me) /\ HasProject(you) BY <1>1 DEF HasProject
<1>6. Found(you, T) BY <1>1, <1>5 DEF Good, Found
<1>7. Ours(you, T)
  <2> SUFFICES ASSUME w.list \in {"spans", "traces", "trace"}, NEW r \in page \cup me.shown
               PROVE  Filed(T, w, r) = me.project
    BY <1>1, <1>5 DEF Ours
  <2>1. CASE r \in page BY <1>0, <1>1, <2>1, MatchingFiled
  <2>2. CASE r \in me.shown BY <2>2 DEF Good, Ours
  <2> QED BY <2>1, <2>2
<1>8. Scanned(you, T) /\ Counted(you, T) BY <1>1 DEF Scanned, Counted
<1> QED BY <1>3, <1>4, <1>6, <1>7, <1>8 DEF Good, you

\* The next page begins at the cursor, and everything behind it is asked for.
LEMMA PastCursorIs ==
  ASSUME ByStart, NEW T, Sound(T), NEW w \in Walks, NEW r \in Listed(T, w),
         NEW K \in Cursor, K # NoCursor, ByRowid(w) => K.key = 0
  PROVE  /\ K \in Places
         /\ Ahead(w, K, Place(T, w, r)) => PastCursor(T, w, K, r)
         /\ ByRowid(w) => /\ PastCursor(T, w, K, r) <=> r <= K.row
                          /\ Ahead(w, K, Place(T, w, r)) <=> r < K.row
         /\ ~ByRowid(w) /\ PastCursor(T, w, K, r) => Ahead(w, K, Place(T, w, r))
<1>1. K.key \in Int /\ K.row \in Nat /\ K \in Places /\ r \in Nat
  BY MatchingListed DEF Cursor, Places
<1>2. CASE ByRowid(w)
  <2>1. Place(T, w, r).row = r /\ Place(T, w, r).key = 0 BY <1>2, KeyTyped, PlaceTyped
  <2>2. Ahead(w, K, Place(T, w, r)) <=> r < K.row BY <1>1, <1>2, <2>1 DEF Ahead
  <2>3. PastCursor(T, w, K, r) <=> r <= K.row BY <1>2 DEF PastCursor, ByRowid
  <2> QED BY <1>1, <1>2, <2>2, <2>3
<1>3. CASE ~ByRowid(w)
  <2>1. w.list = "traces" /\ w.sort = "start_time" BY <1>3 DEF ByRowid, ByStart
  <2>2. PastCursor(T, w, K, r) <=> Ahead(w, K, Place(T, w, r))
    BY <1>3, <2>1 DEF PastCursor
  <2> QED BY <1>1, <1>3, <2>2
<1> QED BY <1>2, <1>3

LEMMA QueryOrdered ==
  ASSUME ByStart, NEW T, Sound(T), NEW me, Good(me, T), Ordered(me, T), me.pc = "query"
  PROVE  Ordered(Paging(me, T), T)
<1> DEFINE w == me.walk
           rows == Asked(me, T)
           page == Leading(T, w, rows)
           you == Paging(me, T)
           K == me.cursor
           P(r) == Place(T, w, r)
<1>0. w \in Walks /\ K \in Cursor /\ (ByRowid(w) => K.key = 0)
      /\ me.shown \subseteq Listed(T, w) /\ me.page = {} /\ (K = NoCursor => me.shown = {})
  BY DEF Good, Typed, Client, Staged
<1>1. /\ rows \subseteq Listed(T, w) /\ page \subseteq rows
      /\ you.pc = "scan" /\ you.walk = w /\ you.project = me.project
      /\ you.cursor = K /\ you.page = page /\ you.shown = me.shown
      /\ you.first = IF K = NoCursor THEN T ELSE me.first
      /\ you.next = NoCursor => page = rows
      /\ you.next # NoCursor =>
           \E l \in page : /\ you.next = P(l)
                           /\ \A q \in page \ {l} : Ahead(w, P(q), P(l))
                           /\ \A r \in rows \ page : Ahead(w, P(l), P(r))
  BY PageIs
<1>2. rows = {r \in Matching(T, w, me.project) : PastCursor(T, w, K, r)} BY DEF Asked
<1>3. \A r \in Listed(T, w) : P(r) \in Places /\ P(r).row = r BY <1>0, PlaceTyped
<1>4. ASSUME K # NoCursor, NEW r \in Listed(T, w)
      PROVE  /\ K \in Places
             /\ Ahead(w, K, P(r)) => PastCursor(T, w, K, r)
             /\ ByRowid(w) => /\ PastCursor(T, w, K, r) <=> r <= K.row
                              /\ Ahead(w, K, P(r)) <=> r < K.row
             /\ ~ByRowid(w) /\ PastCursor(T, w, K, r) => Ahead(w, K, P(r))
  BY <1>0, <1>4, PastCursorIs
<1>5. Listed(T, w) \subseteq Nat BY <1>0, MatchingListed
<1> HIDE DEF rows, page, you, P
<1>6. Edge(you) = you.next /\ (K # NoCursor => Begun(me) /\ Edge(me) = K)
  BY <1>1 DEF Edge, Begun
<1>7. K # NoCursor => \A r : Stayed(you, T, r) = Stayed(me, T, r)
  BY <1>1 DEF Stayed
<1>8. ASSUME K # NoCursor, NEW r \in me.shown
      PROVE  \/ ~Ahead(w, K, P(r))
             \/ ~ByRowid(w) /\ Descends(w) /\ ~Stayed(you, T, r)
  BY <1>6, <1>7, <1>8 DEF Ordered, Passed, P
<1>9. Covered(you, T)
  <2> SUFFICES ASSUME NEW r \in Matching(you.first, w, me.project),
                      r \in Matching(T, w, me.project)
               PROVE  \/ r \in me.shown \cup page
                      \/ you.next # NoCursor /\ Ahead(w, you.next, P(r))
                      \/ ~Descends(w) /\ ~Stayed(you, T, r)
    BY <1>1, <1>6 DEF Covered, P
  <2>1. CASE r \in rows
    <3>1. CASE r \in page BY <3>1
    <3>2. CASE r \notin page BY <1>1, <2>1, <3>2
    <3> QED BY <3>1, <3>2
  <2>2. CASE K = NoCursor
    <3>1. PastCursor(T, w, K, r) BY <2>2 DEF PastCursor
    <3> QED BY <1>2, <2>1, <3>1
  <2>3. CASE K # NoCursor
    <3>1. \/ r \in me.shown \/ Ahead(w, K, P(r))
          \/ ~Descends(w) /\ ~Stayed(you, T, r)
      BY <1>0, <1>1, <1>6, <1>7, <2>3 DEF Ordered, Covered, P
    <3>2. Ahead(w, K, P(r)) => r \in rows
      BY <1>0, <1>2, <1>4, <2>3, MatchingListed
    <3> QED BY <2>1, <3>1, <3>2
  <2> QED BY <2>2, <2>3
<1>10. Passed(you, T)
  <2> SUFFICES ASSUME you.next # NoCursor, NEW r \in me.shown \cup page
               PROVE  \/ ~Ahead(w, you.next, P(r))
                      \/ ~ByRowid(w) /\ Descends(w) /\ ~Stayed(you, T, r)
    BY <1>1, <1>6 DEF Passed, P
  <2>1. PICK l \in page : you.next = P(l) /\ \A q \in page \ {l} : Ahead(w, P(q), P(l))
    BY <1>1
  <2>2. l \in Listed(T, w) /\ r \in Listed(T, w) BY <1>0, <1>1
  <2>3. P(l) \in Places /\ P(r) \in Places /\ P(l).row = l /\ P(r).row = r BY <1>3, <2>2
  <2>4. CASE r \in page
    <3>1. /\ ~Ahead(w, P(l), P(l))
          /\ Ahead(w, P(r), P(l)) => ~Ahead(w, P(l), P(r))
      BY <2>3, AheadOrder
    <3>2. r = l \/ Ahead(w, P(r), P(l)) BY <2>1, <2>4
    <3> QED BY <2>1, <3>1, <3>2
  <2>5. CASE r \in me.shown
    <3>1. K # NoCursor /\ PastCursor(T, w, K, l) BY <1>0, <1>1, <1>2, <2>5
    <3>2. CASE ~Ahead(w, K, P(r))
      <4>1. CASE ByRowid(w)
        <5>1. l <= K.row /\ ~(r < K.row) BY <1>4, <2>2, <3>1, <3>2, <4>1
        <5>2. P(l).key = 0 /\ P(r).key = 0 BY <1>0, <2>2, <4>1, PlaceTyped, KeyTyped DEF P
        <5>3. K.row \in Nat /\ l \in Nat /\ r \in Nat
          BY <1>0, <1>5, <2>2 DEF Cursor, NoCursor
        <5> QED BY <2>1, <2>3, <4>1, <5>1, <5>2, <5>3 DEF Ahead
      <4>2. CASE ~ByRowid(w)
        <5>1. Ahead(w, K, P(l)) /\ K \in Places BY <1>4, <2>2, <3>1, <4>2
        <5>2. Ahead(w, P(l), P(r)) => Ahead(w, K, P(r))
          BY <2>3, <5>1, AheadOrder
        <5> QED BY <2>1, <3>2, <5>2
      <4> QED BY <4>1, <4>2
    <3> QED BY <1>8, <2>5, <3>1, <3>2
  <2> QED BY <2>4, <2>5
<1>11. Repeated(you, T)
  <2> SUFFICES ASSUME NEW r \in page, r \in me.shown
               PROVE  IF ByRowid(w) THEN r = K.row ELSE Descends(w) /\ ~Stayed(you, T, r)
    BY <1>1 DEF Repeated
  <2>1. r \in Listed(T, w) /\ K # NoCursor /\ PastCursor(T, w, K, r) BY <1>0, <1>1, <1>2
  <2>2. CASE ByRowid(w)
    <3>1. r <= K.row /\ ~(r < K.row) BY <1>4, <1>8, <2>1, <2>2
    <3>2. K.row \in Nat /\ r \in Nat BY <1>0, <1>5, <2>1 DEF Cursor, NoCursor
    <3> QED BY <2>2, <3>1, <3>2
  <2>3. CASE ~ByRowid(w) BY <1>4, <1>8, <2>1, <2>3
  <2> QED BY <2>2, <2>3
<1> QED BY <1>9, <1>10, <1>11 DEF Ordered, you
-----------------------------------------------------------------------------
(* The invariant is kept. *)

LEMMA InitGood == Init => IInv /\ WalkInv
<1> SUFFICES ASSUME Init PROVE IInv /\ WalkInv
  OBVIOUS
<1>1. Sound(db) BY StoredSound DEF Init
<1>2. \A c \in Clients : client[c] = NoWalk("idle") BY DEF Init
<1>3. NoWalk("idle").pc = "idle" BY DEF NoWalk
<1>4. Good(NoWalk("idle"), db) /\ Ordered(NoWalk("idle"), db) BY <1>1, NoWalkGood
<1>5. DOMAIN client = Clients /\ conn = Free BY DEF Init
<1> QED BY <1>1, <1>2, <1>3, <1>4, <1>5 DEF IInv, WalkInv

\* One client moves and the connection, if another has it, stays with it.
LEMMA ClientMoves ==
  ASSUME IInv, NEW c \in Clients, NEW you, Good(you, db), db' = db,
         client' = [client EXCEPT ![c] = you],
         conn' \in {Free, Writer} \cup Clients,
         you.pc = "scan" => conn' = c,
         \A d \in Clients \ {c} : conn = d => conn' = d
  PROVE  IInv' /\ (WalkInv /\ Ordered(you, db) => WalkInv')
<1>1. DOMAIN client' = Clients /\ client'[c] = you
      /\ \A d \in Clients \ {c} : client'[d] = client[d]
  BY DEF IInv
<1>2. Sound(db)' BY DEF IInv
<1>3. ASSUME NEW d \in Clients
      PROVE  Good(client'[d], db') /\ (client'[d].pc = "scan" => conn' = d)
  BY <1>1 DEF IInv
<1>4. IInv' BY <1>1, <1>2, <1>3 DEF IInv
<1>5. ASSUME WalkInv, Ordered(you, db), NEW d \in Clients
      PROVE  Ordered(client'[d], db')
  BY <1>1, <1>5 DEF WalkInv
<1> QED BY <1>4, <1>5 DEF WalkInv

LEMMA StepKeeps ==
  ASSUME IInv, NEW c \in Clients, Step(c) \/ Fail(c) \/ \E w \in WalksOf[c] : Open(c, w)
  PROVE  IInv' /\ (ByStart /\ WalkInv => WalkInv')
<1> DEFINE me == client[c]
<1>0. /\ Sound(db) /\ Good(me, db) /\ (me.pc = "scan" => conn = c)
      /\ conn \in {Free, Writer} \cup Clients /\ (WalkInv => Ordered(me, db))
      /\ Free \notin Clients
  BY ConnAssumption DEF IInv, WalkInv
<1>1. ASSUME NEW w \in WalksOf[c], Open(c, w) PROVE IInv' /\ (WalkInv => WalkInv')
  <2> DEFINE you == [me EXCEPT !.pc = Request(w), !.walk = w]
  <2>1. w \in Walks BY DEF Walks
  <2>2. me.pc = "idle" BY <1>1 DEF Open, At
  <2>3. Good(you, db) /\ Ordered(you, db) BY <1>0, <2>1, <2>2, OpenGood
  <2>4. db' = db /\ conn' = conn /\ client' = [client EXCEPT ![c] = you]
    BY <1>1 DEF Open
  <2>5. you.pc # "scan" BY <1>0 DEF Good, Typed, Client, Request
  <2> HIDE DEF you
  <2> QED BY <1>0, <2>3, <2>4, <2>5, ClientMoves
<1>2. ASSUME FindProject(c) PROVE IInv' /\ (WalkInv => WalkInv')
  <2>1. me.pc = "find" /\ db' = db /\ conn' = conn BY <1>2 DEF FindProject, At
  <2>2. CASE client' = [client EXCEPT ![c] = NoWalk("failed")]
    <3>1. NoWalk("failed").pc # "scan" BY DEF NoWalk
    <3>2. Good(NoWalk("failed"), db) /\ Ordered(NoWalk("failed"), db) BY <1>0, NoWalkGood
    <3> QED BY <1>0, <2>1, <2>2, <3>1, <3>2, ClientMoves
  <2>3. ASSUME NEW p \in FindProjectRows(db, me.walk.project),
               client' = [client EXCEPT ![c] =
                 [@ EXCEPT !.pc = IF me.walk.list = "project" THEN "answer" ELSE "query",
                           !.project = p]]
        PROVE  IInv' /\ (WalkInv => WalkInv')
    <3> DEFINE you == [me EXCEPT !.pc = IF me.walk.list = "project" THEN "answer" ELSE "query",
                                 !.project = p]
    <3>1. Good(you, db) /\ (Ordered(me, db) => Ordered(you, db)) BY <1>0, <2>1, FindGood
    <3>2. client' = [client EXCEPT ![c] = you] BY <2>3
    <3>3. you.pc # "scan" BY <1>0 DEF Good, Typed, Client
    <3> HIDE DEF you
    <3> QED BY <1>0, <2>1, <3>1, <3>2, <3>3, ClientMoves
  <2> QED BY <1>2, <2>2, <2>3 DEF FindProject
<1>3. ASSUME QueryPage(c) PROVE IInv' /\ (ByStart /\ WalkInv => WalkInv')
  <2>1. me.pc = "query" /\ conn = Free /\ conn' = c /\ db' = db
    BY <1>3 DEF QueryPage, At
  <2>2. client' = [client EXCEPT ![c] = Paging(me, db)]
    BY <1>3 DEF QueryPage, Paging, Asked
  <2>3. Good(Paging(me, db), db) BY <1>0, <2>1, QueryGood
  <2>4. ByStart /\ WalkInv => Ordered(Paging(me, db), db) BY <1>0, <2>1, QueryOrdered
  <2> QED BY <1>0, <2>1, <2>2, <2>3, <2>4, ClientMoves
<1>4. ASSUME ScanPage(c) PROVE IInv' /\ (WalkInv => WalkInv')
  <2> DEFINE you == [me EXCEPT !.pc = AfterScan(c)]
  <2>1. me.pc = "scan" /\ conn' = Free /\ db' = db /\ client' = [client EXCEPT ![c] = you]
    BY <1>4 DEF ScanPage, At
  <2>2. AfterScan(c) \in {"count", "answer"}
        /\ (AfterScan(c) = "answer" /\ me.walk.list = "traces" => me.page = {})
    BY DEF AfterScan
  <2>3. Good(you, db) /\ (Ordered(me, db) => Ordered(you, db))
    BY <1>0, <2>1, <2>2, ScanGood
  <2>4. you.pc # "scan" BY <1>0, <2>2 DEF Good, Typed, Client
  <2> HIDE DEF you
  <2>5. conn = c /\ \A d \in Clients \ {c} : conn # d BY <1>0, <2>1
  <2> QED BY <1>0, <2>1, <2>3, <2>4, <2>5, ClientMoves
<1>5. ASSUME FillTokenCounts(c) PROVE IInv' /\ (WalkInv => WalkInv')
  <2> DEFINE you == [me EXCEPT !.pc = "answer",
                               !.counts = [t \in me.page |-> TokenTotal(db, t)]]
  <2>1. me.pc = "count" /\ conn' = conn /\ db' = db /\ client' = [client EXCEPT ![c] = you]
    BY <1>5 DEF FillTokenCounts, At
  <2>2. Good(you, db) /\ (Ordered(me, db) => Ordered(you, db))
    BY <1>0, <2>1, CountGood
  <2>3. you.pc # "scan" BY <1>0 DEF Good, Typed, Client
  <2> HIDE DEF you
  <2> QED BY <1>0, <2>1, <2>2, <2>3, ClientMoves
<1>6. ASSUME Answer(c) PROVE IInv' /\ (WalkInv => WalkInv')
  <2> DEFINE you == [me EXCEPT !.pc = IF me.next = NoCursor THEN "done" ELSE Request(me.walk),
                               !.shown = me.shown \cup me.page, !.page = {},
                               !.counts = NoCounts, !.seen = EmptyTables,
                               !.cursor = me.next, !.next = NoCursor]
  <2>1. me.pc = "answer" /\ conn' = conn /\ db' = db /\ client' = [client EXCEPT ![c] = you]
    BY <1>6 DEF Answer, At
  <2>2. Good(you, db) /\ (Ordered(me, db) => Ordered(you, db))
    BY <1>0, <2>1, AnswerGood
  <2>3. you.pc # "scan" BY <1>0 DEF Good, Typed, Client, Request
  <2> HIDE DEF you
  <2> QED BY <1>0, <2>1, <2>2, <2>3, ClientMoves
<1>7. ASSUME Refuse(c) \/ Fail(c) PROVE IInv' /\ (WalkInv => WalkInv')
  <2>1. /\ db' = db /\ client' = [client EXCEPT ![c] = NoWalk("failed")]
        /\ conn' = conn \/ (conn = c /\ conn' = Free)
    BY <1>7 DEF Refuse, Fail
  <2>2. NoWalk("failed").pc # "scan" BY DEF NoWalk
  <2>3. Good(NoWalk("failed"), db) /\ Ordered(NoWalk("failed"), db) BY <1>0, NoWalkGood
  <2>4. conn' \in {Free, Writer} \cup Clients /\ \A d \in Clients \ {c} : conn = d => conn' = d
    BY <1>0, <2>1
  <2> QED BY <1>0, <2>1, <2>2, <2>3, <2>4, ClientMoves
<1> QED BY <1>1, <1>2, <1>3, <1>4, <1>5, <1>6, <1>7 DEF Step

LEMMA NextKeeps ==
  ASSUME IInv, [Next]_vars
  PROVE  IInv' /\ (ByStart /\ WalkInv => WalkInv')
<1>1. ASSUME NEW c \in Clients, Step(c) \/ Fail(c) \/ \E w \in WalksOf[c] : Open(c, w)
      PROVE  IInv' /\ (ByStart /\ WalkInv => WalkInv')
  BY <1>1, StepKeeps
<1>2. CASE BeginTx \/ Rollback
  <2>1. db' = db /\ client' = client /\ conn' \in {Free, Writer}
        /\ conn \in {Free, Writer}
    BY <1>2 DEF BeginTx, Rollback
  <2>2. \A c \in Clients : client[c].pc # "scan" BY <2>1, ConnAssumption DEF IInv
  <2>3. IInv' BY <2>1, <2>2 DEF IInv
  <2> QED BY <2>1, <2>3 DEF WalkInv
<1>3. ASSUME NEW s \in Spans, Commit(s)
      PROVE  IInv' /\ (ByStart /\ WalkInv => WalkInv')
  <2>1. conn = Writer /\ conn' = Free /\ db' = Insert(db, s) /\ client' = client
    BY <1>3 DEF Commit
  <2>2. \A c \in Clients : client[c].pc # "scan" BY <2>1, ConnAssumption DEF IInv
  <2>3. Sound(db) /\ Sound(db') /\ Grew(db, db') BY <2>1, InsertGrows DEF IInv, Sent
  <2>4. \A c \in Clients : Good(client[c], db') BY <2>2, <2>3, CommitGood DEF IInv
  <2>5. IInv' BY <2>1, <2>2, <2>3, <2>4 DEF IInv
  <2>6. ASSUME ByStart, WalkInv PROVE \A c \in Clients : Ordered(client[c], db')
    BY <2>2, <2>3, <2>6, CommitOrdered DEF IInv, WalkInv
  <2> QED BY <2>1, <2>5, <2>6 DEF WalkInv
<1>4. CASE UNCHANGED vars BY <1>4 DEF vars, IInv, WalkInv
<1> QED BY <1>1, <1>2, <1>3, <1>4 DEF Next, EndTx

LEMMA Invariance == Spec => []IInv
<1>1. Init => IInv BY InitGood
<1>2. IInv /\ [Next]_vars => IInv' BY NextKeeps
<1> QED BY <1>1, <1>2, PTL DEF Spec

LEMMA WalkInvariance == ASSUME ByStart PROVE Spec => []WalkInv
<1>1. Init => WalkInv BY InitGood
<1>2. WalkInv /\ [Next]_vars => WalkInv' BY NextKeeps DEF WalkInv
<1> QED BY <1>1, <1>2, PTL DEF Spec
-----------------------------------------------------------------------------
(* The properties. *)

\* Tables, cursors and pages have their types, and no page of any listing is
\* longer than the limit that the request named, whatever is committed.
THEOREM TypeCorrect == Spec => []TypeOK
<1>1. IInv => TypeOK
  <2> SUFFICES ASSUME IInv PROVE TypeOK
    OBVIOUS
  <2>1. DOMAIN db = {"projects", "traces", "spans"} BY DEF IInv, Sound, Tables
  <2>2. ASSUME NEW c \in Clients
        PROVE  /\ client[c].pc \in {"idle", "find", "query", "scan", "count",
                                    "answer", "done", "failed"}
               /\ client[c].walk \in Walks
               /\ client[c].project \in {0} \cup DOMAIN db.projects
               /\ client[c].cursor.row \in Nat /\ client[c].next.row \in Nat
               /\ IsFiniteSet(client[c].page)
               /\ Paged(client[c].walk) => Cardinality(client[c].page) <= Limit
    <3>1. Typed(client[c], db) /\ client[c] \in Client BY DEF IInv, Good, Typed
    <3>2. client[c].page \subseteq Listed(db, client[c].walk) /\ client[c].walk \in Walks
      BY <3>1 DEF Typed, Client
    <3>3. IsFiniteSet(client[c].page) BY <3>2, MatchingListed, FS_Subset DEF IInv
    <3>4. \A k \in Cursor : k.row \in Nat BY DEF Cursor, NoCursor
    <3>5. client[c].cursor \in Cursor /\ client[c].next \in Cursor BY <3>1 DEF Client
    <3> QED BY <3>1, <3>2, <3>3, <3>4, <3>5 DEF Typed, Client
  <2> QED BY <2>1, <2>2 DEF TypeOK, IInv
<1> QED BY <1>1, Invariance, PTL

\* However many projects appear between the pages, all the rows of a walk
\* belong to the one project that its identifier leads to.
THEOREM RowsAreOfOneProject == Spec => []OneProject
<1>1. IInv => OneProject
  <2> SUFFICES ASSUME IInv, NEW c \in Clients,
                      client[c].walk.list \in {"spans", "traces", "trace"},
                      NEW r \in client[c].page \cup client[c].shown
               PROVE  /\ ProjectOfRow(client[c].walk, r) = client[c].project
                      /\ client[c].project \in FindProjectRows(db, client[c].walk.project)
    BY DEF OneProject
  <2>1. HasProject(client[c]) /\ Filed(db, client[c].walk, r) = client[c].project
    BY DEF IInv, Good, Ours
  <2>2. client[c].project \in FindProjectRows(db, client[c].walk.project)
    BY <2>1 DEF IInv, Good, Found
  <2> QED BY <2>1, <2>2 DEF Filed, ProjectOfRow
<1> QED BY <1>1, Invariance, PTL

\* The texts of two times are ordered like the times, except within a second.
LEMMA TextAndTime ==
  ASSUME NEW t \in Nat, NEW u \in Nat
  PROVE  /\ ~TextBefore(t, u) => t >= u \/ SameSecond(t, u)
         /\ TextBefore(t, u) => t < u \/ (SameSecond(t, u) /\ t # u)
<1>1. t \div Second \in Int /\ u \div Second \in Int
      /\ (t < u => t \div Second <= u \div Second)
      /\ (u < t => u \div Second <= t \div Second)
  BY DEF Second
<1>2. /\ t \div Second < u \div Second => TextBefore(t, u)
      /\ u \div Second < t \div Second => TextBefore(u, t)
  BY TextOrder
<1>3. TextBefore(t, u) => ~TextBefore(u, t) /\ t # u
  BY TextOrder DEF TextBefore
<1> DEFINE m == t \div Second  n == u \div Second
<1>4. m = n \/ m < n \/ n < m BY <1>1
<1>5. SameSecond(t, u) <=> m = n BY DEF SameSecond
<1> HIDE DEF m, n
<1>6. ~TextBefore(t, u) => t >= u \/ SameSecond(t, u)
  BY <1>1, <1>2, <1>4, <1>5 DEF m, n
<1>7. TextBefore(t, u) => t < u \/ (SameSecond(t, u) /\ t # u)
  BY <1>1, <1>2, <1>3, <1>4, <1>5 DEF m, n
<1> QED BY <1>6, <1>7

\* At the end of a walk nothing lies behind its edge.
LEMMA WalkShows ==
  ASSUME WalkInv, NEW c \in Clients, client[c].pc = "done", NEW r,
         r \in Then(c), r \in Now(c)
  PROVE  r \in client[c].shown \/ (~Descends(client[c].walk) /\ Moved(c, r))
<1>1. /\ Begun(client[c]) /\ Edge(client[c]) = NoCursor /\ client[c].page = {}
  BY DEF WalkInv, IInv, Good, Staged, Begun, Edge
<1>2. \/ r \in client[c].shown
      \/ ~Descends(client[c].walk) /\ ~Stayed(client[c], db, r)
  BY <1>1 DEF WalkInv, Ordered, Covered, Then, Now
<1> QED BY <1>2 DEF Stayed, Moved, Then

\* The filter and the interval agree on every start that is not near a bound.
LEMMA FilterAndInterval ==
  ASSUME NEW w \in Walks, NEW t \in Nat, ~NearBound(w, t)
  PROVE  StartsWithin(w, t) <=> Within(w, t)
<1>1. (w.from # NoBound => w.from \in Nat) /\ (w.to # NoBound => w.to \in Nat)
  BY WalkTyped
<1>2. w.from # NoBound => (~TextBefore(t, w.from) <=> t >= w.from)
  <2> SUFFICES ASSUME w.from # NoBound PROVE ~TextBefore(t, w.from) <=> t >= w.from
    OBVIOUS
  <2>1. ~SameSecond(t, w.from) \/ t = w.from BY DEF NearBound
  <2>2. CASE t = w.from BY <2>2, <1>1, TextAndTime
  <2>3. CASE ~SameSecond(t, w.from) BY <2>3, <1>1, TextAndTime
  <2> QED BY <2>1, <2>2, <2>3
<1>3. w.to # NoBound => (TextBefore(t, w.to) <=> t < w.to)
  <2> SUFFICES ASSUME w.to # NoBound PROVE TextBefore(t, w.to) <=> t < w.to
    OBVIOUS
  <2>1. ~SameSecond(t, w.to) \/ t = w.to BY DEF NearBound
  <2>2. CASE t = w.to BY <2>2, <1>1, TextAndTime
  <2>3. CASE ~SameSecond(t, w.to) BY <2>3, <1>1, TextAndTime
  <2> QED BY <2>1, <2>2, <2>3
<1> QED BY <1>2, <1>3 DEF StartsWithin, Within

LEMMA WantedMatches ==
  ASSUME NEW T, Sound(T), NEW w \in Walks, w.list = "traces", NEW p,
         NEW r \in Wanted(T, w, p), ~NearBound(w, T.traces[r].start)
  PROVE  r \in Matching(T, w, p)
<1>1. r \in DOMAIN T.traces /\ Within(w, T.traces[r].start) BY DEF Wanted
<1>2. StartsWithin(w, T.traces[r].start) BY <1>1, SoundRows, FilterAndInterval
<1> QED BY <1>1, <1>2 DEF Wanted, Matching

\* A time filter errs, because it compares texts, by less than a second: what
\* a page shows and what a finished walk has not shown is on the right side of
\* the bounds, or starts in the second of one of them.
THEOREM BoundsErrWithinASecond ==
  ASSUME ByStart
  PROVE  Spec => []BoundsHold
<1>1. WalkInv => BoundsHold
  <2> SUFFICES ASSUME WalkInv, NEW c \in Clients, client[c].walk.list = "traces"
               PROVE  BoundsKept(c, TRUE)
    BY DEF BoundsHold
  <2> DEFINE me == client[c]
  <2>1. me.walk \in Walks BY DEF WalkInv, IInv, Good, Typed, Client
  <2>2. ASSUME me.pc = "scan", NEW r \in me.page
        PROVE  \/ Within(me.walk, db.traces[r].start)
               \/ NearBound(me.walk, db.traces[r].start)
    <3>1. r \in Matching(db, me.walk, me.project)
      BY <2>2 DEF WalkInv, IInv, Good, Scanned
    <3>2. r \in DOMAIN db.traces /\ StartsWithin(me.walk, db.traces[r].start)
      BY <3>1 DEF Matching
    <3>3. db.traces[r].start \in Nat BY <3>2, SoundRows DEF WalkInv, IInv
    <3> QED BY <2>1, <3>2, <3>3, FilterAndInterval
  <2>3. ASSUME me.pc = "done",
               NEW r \in Wanted(me.first, me.walk, me.project)
                         \cap Wanted(db, me.walk, me.project),
               ~NearBound(me.walk, me.first.traces[r].start),
               ~NearBound(me.walk, db.traces[r].start)
        PROVE  r \in me.shown \/ (~Descends(me.walk) /\ Moved(c, r))
    <3>1. Sound(db) /\ Sound(me.first) BY DEF WalkInv, IInv, Good, Typed
    <3>2. r \in Then(c) /\ r \in Now(c)
      BY <2>1, <2>3, <3>1, WantedMatches DEF Then, Now
    <3> QED BY <2>3, <3>2, WalkShows
  <2> QED BY <2>2, <2>3 DEF BoundsKept, At
<1> QED BY <1>1, WalkInvariance, PTL

\* The counts of a page are those of one moment, not before its rows, though
\* spans are committed between the two queries and after them.
THEOREM CountsAreOfOneMoment == Spec => []CountsCoverPage
<1>1. IInv => CountsCoverPage
  BY DEF CountsCoverPage, At, IInv, Good, Counted
<1> QED BY <1>1, Invariance, PTL

\* A walk that comes to its end has shown all that matched throughout, for
\* every sequence of commits; in ascending order but for traces that moved
\* back.  latency_ms is not among the orders: it does not page.
THEOREM NothingIsSkipped ==
  ASSUME ByStart
  PROVE  Spec => []NothingSkipped
<1>1. WalkInv => NothingSkipped BY WalkShows DEF NothingSkipped, At
<1> QED BY <1>1, WalkInvariance, PTL

\* What a walk shows twice is the row that its cursor names, or a trace that
\* moved back in descending order, for every sequence of commits.
THEOREM RepeatsAreExplained ==
  ASSUME ByStart
  PROVE  Spec => []RepeatsExplained
<1>1. WalkInv => RepeatsExplained
  <2> SUFFICES ASSUME WalkInv, NEW c \in Clients, client[c].pc = "scan",
                      NEW r \in client[c].page \cap client[c].shown
               PROVE  IF ByRowid(client[c].walk) THEN r = client[c].cursor.row
                      ELSE Descends(client[c].walk) /\ Moved(c, r)
    BY DEF RepeatsExplained, At
  <2>1. IF ByRowid(client[c].walk) THEN r = client[c].cursor.row
        ELSE Descends(client[c].walk) /\ ~Stayed(client[c], db, r)
    BY DEF WalkInv, Ordered, Repeated
  <2> QED BY <2>1 DEF Stayed, Moved, Then
<1> QED BY <1>1, WalkInvariance, PTL
=============================================================================
