----------------------------- MODULE MCQueryAPI -----------------------------
(* One client walks through the listings of project p, two rows a page,    *)
(* and another one competes with it for the connection.                    *)
(* The traces b and c start in the same instant, on both sides of a page's *)
(* end; e starts half a second later, which as a text comes before them.   *)
EXTENDS QueryAPI, TLC

CONSTANTS a, b, c, d, e, f, p, q, c1, c2, unknown, two, three

S(i, t, prj, st, en, er) ==
    [id |-> i, trace |-> t, project |-> prj, start |-> st, end |-> en, error |-> er,
     tokens |-> 2 ^ i]

MCStored == << S(1, a, p, 1300, 1400, FALSE), S(2, b, p, 1200, 1300, FALSE),
               S(3, c, p, 1200, 1400, TRUE),  S(4, d, three, 1200, 1300, FALSE),
               S(5, e, p, 1250, 1500, FALSE),
               S(8, d, three, 1200, 1300, FALSE), S(9, d, three, 1200, 1300, FALSE) >>

\* While clients walk, trace a moves back to the very beginning and gets an
\* error from a span that names a new project, the third row of its table, and
\* a trace f appears in the middle.
MCSpans == { S(6, a, q, 1100, 1200, TRUE), S(7, f, p, 1250, 1300, FALSE) }

W(list, project, order, error, from, to) ==
    [list |-> list, project |-> project, trace |-> a, malformed |-> FALSE,
     sort |-> "start_time", order |-> order, error |-> error, from |-> from, to |-> to]

\* The traces from 12.7 to 13: the text of 12 is past that of 12.7.
Between == W("traces", p, "desc", "false", 1270, 1300)

\* The traces up to 13.2: the text of 13 is past that of 13.2, so the trace
\* that starts at 13 is left out.
Until == W("traces", p, "desc", "any", NoBound, 1320)

\* The second client asks for p's traces with
\* errors, the spans of trace a, those of a project nobody knows, of the
\* project with the rowid 2 and of the one with the rowid 3, which is another
\* project's name as well; project 2 alone; and one is refused.
MCWalksOf ==
    c1 :> { W("projects", p, "desc", "any", NoBound, NoBound),
            W("spans",    p, "desc", "any", NoBound, NoBound),
            W("traces",   p, "desc", "any", NoBound, NoBound),
            W("traces",   p, "asc",  "any", NoBound, NoBound),
            Between, Until }
    @@ c2 :> { W("traces", p, "desc", "true", NoBound, NoBound),
               W("trace", p, "desc", "any", NoBound, NoBound),
               W("spans", unknown, "desc", "true", NoBound, NoBound),
               W("spans", two, "desc", "any", NoBound, NoBound),
               W("spans", three, "desc", "any", NoBound, NoBound),
               W("project", two, "desc", "any", NoBound, NoBound),
               [Between EXCEPT !.malformed = TRUE] }

MCClients == {c1, c2}
MCNumeric == two :> 2 @@ three :> 3

OneClient == {c1}
NoSpans == {}
UntilWalksOf == c1 :> { Until }
RowidWalksOf == c1 :> { W("spans", p, "desc", "any", NoBound, NoBound) }
LatencyWalksOf ==
    c1 :> { [W("traces", p, "asc", "any", NoBound, NoBound) EXCEPT !.sort = "latency_ms"] }
=============================================================================
