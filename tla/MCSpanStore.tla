---------------------------- MODULE MCSpanStore ----------------------------
(***************************************************************************)
(* Instances of SpanStore and SpanBatch for TLC.  Token counts are         *)
(* distinct powers of two, so that a sum tells which spans are in it and   *)
(* how often; one is negative, which no code on the way to the store       *)
(* refuses.                                                                *)
(***************************************************************************)
EXTENDS SpanBatch

CONSTANTS a, b, c, d, e, f, none, t1, t2, p, q, s1, s2, null

MCSpanIds == {a, b, c, d, e, f}
MCTraceIds == {t1, t2}
MCProjects == {p, q}
MCSessions == {s1, s2, null}

MCSpan(id, trace, parent, project, start, end, status, kind, tokens) ==
    [id |-> id, trace |-> trace, parent |-> parent, project |-> project, session |-> null,
     start |-> start * Second, end |-> end * Second,
     status |-> status, kind |-> kind,
     prompt |-> tokens, completion |-> 0, marshals |-> TRUE]

\* A tree a <- b <- c, a sibling d that names another project and session and
\* is no LLM span, a second trace whose root e has its parent in the first, and a
\* span f whose attributes have no JSON text.
MCForest ==
    {MCSpan(a, t1, none, p, 2, 9, "OK",    "LLM",   1),
     [MCSpan(b, t1, a,   p, 3, 5, "ERROR", "LLM",  -2) EXCEPT !.session = s1],
     MCSpan(c, t1, b,    p, 4, 7, "ERROR", "LLM",   4),
     [MCSpan(d, t1, a,   q, 1, 3, "UNSET", "CHAIN", 8) EXCEPT !.session = s2],
     MCSpan(e, t2, b,    q, 2, 2, "ERROR", "LLM",  16),
     [MCSpan(f, t2, e, q, 1, 1, "OK", "LLM", 32) EXCEPT !.marshals = FALSE]}

Named(i) == CHOOSE s \in MCForest : s.id = i

\* A span that fails between two that do not; a child before its parent and
\* again after it; a trace that two projects name in one batch.
MCBatches ==
    {<<Named(b), Named(f), Named(a)>>, <<Named(c), Named(b), Named(c)>>,
     <<Named(d), Named(e), Named(a)>>}

\* Two traces of two projects, for what a rollback leaves in the cache.
MCTwoProjects ==
    {MCSpan(a, t1, none, p, 1, 2, "OK", "CHAIN", 0),
     MCSpan(b, t1, a,    p, 1, 2, "OK", "CHAIN", 0),
     MCSpan(c, t2, none, q, 1, 2, "OK", "CHAIN", 0)}

\* A trace whose spans start in the same second, one of them on it.
MCFractions ==
    {[MCSpan(a, t1, none, p, 1, 2, "OK", "CHAIN", 0) EXCEPT !.start = 150],
     [MCSpan(b, t1, a,    p, 1, 2, "OK", "CHAIN", 0) EXCEPT !.start = 125],
     MCSpan(c, t1, a,     p, 1, 2, "OK", "CHAIN", 0)}

\* A span that names itself as its parent, beside a sound one.
MCSelfParent ==
    {MCSpan(a, t1, a,    p, 1, 2, "OK", "CHAIN", 0),
     MCSpan(b, t2, none, p, 1, 2, "OK", "CHAIN", 0)}
=============================================================================
