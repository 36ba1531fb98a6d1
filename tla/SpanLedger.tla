----------------------------- MODULE SpanLedger -----------------------------
(***************************************************************************)
(* What the store promises: a ledger of spans that takes each span at most *)
(* once and whose derived columns are those of a recount from scratch.     *)
(*   - a span's totals are the sums over the span and its descendants      *)
(*     that are in the ledger (schema.sql: "Cumulative values include this *)
(*     span and all of its descendants");                                  *)
(*   - a trace's range is the hull of its spans' times;                    *)
(*   - a trace is filed under the project and the session of one and the   *)
(*     same span, the first of its spans;                                  *)
(*   - a span that is in the ledger is ignored when it comes again.        *)
(***************************************************************************)
EXTENDS Integers, FiniteSetsExt, Functions

CONSTANTS Spans, SelfTotals(_), Counters

VARIABLES
    rows,    \* the spans in the ledger
    totals,  \* span id -> counters of its subtree
    ranges,  \* trace -> first start and last end
    filed    \* trace -> project and session

vars == <<rows, totals, ranges, filed>>

\* The way up from a span through the spans present: the least set that holds
\* it and with each span the parent in the same trace.
WayUp(S, s) ==
    {u \in S : \A T \in SUBSET S :
        /\ s \in T
        /\ \A r \in T : \A v \in S : v.id = r.parent /\ v.trace = r.trace => v \in T
        => u \in T}

\* A span and its descendants: the spans whose way up leads through it.
Subtree(S, i) == {s \in S : \E u \in WayUp(S, s) : u.id = i}

Recount(S) ==
    [i \in {s.id : s \in S} |->
        [k \in Counters |->
            SumFunctionOnSet([s \in S |-> SelfTotals(s)[k]], Subtree(S, i))]]

Hulls(S) ==
    [t \in {s.trace : s \in S} |->
        [start |-> Min({s.start : s \in {u \in S : u.trace = t}}),
         end   |-> Max({s.end   : s \in {u \in S : u.trace = t}})]]

Init ==
    /\ rows = {}
    /\ totals = Recount({}) /\ ranges = Hulls({})
    /\ filed = [t \in {} |-> t]

\* One transaction takes a set of spans.  A new trace is filed as
\* one of its spans among them says.
Store(S) ==
    /\ S # {} /\ S \cap rows = {}
    /\ \A s \in S : \A r \in rows \cup S : s.id = r.id => s = r
    /\ rows' = rows \cup S
    /\ totals' = Recount(rows')
    /\ ranges' = Hulls(rows')
    /\ DOMAIN filed' = DOMAIN filed \cup {s.trace : s \in S}
    /\ \A t \in DOMAIN filed' :
          IF t \in DOMAIN filed THEN filed'[t] = filed[t]
          ELSE \E s \in S : s.trace = t /\
                  filed'[t] = [project |-> s.project, session |-> s.session]

Next == \E S \in SUBSET Spans : Store(S)

Spec == Init /\ [][Next]_vars
=============================================================================
