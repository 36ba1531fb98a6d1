------------------------------ MODULE SpanSink ------------------------------
(***************************************************************************)
(* What the ingestion path promises its clients (Batcher's comment:        *)
(* "graceful shutdown loses nothing that was acknowledged"): a request is  *)
(* acknowledged only when all its spans have been accepted, each accepted  *)
(* span is settled by one attempt to store it, and the server stops of     *)
(* its own accord only when no accepted span is unsettled.  A killed       *)
(* process may lose what it had accepted.                                  *)
(***************************************************************************)
EXTENDS Naturals

CONSTANTS Requests, Size

VARIABLES
    accepted,  \* request -> how many of its spans, from the first, are in
    settled,   \* the spans an attempt was made to store
    acked,     \* the requests answered with success
    status     \* "up", "stopped" or "killed"

vars == <<accepted, settled, acked, status>>

Init ==
    /\ accepted = [r \in Requests |-> 0]
    /\ settled = {} /\ acked = {} /\ status = "up"

Accept(r) ==
    /\ status = "up" /\ accepted[r] < Size[r]
    /\ accepted' = [accepted EXCEPT ![r] = @ + 1]
    /\ UNCHANGED <<settled, acked, status>>

Settle(r, i) ==
    /\ status = "up"
    /\ settled' = settled \cup {<<r, i>>}
    /\ UNCHANGED <<accepted, acked, status>>

Acknowledge(r) ==
    /\ status = "up" /\ accepted[r] = Size[r]
    /\ acked' = acked \cup {r}
    /\ UNCHANGED <<accepted, settled, status>>

Stop ==
    /\ status = "up" /\ status' = "stopped"
    /\ \A r \in Requests : \A i \in 1..accepted[r] : <<r, i>> \in settled
    /\ UNCHANGED <<accepted, settled, acked>>

Kill ==
    /\ status = "up" /\ status' = "killed"
    /\ UNCHANGED <<accepted, settled, acked>>

Next ==
    \/ \E r \in Requests :
          \/ Accept(r) \/ Acknowledge(r)
          \/ \E i \in 1..accepted[r] : <<r, i>> \notin settled /\ Settle(r, i)
    \/ Stop \/ Kill

Spec == Init /\ [][Next]_vars
=============================================================================
