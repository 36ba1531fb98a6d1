------------------------------ MODULE MCIngest ------------------------------
(***************************************************************************)
(* Instances of Ingest for TLC: two requests that together have more spans *)
(* than the channel and a batch hold, and one that is refused.             *)
(***************************************************************************)
EXTENDS Ingest

CONSTANTS r1, r2, bad

MCRequests == {r1, r2, bad}
MCSize == [r \in MCRequests |-> IF r = r1 THEN 3 ELSE 1]
=============================================================================
