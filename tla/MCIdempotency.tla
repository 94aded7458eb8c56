---------------------------- MODULE MCIdempotency ----------------------------
(* Three requests with one key, one of them with another body. *)
EXTENDS Idempotency

CONSTANTS r1, r2, r3

MCRequests == {r1, r2, r3}
MCBody == [r \in MCRequests |-> IF r = r3 THEN 2 ELSE 1]
=============================================================================
