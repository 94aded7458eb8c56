--------------------------- MODULE IdempotencyCell ---------------------------
(***************************************************************************)
(* What one idempotency key promises its clients, without the database:    *)
(* the key is free, claimed by a request whose handler runs, or holds the  *)
(* answer of the request that claimed it.  A claim ends when its handler   *)
(* failed or when it has lapsed, and in no other way; a stored answer is   *)
(* given, unchanged, to later requests with the same body.                 *)
(* (The documentation of IdempotencyService and of its interceptors.)      *)
(***************************************************************************)
CONSTANTS Requests, Body, NoRequest

VARIABLES
  by,        \* the request that holds the key, or NoRequest
  stored,    \* its answer is stored
  lapsed,    \* the key is older than its time to live
  claimed,   \* the requests that ever claimed the key
  answer     \* "none", "refused", "failed" or the request whose answer it is

cell == <<by, stored, lapsed>>
vars == <<cell, claimed, answer>>

Init ==
  /\ by = NoRequest /\ stored = FALSE /\ lapsed = FALSE
  /\ claimed = {}
  /\ answer = [r \in Requests |-> "none"]

Answer(r, a) == answer[r] = "none" /\ answer' = [answer EXCEPT ![r] = a]

Claim(r) ==
  /\ by = NoRequest /\ r \notin claimed /\ answer[r] = "none"
  /\ by' = r /\ stored' = FALSE /\ lapsed' = FALSE
  /\ claimed' = claimed \cup {r}
  /\ UNCHANGED answer

\* The handler of r ends; only a request that claimed the key runs it.
Finish(r) ==
  /\ r \in claimed
  /\ Answer(r, r) \/ Answer(r, "failed")
  /\ UNCHANGED <<cell, claimed>>

Store(r) ==
  /\ by = r /\ answer[r] = r
  /\ stored' = TRUE
  /\ UNCHANGED <<by, lapsed, claimed, answer>>

Replay(r) ==
  /\ r \notin claimed /\ by # NoRequest /\ stored /\ ~lapsed
  /\ Body[r] = Body[by]
  /\ Answer(r, by)
  /\ UNCHANGED <<cell, claimed>>

Refuse(r) ==
  /\ r \notin claimed
  /\ Answer(r, "refused")
  /\ UNCHANGED <<cell, claimed>>

Lapse == by # NoRequest /\ lapsed' = TRUE /\ UNCHANGED <<by, stored, claimed, answer>>

Free ==
  /\ by # NoRequest
  /\ lapsed \/ answer[by] = "failed"
  /\ by' = NoRequest /\ stored' = FALSE /\ lapsed' = FALSE
  /\ UNCHANGED <<claimed, answer>>

Next ==
  \/ \E r \in Requests : Claim(r) \/ Finish(r) \/ Store(r) \/ Replay(r) \/ Refuse(r)
  \/ Lapse
  \/ Free

Spec == Init /\ [][Next]_vars
=============================================================================
