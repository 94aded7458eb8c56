----------------------------- MODULE Idempotency -----------------------------
(***************************************************************************)
(* Idempotency keys of the backend: IdempotencyService and the             *)
(* interceptors that run every mutating request through it (the global one *)
(* of common/interceptors, the optional and the mandatory one of           *)
(* common/idempotency, which differ in how the stored key is derived and   *)
(* in status codes).  Requests with different stored keys or users never   *)
(* meet: one key of one user is modelled, used by every request.           *)
(*                                                                         *)
(* A step is one statement or what runs between two awaits.  A request     *)
(* inserts at most one record, so the record's id is the request that      *)
(* inserted it and a stored response is the executing request's.  The      *)
(* interceptors send the response without waiting for complete or release. *)
(***************************************************************************)
EXTENDS Integers, FiniteSets

CONSTANTS
  Requests,
  Body,           \* the request hash: method, URL and body
  NoRequest,
  TTL,            \* ttlMs, in ticks
  MaxFailures     \* bound: statements that fail and processes that crash

ASSUME RequestsAssumption ==
  /\ NoRequest \notin Requests /\ IsFiniteSet(Requests)
  /\ Requests \cap {"none", "refused", "failed"} = {}

ASSUME LimitsAssumption == TTL \in Nat /\ MaxFailures \in Nat

VARIABLES
  row,        \* the record of the key: id (NoRequest: no row), in_progress
  pc,         \* where every request is
  found,      \* the id of the record a request is about to purge
  age,        \* age of the record a request inserted, saturated after TTL
  answer,     \* what the client of every request was told
  claimed,    \* history: the requests that inserted a record
  failures

vars == <<row, pc, found, age, answer, claimed, failures>>

-----------------------------------------------------------------------------
Steps == {"inserting", "finding", "purging", "handling", "completing",
          "releasing", "done"}

NoRow == [id |-> NoRequest, in_progress |-> FALSE]

Init ==
  /\ row = NoRow
  /\ pc = [r \in Requests |-> "inserting"]
  /\ found = [r \in Requests |-> NoRequest]
  /\ age = [r \in Requests |-> 0]
  /\ answer = [r \in Requests |-> "none"]
  /\ claimed = {}
  /\ failures = 0

Goto(r, step) == pc' = [pc EXCEPT ![r] = step]
Reply(r, a) == answer' = [answer EXCEPT ![r] = a]

\* isExpired; a record's created_at is the moment its request inserted it.
isExpired(id) == age[id] > TTL

\* Mutant: the record is deleted by its key.
DeleteById_AnyRecord(id) == row' = NoRow

DeleteById(id) == row' = IF row.id = id THEN NoRow ELSE row

-----------------------------------------------------------------------------
(* acquire *)

Insert(r) ==
  /\ pc[r] = "inserting"
  /\ IF row = NoRow
       THEN /\ row' = [id |-> r, in_progress |-> TRUE]
            /\ claimed' = claimed \cup {r}
            /\ Goto(r, "handling")
       ELSE /\ Goto(r, "finding")
            /\ UNCHANGED <<row, claimed>>
  /\ UNCHANGED <<found, age, answer, failures>>

\* Any other error of the insert is thrown.
InsertFails(r) ==
  /\ pc[r] = "inserting" /\ failures < MaxFailures
  /\ Goto(r, "done") /\ Reply(r, "refused")
  /\ failures' = failures + 1
  /\ UNCHANGED <<row, found, age, claimed>>

\* Mutant: when the record is gone again the handler runs without a claim.
Find_Unclaimed(r) ==
  /\ pc[r] = "finding"
  /\ row = NoRow
  /\ Goto(r, "handling")
  /\ UNCHANGED <<row, found, age, answer, claimed, failures>>

\* findOneBy after the unique violation, and what the interceptor does with a
\* live record: another body and a record in progress are refused, a completed
\* record is replayed.  A record that is gone again rethrows the violation.
Find(r) ==
  /\ pc[r] = "finding"
  /\ IF row # NoRow /\ isExpired(row.id)
       THEN /\ Goto(r, "purging")
            /\ found' = [found EXCEPT ![r] = row.id]
            /\ UNCHANGED answer
       ELSE /\ Goto(r, "done")
            /\ Reply(r, IF row = NoRow \/ Body[row.id] # Body[r] \/ row.in_progress
                          THEN "refused" ELSE row.id)
            /\ UNCHANGED found
  /\ UNCHANGED <<row, age, claimed, failures>>

\* The expired record is deleted by its id and the acquisition starts again.
Purge(r) ==
  /\ pc[r] = "purging"
  /\ DeleteById(found[r])
  /\ Goto(r, "inserting")
  /\ found' = [found EXCEPT ![r] = NoRequest]
  /\ UNCHANGED <<age, answer, claimed, failures>>

-----------------------------------------------------------------------------
(* The handler, and what follows it without being awaited. *)

\* Mutant: the key is released however the handler ended.
Handle_Releases(r) ==
  /\ pc[r] = "handling"
  /\ Goto(r, "releasing")
  /\ Reply(r, r) \/ Reply(r, "failed")
  /\ UNCHANGED <<row, found, age, claimed, failures>>

Handle(r) ==
  /\ pc[r] = "handling"
  /\ \/ Goto(r, "completing") /\ Reply(r, r)
     \/ Goto(r, "releasing") /\ Reply(r, "failed")
  /\ UNCHANGED <<row, found, age, claimed, failures>>

\* complete updates by id: nothing happens when the record is gone.
Complete(r) ==
  /\ pc[r] = "completing"
  /\ row' = IF row.id = r THEN [row EXCEPT !.in_progress = FALSE] ELSE row
  /\ Goto(r, "done")
  /\ UNCHANGED <<found, age, answer, claimed, failures>>

Release(r) ==
  /\ pc[r] = "releasing"
  /\ DeleteById(r)
  /\ Goto(r, "done")
  /\ UNCHANGED <<found, age, answer, claimed, failures>>

\* The process stops, or the statement of complete, release, findOneBy or
\* delete fails: the record stays as it is.
Stop(r) ==
  /\ pc[r] \in Steps \ {"inserting", "done"}
  /\ failures < MaxFailures
  /\ failures' = failures + 1
  /\ Goto(r, "done")
  /\ UNCHANGED <<row, found, age, answer, claimed>>

-----------------------------------------------------------------------------
(* The hourly job and time. *)

\* Mutant: the job only deletes completed records.
cleanupExpiredKeys_Completed ==
  /\ row # NoRow /\ isExpired(row.id) /\ ~row.in_progress
  /\ row' = NoRow
  /\ UNCHANGED <<pc, found, age, answer, claimed, failures>>

cleanupExpiredKeys ==
  /\ row # NoRow /\ isExpired(row.id)
  /\ row' = NoRow
  /\ UNCHANGED <<pc, found, age, answer, claimed, failures>>

Tick ==
  /\ \E r \in claimed : ~isExpired(r)
  /\ age' = [r \in Requests |->
               IF r \in claimed /\ ~isExpired(r) THEN age[r] + 1 ELSE age[r]]
  /\ UNCHANGED <<row, pc, found, answer, claimed, failures>>

Step(r) ==
  \/ Insert(r) \/ InsertFails(r) \/ Find(r) \/ Purge(r)
  \/ Handle(r) \/ Complete(r) \/ Release(r) \/ Stop(r)

Next == (\E r \in Requests : Step(r)) \/ cleanupExpiredKeys \/ Tick

\* A started request is driven by the event loop, the job by the scheduler.
\* Nothing forces a handler to end.
Fairness ==
  /\ \A r \in Requests :
       WF_vars(Insert(r) \/ Find(r) \/ Purge(r) \/ Complete(r) \/ Release(r))
  /\ WF_vars(cleanupExpiredKeys)
  /\ WF_vars(Tick)

Spec == Init /\ [][Next]_vars /\ Fairness

-----------------------------------------------------------------------------
(* Properties. *)

\* The variables keep their types; only a request that inserted a record runs
\* its handler, and the row is one of those records.
TypeOK ==
  /\ row \in [id : Requests \cup {NoRequest}, in_progress : BOOLEAN]
  /\ pc \in [Requests -> Steps]
  /\ found \in [Requests -> Requests \cup {NoRequest}]
  /\ age \in [Requests -> 0..(TTL + 1)]
  /\ answer \in [Requests -> Requests \cup {"none", "refused", "failed"}]
  /\ claimed \subseteq Requests
  /\ row.id \in claimed \cup {NoRequest}
  /\ \A r \in Requests : pc[r] \in {"handling", "completing", "releasing"} => r \in claimed
  /\ failures \in 0..MaxFailures

\* While a request's handler runs or has succeeded, and until the key's time
\* to live is over, the record it inserted is the one in the table: no purge
\* of another request, no release and no cleanup takes it away, so no second
\* handler of the same key starts (acquire, release and complete address
\* records by id).
ClaimKept ==
  \A r \in claimed :
    (pc[r] = "handling" \/ answer[r] = r) /\ ~isExpired(r) => row.id = r

\* The key behaves as IdempotencyCell says: claimed when free, freed only by
\* failure or age, and a stored answer replayed unchanged to the same body.
Cell == INSTANCE IdempotencyCell WITH
  by <- row.id,
  stored <- row # NoRow /\ ~row.in_progress,
  lapsed <- row # NoRow /\ isExpired(row.id)

ImplementsCell == Cell!Spec

\* However a request ends - crashed, with its response not stored or its key
\* not released - the key does not refuse the client's retries for ever.
NotBlockedForEver ==
  \A r \in Requests : (row.id = r /\ row.in_progress) ~> ~(row.id = r /\ row.in_progress)
=============================================================================
