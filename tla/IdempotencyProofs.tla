-------------------------- MODULE IdempotencyProofs --------------------------
(***************************************************************************)
(* Theorems about Idempotency, for any set of requests and bodies, any     *)
(* time to live and any number of failures: the record of a claim is kept, *)
(* and the statements of the service implement IdempotencyCell.            *)
(***************************************************************************)
EXTENDS Idempotency, TLAPS

USE RequestsAssumption, LimitsAssumption

-----------------------------------------------------------------------------
(* The inductive invariant. *)

\* Until its insert succeeds a request has claimed nothing and told its client
\* nothing, and its record has no age.
Unclaimed ==
  \A r \in Requests :
    /\ pc[r] \in {"inserting", "finding", "purging"} => r \notin claimed /\ answer[r] = "none"
    /\ r \notin claimed => age[r] = 0

\* What the client was told fits where its request is.
AnswersFit ==
  \A r \in Requests :
    /\ pc[r] = "handling" => answer[r] = "none"
    /\ pc[r] = "completing" => answer[r] = r
    /\ pc[r] = "releasing" => answer[r] = "failed"
    /\ answer[r] = r => r \in claimed /\ pc[r] \in {"completing", "done"}

\* A record that is about to be purged has expired, and expired records do
\* not become young again.
PurgesExpired ==
  \A r \in Requests :
    pc[r] = "purging" => found[r] \in Requests /\ isExpired(found[r])

\* A completed record holds the answer its own request gave.
StoredIsGiven ==
  /\ row.id = NoRequest => row = NoRow
  /\ row.id # NoRequest /\ ~row.in_progress => answer[row.id] = row.id

IInv == TypeOK /\ Unclaimed /\ AnswersFit /\ PurgesExpired /\ StoredIsGiven /\ ClaimKept

Records == [id : Requests \cup {NoRequest}, in_progress : BOOLEAN]

LEMMA ClaimType == ASSUME NEW r \in Requests PROVE [id |-> r, in_progress |-> TRUE] \in Records
BY DEF Records

LEMMA CompletedType ==
  ASSUME NEW rec \in Records
  PROVE  /\ [rec EXCEPT !.in_progress = FALSE] \in Records
         /\ [rec EXCEPT !.in_progress = FALSE].id = rec.id
BY DEF Records

LEMMA InvInit == Init => IInv
BY DEF Init, IInv, TypeOK, Unclaimed, AnswersFit, PurgesExpired, StoredIsGiven, ClaimKept,
       NoRow, Steps, isExpired

LEMMA InsertInv ==
  ASSUME IInv, NEW r \in Requests, Insert(r)
  PROVE  IInv'
<1> USE DEF IInv, Insert, Goto
<1>1. TypeOK'
  <2>1. row' \in Records
    BY ClaimType DEF TypeOK, Records
  <2>2. claimed' \subseteq Requests /\ row'.id \in claimed' \cup {NoRequest}
    BY DEF TypeOK
  <2>3. QED
    BY <2>1, <2>2 DEF TypeOK, Steps, Records
<1>2. Unclaimed' /\ AnswersFit'
  BY DEF TypeOK, Steps, Unclaimed, AnswersFit
<1>3. PurgesExpired' /\ StoredIsGiven'
  BY DEF TypeOK, Steps, PurgesExpired, StoredIsGiven, isExpired, NoRow
<1>4. ClaimKept'
  BY DEF TypeOK, ClaimKept, isExpired, NoRow, Unclaimed
<1>5. QED
  BY <1>1, <1>2, <1>3, <1>4

LEMMA FindInv ==
  ASSUME IInv, NEW r \in Requests, Find(r)
  PROVE  IInv'
<1> USE DEF IInv, Find, Goto, Reply
<1>1. TypeOK'
  BY DEF TypeOK, Steps, NoRow, StoredIsGiven
<1>2. Unclaimed' /\ AnswersFit'
  BY DEF TypeOK, Steps, Unclaimed, AnswersFit, StoredIsGiven
<1>3. PurgesExpired' /\ StoredIsGiven'
  BY DEF TypeOK, Steps, PurgesExpired, StoredIsGiven, isExpired, Unclaimed
<1>4. ClaimKept'
  BY DEF TypeOK, ClaimKept, isExpired, Unclaimed
<1>5. QED
  BY <1>1, <1>2, <1>3, <1>4

LEMMA PurgeInv ==
  ASSUME IInv, NEW r \in Requests, Purge(r)
  PROVE  IInv'
<1> USE DEF IInv, Purge, Goto, DeleteById, NoRow
<1>1. TypeOK'
  BY DEF TypeOK, Steps
<1>2. Unclaimed' /\ AnswersFit'
  BY DEF TypeOK, Steps, Unclaimed, AnswersFit
<1>3. PurgesExpired' /\ StoredIsGiven'
  BY DEF TypeOK, Steps, PurgesExpired, StoredIsGiven, isExpired
<1>4. ClaimKept'
  BY DEF TypeOK, ClaimKept, PurgesExpired, isExpired
<1>5. QED
  BY <1>1, <1>2, <1>3, <1>4

LEMMA HandleInv ==
  ASSUME IInv, NEW r \in Requests, Handle(r)
  PROVE  IInv'
<1> USE DEF IInv, Handle, Goto, Reply
<1>1. TypeOK'
  BY DEF TypeOK, Steps
<1>2. Unclaimed' /\ AnswersFit'
  BY DEF TypeOK, Steps, Unclaimed, AnswersFit
<1>3. PurgesExpired' /\ StoredIsGiven'
  BY DEF TypeOK, Steps, PurgesExpired, StoredIsGiven, isExpired, AnswersFit
<1>4. ClaimKept'
  BY DEF TypeOK, ClaimKept, isExpired
<1>5. QED
  BY <1>1, <1>2, <1>3, <1>4

\* complete and release: the request ends, its own record changes or goes.
LEMMA EndInv ==
  ASSUME IInv, NEW r \in Requests, Complete(r) \/ Release(r)
  PROVE  IInv'
<1> USE DEF IInv, Complete, Release, Goto, DeleteById, NoRow
<1>1. TypeOK'
  <2>1. row \in Records /\ NoRow \in Records /\ row.id \in claimed \cup {NoRequest}
    BY DEF TypeOK, Records
  <2>2. row' \in Records /\ row'.id \in claimed \cup {NoRequest}
    BY <2>1, CompletedType
  <2>3. QED
    BY <2>2 DEF TypeOK, Steps, Records
<1>2. Unclaimed' /\ AnswersFit'
  BY DEF TypeOK, Steps, Unclaimed, AnswersFit
<1>3. PurgesExpired' /\ StoredIsGiven'
  BY DEF TypeOK, Steps, PurgesExpired, StoredIsGiven, isExpired, AnswersFit
<1>4. ClaimKept'
  BY DEF TypeOK, ClaimKept, isExpired, AnswersFit
<1>5. QED
  BY <1>1, <1>2, <1>3, <1>4

LEMMA FailInv ==
  ASSUME IInv, NEW r \in Requests, InsertFails(r) \/ Stop(r)
  PROVE  IInv'
<1> USE DEF IInv, InsertFails, Stop, Goto, Reply
<1>1. TypeOK'
  BY DEF TypeOK, Steps
<1>2. Unclaimed' /\ AnswersFit'
  BY DEF TypeOK, Steps, Unclaimed, AnswersFit
<1>3. PurgesExpired' /\ StoredIsGiven'
  BY DEF TypeOK, Steps, PurgesExpired, StoredIsGiven, isExpired, Unclaimed
<1>4. ClaimKept'
  BY DEF TypeOK, ClaimKept, isExpired
<1>5. QED
  BY <1>1, <1>2, <1>3, <1>4

LEMMA CleanupInv == IInv /\ cleanupExpiredKeys => IInv'
<1> SUFFICES ASSUME IInv, cleanupExpiredKeys PROVE IInv'
  OBVIOUS
<1> USE DEF IInv, cleanupExpiredKeys, NoRow
<1>1. TypeOK'
  BY DEF TypeOK
<1>2. Unclaimed' /\ AnswersFit' /\ PurgesExpired' /\ StoredIsGiven'
  BY DEF TypeOK, Unclaimed, AnswersFit, PurgesExpired, StoredIsGiven, isExpired
<1>3. ClaimKept'
  BY DEF TypeOK, ClaimKept, isExpired
<1>4. QED
  BY <1>1, <1>2, <1>3

LEMMA TickInv == IInv /\ Tick => IInv'
<1> SUFFICES ASSUME IInv, Tick PROVE IInv'
  OBVIOUS
<1> USE DEF IInv, Tick, isExpired
<1>1. TypeOK'
  BY DEF TypeOK
<1>2. Unclaimed' /\ AnswersFit' /\ PurgesExpired' /\ StoredIsGiven'
  BY DEF TypeOK, Unclaimed, AnswersFit, PurgesExpired, StoredIsGiven
<1>3. ClaimKept'
  BY DEF TypeOK, ClaimKept
<1>4. QED
  BY <1>1, <1>2, <1>3

LEMMA InvNext == IInv /\ [Next]_vars => IInv'
<1> SUFFICES ASSUME IInv, [Next]_vars PROVE IInv'
  OBVIOUS
<1>1. ASSUME NEW r \in Requests, Step(r) PROVE IInv'
  BY <1>1, InsertInv, FindInv, PurgeInv, HandleInv, EndInv, FailInv DEF Step
<1>2. CASE UNCHANGED vars
  BY <1>2 DEF vars, IInv, TypeOK, Unclaimed, AnswersFit, PurgesExpired, StoredIsGiven,
              ClaimKept, isExpired
<1>3. QED
  BY <1>1, <1>2, CleanupInv, TickInv DEF Next

LEMMA InvHolds == Spec => []IInv
BY InvInit, InvNext, PTL DEF Spec

-----------------------------------------------------------------------------
(* The theorems. *)

\* The variables keep their types, and only a request whose insert succeeded
\* ever runs its handler (acquire and the interceptors).
THEOREM TypeCorrect == Spec => []TypeOK
<1>1. IInv => TypeOK
  BY DEF IInv
<1>2. QED
  BY <1>1, InvHolds, PTL

\* However inserts, purges, releases, clean-ups, crashes and the passing of
\* time interleave, the record of a request that runs its handler or answered
\* with success stays in the table until it expires (acquire, release and
\* complete address records by id).
THEOREM ClaimIsKept == Spec => []ClaimKept
<1>1. IInv => ClaimKept
  BY DEF IInv
<1>2. QED
  BY <1>1, InvHolds, PTL

-----------------------------------------------------------------------------
(* Refinement of IdempotencyCell, one kind of step at a time. *)

LEMMA CellInit == Init => Cell!Init
BY DEF Init, Cell!Init, NoRow

\* The row of the key as the cell sees it.
LEMMA RowIsFree ==
  ASSUME IInv
  PROVE  row = NoRow <=> row.id = NoRequest
BY DEF IInv, StoredIsGiven, NoRow

LEMMA CellUnchanged ==
  ASSUME UNCHANGED <<row, age, claimed, answer>>
  PROVE  UNCHANGED Cell!vars
BY DEF Cell!vars, Cell!cell, isExpired

LEMMA InsertClaims ==
  ASSUME IInv, NEW r \in Requests, Insert(r)
  PROVE  Cell!Claim(r) \/ UNCHANGED Cell!vars
<1>1. CASE row = NoRow
  <2>1. r \notin claimed /\ answer[r] = "none" /\ age[r] = 0
    BY DEF IInv, Unclaimed, Insert
  <2>2. row'.id = r /\ row'.in_progress /\ row' # NoRow
    BY <1>1 DEF Insert, NoRow
  <2>3. ~isExpired(row.id)'
    BY <2>1, <2>2 DEF Insert, isExpired
  <2>4. row.id = NoRequest
    BY <1>1 DEF NoRow
  <2>5. QED
    BY <1>1, <2>1, <2>2, <2>3, <2>4 DEF Insert, Cell!Claim
<1>2. CASE row # NoRow
  BY <1>2, CellUnchanged DEF Insert
<1>3. QED
  BY <1>1, <1>2

LEMMA FindAnswers ==
  ASSUME IInv, NEW r \in Requests, Find(r)
  PROVE  Cell!Replay(r) \/ Cell!Refuse(r) \/ UNCHANGED Cell!vars
<1>1. r \notin claimed /\ answer[r] = "none"
  BY DEF IInv, Unclaimed, Find
<1>2. UNCHANGED Cell!cell /\ claimed' = claimed
  BY DEF Find, Cell!cell, isExpired
<1>3. CASE row # NoRow /\ isExpired(row.id)
  BY <1>3, CellUnchanged DEF Find
<1>4. CASE /\ ~(row # NoRow /\ isExpired(row.id))
           /\ row = NoRow \/ Body[row.id] # Body[r] \/ row.in_progress
  BY <1>1, <1>2, <1>4 DEF Find, Reply, Cell!Refuse, Cell!Answer
<1>5. CASE /\ ~(row # NoRow /\ isExpired(row.id))
           /\ ~(row = NoRow \/ Body[row.id] # Body[r] \/ row.in_progress)
  <2>1. row.id # NoRequest /\ row # NoRow /\ ~row.in_progress /\ ~isExpired(row.id)
    BY <1>5, RowIsFree
  <2>2. Body[r] = Body[row.id]
    BY <1>5
  <2>3. answer' = [answer EXCEPT ![r] = row.id]
    BY <1>5 DEF Find, Reply
  <2>4. QED
    BY <1>1, <1>2, <2>1, <2>2, <2>3 DEF Cell!Replay, Cell!Answer
<1>6. QED
  BY <1>3, <1>4, <1>5

LEMMA PurgeFrees ==
  ASSUME IInv, NEW r \in Requests, Purge(r)
  PROVE  Cell!Free \/ UNCHANGED Cell!vars
<1>1. found[r] \in Requests /\ isExpired(found[r])
  BY DEF IInv, PurgesExpired, Purge
<1>2. CASE row.id = found[r]
  BY <1>1, <1>2, RowIsFree DEF Purge, DeleteById, Cell!Free, NoRow
<1>3. CASE row.id # found[r]
  BY <1>3, CellUnchanged DEF Purge, DeleteById
<1>4. QED
  BY <1>2, <1>3

LEMMA HandleFinishes ==
  ASSUME IInv, NEW r \in Requests, Handle(r)
  PROVE  Cell!Finish(r)
<1>1. r \in claimed /\ answer[r] = "none"
  BY DEF IInv, TypeOK, AnswersFit, Handle
<1>2. UNCHANGED Cell!cell /\ claimed' = claimed
  BY DEF Handle, Cell!cell, isExpired
<1>3. QED
  BY <1>1, <1>2 DEF Handle, Reply, Cell!Finish, Cell!Answer

LEMMA CompleteStores ==
  ASSUME IInv, NEW r \in Requests, Complete(r)
  PROVE  Cell!Store(r) \/ UNCHANGED Cell!vars
<1>1. answer[r] = r
  BY DEF IInv, AnswersFit, Complete
<1>2. CASE row.id = r
  <2>1. row'.id = r /\ ~row'.in_progress
    BY <1>2 DEF IInv, TypeOK, Complete
  <2>2. row # NoRow /\ row' # NoRow
    BY <1>2, <2>1 DEF NoRow
  <2>3. QED
    BY <1>1, <1>2, <2>1, <2>2 DEF Complete, Cell!Store, isExpired
<1>3. CASE row.id # r
  BY <1>3, CellUnchanged DEF Complete
<1>4. QED
  BY <1>2, <1>3

LEMMA ReleaseFrees ==
  ASSUME IInv, NEW r \in Requests, Release(r)
  PROVE  Cell!Free \/ UNCHANGED Cell!vars
<1>1. answer[r] = "failed"
  BY DEF IInv, AnswersFit, Release
<1>2. CASE row.id = r
  BY <1>1, <1>2 DEF Release, DeleteById, Cell!Free, NoRow
<1>3. CASE row.id # r
  BY <1>3, CellUnchanged DEF Release, DeleteById
<1>4. QED
  BY <1>2, <1>3

LEMMA FailureRefuses ==
  ASSUME IInv, NEW r \in Requests, InsertFails(r) \/ Stop(r)
  PROVE  Cell!Refuse(r) \/ UNCHANGED Cell!vars
<1>1. CASE InsertFails(r)
  <2>1. r \notin claimed /\ answer[r] = "none"
    BY <1>1 DEF IInv, Unclaimed, InsertFails
  <2>2. UNCHANGED Cell!cell
    BY <1>1 DEF InsertFails, Cell!cell, isExpired
  <2>3. QED
    BY <1>1, <2>1, <2>2 DEF InsertFails, Reply, Cell!Refuse, Cell!Answer
<1>2. CASE Stop(r)
  BY <1>2, CellUnchanged DEF Stop
<1>3. QED
  BY <1>1, <1>2

LEMMA CleanupFrees == IInv /\ cleanupExpiredKeys => Cell!Free
<1> SUFFICES ASSUME IInv, cleanupExpiredKeys PROVE Cell!Free
  OBVIOUS
<1>1. row.id # NoRequest
  BY RowIsFree DEF cleanupExpiredKeys
<1>2. QED
  BY <1>1 DEF cleanupExpiredKeys, Cell!Free, NoRow

\* Time either leaves the key as it is or makes it lapse.
LEMMA TickLapses == IInv /\ Tick => Cell!Lapse \/ UNCHANGED Cell!vars
<1> SUFFICES ASSUME IInv, Tick PROVE Cell!Lapse \/ UNCHANGED Cell!vars
  OBVIOUS
<1> DEFINE lapsed == row # NoRow /\ isExpired(row.id)
<1>1. UNCHANGED <<row, claimed, answer>>
  BY DEF Tick
<1>2. lapsed => lapsed'
  BY <1>1, RowIsFree DEF IInv, TypeOK, Tick, isExpired
<1>3. CASE lapsed' /\ ~lapsed
  <2>1. row.id # NoRequest
    BY <1>1, <1>3, RowIsFree
  <2>2. QED
    BY <1>1, <1>3, <2>1 DEF Cell!Lapse
<1>4. CASE lapsed' <=> lapsed
  BY <1>1, <1>4 DEF Cell!vars, Cell!cell
<1>5. QED
  BY <1>2, <1>3, <1>4

LEMMA CellNext == IInv /\ [Next]_vars => [Cell!Next]_(Cell!vars)
<1> SUFFICES ASSUME IInv, [Next]_vars PROVE Cell!Next \/ UNCHANGED Cell!vars
  OBVIOUS
<1>1. ASSUME NEW r \in Requests, Step(r)
      PROVE  Cell!Next \/ UNCHANGED Cell!vars
  BY <1>1, InsertClaims, FindAnswers, PurgeFrees, HandleFinishes, CompleteStores,
     ReleaseFrees, FailureRefuses DEF Step, Cell!Next
<1>2. CASE UNCHANGED vars
  BY <1>2, CellUnchanged DEF vars
<1>3. QED
  BY <1>1, <1>2, CleanupFrees, TickLapses DEF Next, Cell!Next

\* Statement by statement, with requests racing for the key, crashing, purging
\* and being cleaned up, the service does what one key promises: it is claimed
\* when free, freed only by failure or age, and its stored answer is replayed
\* unchanged to the same body.
THEOREM Refinement == Spec => ImplementsCell
<1>1. Spec => []IInv
  BY InvHolds
<1>2. QED
  BY <1>1, CellInit, CellNext, PTL DEF Spec, ImplementsCell, Cell!Spec
=============================================================================
