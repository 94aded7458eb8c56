----------------------- MODULE MarketSettlementProofs -----------------------
(***************************************************************************)
(* Theorems about MarketSettlement, for any number of instances, sweeps,   *)
(* requests and outcomes and any limits.                                   *)
(***************************************************************************)
EXTENDS MarketSettlement, SequenceTheorems, TLAPS

USE HostAssumption, NamesAssumption, LimitsAssumption, OperationsAssumption

-----------------------------------------------------------------------------
(* Types of the helpers. *)

\* TypeOK's last conjunct: a sweep past its claim has an attempt row.
AttemptsExist ==
  \A w \in Sweeps :
    sweep[w].pc \in {"calling", "failed", "finalizing"} =>
      sweep[w].attempt \in DOMAIN attempts

LEMMA NewRowType == NewRow \in Row
BY DEF NewRow, Row, States

LEMMA IdleType == Idle \in Sweep /\ Idle.pc = "idle"
BY DEF Idle, Sweep, States

LEMMA DoneType == Done \in Request /\ Done.pc = "done"
BY NewRowType DEF Done, Request

LEMMA NotQueuedType == NotQueued \in RetryInfo
BY DEF NotQueued, RetryInfo

LEMMA NextRetryType == ASSUME NEW n \in Nat PROVE NextRetry(n) \in Int
<1>1. 2 ^ n \in Int
  BY SMT
<1>2. QED
  BY <1>1 DEF NextRetry

LEMMA AgedRow ==
  ASSUME NEW mk \in Row
  PROVE  /\ Aged(mk) \in Row
         /\ Aged(mk).settlement_state = mk.settlement_state
         /\ Aged(mk).proposed_outcome = mk.proposed_outcome
         /\ Aged(mk).settlement_attempt_count = mk.settlement_attempt_count
         /\ Aged(mk).is_resolved = mk.is_resolved
         /\ Aged(mk).resolved_outcome = mk.resolved_outcome
BY DEF Aged, Row

\* A sweep that goes back to idle or to another sweep's place.
LEMMA SweepUpdate ==
  ASSUME TypeOK, NEW w \in Sweeps, NEW s \in Sweep,
         sweep' = [sweep EXCEPT ![w] = s]
  PROVE  /\ sweep' \in [Sweeps -> Sweep]
         /\ sweep'[w] = s
         /\ \A v \in Sweeps \ {w} : sweep'[v] = sweep[v]
BY DEF TypeOK

LEMMA UnsettledType ==
  ASSUME TypeOK, NEW w \in Sweeps, Unsettled(w)
  PROVE  /\ sweep' = [sweep EXCEPT ![w] = Idle]
         /\ queue' \in [Instances -> RetryInfo]
<1> DEFINE i == Host[w]
           n == queue[i].attempts + 1
           retry == sweep[w].origin # "tick" /\ queue[i].queued
<1>1. i \in Instances /\ queue \in [Instances -> RetryInfo]
  BY DEF TypeOK
<1>2. queue[i] \in RetryInfo
  BY <1>1
<1>3. n \in Nat
  BY <1>2 DEF RetryInfo
<1>4. NextRetry(n) \in Int
  BY <1>3, NextRetryType
<1>5. [queued |-> TRUE, attempts |-> n, wait |-> NextRetry(n)] \in RetryInfo
  BY <1>3, <1>4 DEF RetryInfo
<1>6. /\ sweep' = [sweep EXCEPT ![w] = Idle]
      /\ queue' = IF retry
                  THEN [queue EXCEPT ![i] =
                          [queued |-> TRUE, attempts |-> n, wait |-> NextRetry(n)]]
                  ELSE queue
  BY DEF Unsettled
<1> HIDE DEF i, n, retry
<1>7. QED
  BY <1>1, <1>5, <1>6

-----------------------------------------------------------------------------
(* What one step does to the types. *)

\* The sweep w changes to s, and if s points to an attempt row it exists.
LEMMA SweepStep ==
  ASSUME TypeOK, NEW w \in Sweeps, NEW s \in Sweep,
         sweep' = [sweep EXCEPT ![w] = s],
         DOMAIN attempts \subseteq DOMAIN attempts',
         s.pc \in {"calling", "failed", "finalizing"} => s.attempt \in DOMAIN attempts'
  PROVE  sweep' \in [Sweeps -> Sweep] /\ AttemptsExist'
BY DEF TypeOK, AttemptsExist

LEMMA SelectedType ==
  ASSUME NEW o \in {"tick", "retry", "manual"}
  PROVE  /\ [Idle EXCEPT !.pc = "selected", !.origin = o] \in Sweep
         /\ [Idle EXCEPT !.pc = "selected", !.origin = o].pc = "selected"
         /\ [Idle EXCEPT !.pc = "selected"] \in Sweep
         /\ [Idle EXCEPT !.pc = "selected"].pc = "selected"
<1>1. Idle \in Sweep
  BY IdleType
<1> DEFINE s == Idle
<1> HIDE DEF s
<1>2. s \in Sweep
  BY <1>1 DEF s
<1>3. /\ [s EXCEPT !.pc = "selected", !.origin = o] \in Sweep
      /\ [s EXCEPT !.pc = "selected", !.origin = o].pc = "selected"
  BY <1>2 DEF Sweep
<1>4. /\ [s EXCEPT !.pc = "selected"] \in Sweep
      /\ [s EXCEPT !.pc = "selected"].pc = "selected"
  BY <1>2 DEF Sweep
<1>5. QED
  BY <1>3, <1>4 DEF s

LEMMA ClaimedType ==
  ASSUME NEW s \in Sweep, NEW n \in Nat
  PROVE  /\ Claimed(s, n) \in Sweep
         /\ Claimed(s, n).pc = "calling"
         /\ Claimed(s, n).attempt = n
         /\ Claimed(s, n).outcome = s.outcome
BY DEF Sweep, Claimed

LEMMA SweepPc ==
  ASSUME NEW s \in Sweep, NEW p \in {"failed", "finalizing", "announcing"}
  PROVE  /\ At(s, p) \in Sweep
         /\ At(s, p).pc = p
         /\ At(s, p).attempt = s.attempt
         /\ At(s, p).outcome = s.outcome
BY DEF Sweep, At

\* Recording how an attempt ended.
LEMMA AttemptStatus ==
  ASSUME TypeOK, NEW a \in DOMAIN attempts, NEW st \in {"resolved", "failed"},
         attempts' = [attempts EXCEPT ![a].status = st]
  PROVE  /\ attempts' \in Seq(Attempt)
         /\ DOMAIN attempts' = DOMAIN attempts
         /\ Len(attempts') = Len(attempts)
<1>1. attempts \in Seq(Attempt) /\ attempts[a] \in Attempt
  BY ElementOfSeq DEF TypeOK
<1>2. [attempts[a] EXCEPT !.status = st] \in Attempt
  BY <1>1 DEF Attempt
<1>3. attempts' = [attempts EXCEPT ![a] = [attempts[a] EXCEPT !.status = st]]
  OBVIOUS
<1> DEFINE e == [attempts[a] EXCEPT !.status = st]
<1> HIDE DEF e
<1>4. attempts' = [attempts EXCEPT ![a] = e] /\ e \in Attempt
  BY <1>2, <1>3 DEF e
<1>5. a \in 1..Len(attempts)
  BY <1>1, LenProperties
<1>6. QED
  BY <1>1, <1>4, <1>5, ExceptSeq

\* Attempts only get older.
LEMMA AttemptsAge ==
  ASSUME TypeOK,
         attempts' = [a \in DOMAIN attempts |->
           [attempts[a] EXCEPT !.age = IF @ < STALE THEN @ + 1 ELSE @]]
  PROVE  /\ attempts' \in Seq(Attempt)
         /\ DOMAIN attempts' = DOMAIN attempts
         /\ Len(attempts') = Len(attempts)
<1>1. attempts \in Seq(Attempt) /\ Len(attempts) \in Nat
      /\ DOMAIN attempts = 1..Len(attempts)
  BY LenProperties DEF TypeOK
<1>2. ASSUME NEW a \in 1..Len(attempts)
      PROVE  [attempts[a] EXCEPT !.age = IF @ < STALE THEN @ + 1 ELSE @] \in Attempt
  <2>1. attempts[a] \in Attempt
    BY <1>1, ElementOfSeq
  <2>2. QED
    BY <2>1 DEF Attempt
<1>3. attempts' \in [1..Len(attempts) -> Attempt]
  BY <1>1, <1>2
<1>4. attempts' \in Seq(Attempt)
  BY <1>1, <1>3, IsASeq
<1>5. Len(attempts') \in Nat /\ 1..Len(attempts') = 1..Len(attempts)
  BY <1>3, <1>4, LenProperties
<1>6. QED
  BY <1>1, <1>3, <1>4, <1>5
-----------------------------------------------------------------------------
(* TypeOK is inductive. *)

LEMMA TypeInit == Init => TypeOK
<1> SUFFICES ASSUME Init PROVE TypeOK
  OBVIOUS
<1>1. row \in Row /\ queue \in [Instances -> RetryInfo] /\ sweep \in [Sweeps -> Sweep]
  BY NewRowType, NotQueuedType, IdleType DEF Init
<1>2. request \in [Requests -> Request]
  BY NewRowType DEF Init, Done, Request
<1>3. \A w \in Sweeps : sweep[w].pc = "idle"
  BY IdleType DEF Init
<1>4. attempts \in Seq(Attempt)
  BY EmptySeq DEF Init
<1>5. \A w \in Sweeps :
        sweep[w].pc \in {"calling", "failed", "finalizing"} =>
          sweep[w].attempt \in DOMAIN attempts
  BY <1>3
<1>6. /\ failures \in 0..MaxFailures /\ crashes \in 0..MaxCrashes
      /\ submitted \subseteq Outcomes \cup {NoOutcome} /\ calls \in Nat
      /\ lock \in Sweeps \cup {NoSweep}
  BY DEF Init
<1>7. lost \in BOOLEAN
  BY DEF Init
<1>8. QED
  BY <1>1, <1>2, <1>4, <1>5, <1>6, <1>7 DEF TypeOK

\* Steps that choose, refuse or drop the market: only the sweep, the queue and
\* the lock change.
Chooses(w) ==
  \/ Select(w) \/ Retry(w) \/ ManualRetry(w) \/ LockBusy(w) \/ ClaimRefused(w)
  \/ ClaimFails(w) \/ Enqueue(w) \/ RecordFails(w) \/ FinalizeFails(w) \/ Announce(w)

LEMMA ChooseEffect ==
  ASSUME TypeOK, NEW w \in Sweeps, Chooses(w)
  PROVE  /\ UNCHANGED <<row, attempts, request, crashes, submitted, calls, lost>>
         /\ \E s \in Sweep : /\ sweep' = [sweep EXCEPT ![w] = s]
                             /\ s.pc \in {"idle", "selected"}
         /\ lock' = lock \/ (sweep[w].pc = "claiming" /\ lock' = NoSweep)
<1>1. UNCHANGED <<row, attempts, request, crashes, submitted, calls, lost>>
  BY DEF Chooses, Select, Retry, ManualRetry, LockBusy, ClaimRefused, ClaimFails,
         Enqueue, RecordFails, FinalizeFails, Announce, history
<1>2. lock' = lock \/ (sweep[w].pc = "claiming" /\ lock' = NoSweep)
  BY DEF Chooses, Select, Retry, ManualRetry, LockBusy, ClaimRefused, ClaimFails,
         Enqueue, RecordFails, FinalizeFails, Announce
<1>3. \E s \in Sweep : /\ sweep' = [sweep EXCEPT ![w] = s]
                       /\ s.pc \in {"idle", "selected"}
  <2>1. CASE Select(w)
    BY <2>1, SelectedType DEF Select
  <2>2. CASE Retry(w)
    BY <2>2, SelectedType DEF Retry
  <2>3. CASE ManualRetry(w)
    BY <2>3, SelectedType DEF ManualRetry
  <2>4. CASE LockBusy(w) \/ ClaimRefused(w) \/ ClaimFails(w)
    BY <2>4, IdleType, UnsettledType DEF LockBusy, ClaimRefused, ClaimFails
  <2>5. CASE Enqueue(w)
    BY <2>5, IdleType, UnsettledType DEF Enqueue
  <2>6. CASE RecordFails(w) \/ FinalizeFails(w) \/ Announce(w)
    BY <2>6, IdleType DEF RecordFails, FinalizeFails, Announce
  <2>7. QED
    BY <2>1, <2>2, <2>3, <2>4, <2>5, <2>6 DEF Chooses
<1>4. QED
  BY <1>1, <1>2, <1>3

LEMMA TypeChoose ==
  ASSUME TypeOK, NEW w \in Sweeps, Chooses(w)
  PROVE  TypeOK'
<1>1. UNCHANGED <<row, attempts, request, crashes, submitted, calls, lost>>
  BY ChooseEffect
<1>2. failures' \in 0..MaxFailures
  BY DEF TypeOK, Chooses, Select, Retry, ManualRetry, LockBusy, ClaimRefused,
         ClaimFails, Enqueue, RecordFails, FinalizeFails, Announce
<1>3. lock' \in Sweeps \cup {NoSweep}
  BY ChooseEffect DEF TypeOK
<1>4. sweep' \in [Sweeps -> Sweep] /\ AttemptsExist'
  BY <1>1, ChooseEffect, SweepStep
<1>5. queue' \in [Instances -> RetryInfo]
  <2>1. queue \in [Instances -> RetryInfo] /\ Host[w] \in Instances
    BY DEF TypeOK
  <2>2. CASE LockBusy(w) \/ ClaimRefused(w) \/ ClaimFails(w)
    BY <2>2, UnsettledType DEF LockBusy, ClaimRefused, ClaimFails
  <2>3. CASE Enqueue(w)
    <3>1. [queued |-> TRUE, attempts |-> 0, wait |-> NextRetry(0)] \in RetryInfo
      BY NextRetryType DEF RetryInfo
    <3>2. QED
      BY <2>1, <2>3, <3>1, UnsettledType DEF Enqueue
  <2>4. CASE Announce(w)
    BY <2>1, <2>4, NotQueuedType DEF Announce
  <2>5. QED
    BY <2>1, <2>2, <2>3, <2>4 DEF Chooses, Select, Retry, ManualRetry, RecordFails, FinalizeFails
<1>6. QED
  BY <1>1, <1>2, <1>3, <1>4, <1>5 DEF TypeOK, AttemptsExist

LEMMA TypeClaimRead ==
  ASSUME TypeOK, NEW w \in Sweeps, ClaimRead(w)
  PROVE  TypeOK'
<1> DEFINE s == [pc |-> "claiming", origin |-> sweep[w].origin,
                 state |-> row.settlement_state, count |-> row.settlement_attempt_count,
                 outcome |-> row.proposed_outcome, attempt |-> 0]
<1>1. s \in Sweep /\ s.pc = "claiming"
  BY DEF TypeOK, Row, Sweep
<1>2. sweep' = [sweep EXCEPT ![w] = s] /\ lock' = w
      /\ UNCHANGED <<row, attempts, queue, request, failures, crashes, history>>
  BY DEF ClaimRead
<1> HIDE DEF s
<1>3. sweep' \in [Sweeps -> Sweep] /\ AttemptsExist'
  BY <1>1, <1>2, SweepStep
<1>4. QED
  BY <1>2, <1>3 DEF TypeOK, AttemptsExist, history

LEMMA TypeClaimCommit ==
  ASSUME TypeOK, NEW w \in Sweeps, ClaimCommit(w)
  PROVE  TypeOK'
<1> DEFINE a == [status |-> "resolving", age |-> 0]
           s == Claimed(sweep[w], Len(attempts) + 1)
           st == IF sweep[w].state # "settling" THEN "settling" ELSE row.settlement_state
<1>1. a \in Attempt /\ attempts \in Seq(Attempt) /\ Len(attempts) \in Nat
  BY LenProperties DEF TypeOK, Attempt
<1>2. s \in Sweep /\ s.attempt = Len(attempts) + 1
  <2>1. sweep[w] \in Sweep
    BY DEF TypeOK
  <2>2. Len(attempts) + 1 \in Nat
    BY <1>1
  <2>3. QED
    BY <2>1, <2>2, ClaimedType
<1>3. sweep[w].count \in Nat /\ st \in States
  BY DEF TypeOK, Sweep, Row, States
<1>4. row \in Row
  BY DEF TypeOK
<1>5. /\ sweep' = [sweep EXCEPT ![w] = s] /\ lock' = NoSweep
      /\ attempts' = Append(attempts, a)
      /\ row' = [row EXCEPT !.settlement_state = st,
                            !.settlement_attempt_count = sweep[w].count + 1]
      /\ UNCHANGED <<queue, request, failures, crashes, history>>
  BY DEF ClaimCommit
<1> HIDE DEF s, a, st
<1>6. attempts' \in Seq(Attempt) /\ DOMAIN attempts \subseteq DOMAIN attempts'
      /\ Len(attempts) + 1 \in DOMAIN attempts'
  BY <1>1, <1>5, AppendProperties, LenProperties
<1>7. row' \in Row
  <2> DEFINE n == sweep[w].count + 1
  <2>1. n \in Nat
    BY <1>3
  <2>2. row' = [row EXCEPT !.settlement_state = st, !.settlement_attempt_count = n]
    BY <1>5
  <2> HIDE DEF n
  <2>3. QED
    BY <1>3, <1>4, <2>1, <2>2 DEF Row
<1>8. sweep' \in [Sweeps -> Sweep] /\ AttemptsExist'
  BY <1>2, <1>5, <1>6, SweepStep
<1>9. QED
  BY <1>5, <1>6, <1>7, <1>8 DEF TypeOK, AttemptsExist, history

LEMMA TypeCall ==
  ASSUME TypeOK, NEW w \in Sweeps, CallSucceeds(w) \/ CallFails(w) \/ Finalize(w)
  PROVE  TypeOK'
<1>1. sweep[w] \in Sweep /\ sweep[w].outcome \in Outcomes \cup {NoOutcome}
  BY DEF TypeOK, Sweep
<1>2. sweep[w].attempt \in DOMAIN attempts
  BY DEF TypeOK, CallSucceeds, CallFails, Finalize
<1>3. \E p \in {"failed", "finalizing", "announcing"} :
        sweep' = [sweep EXCEPT ![w] = At(sweep[w], p)]
  BY DEF CallSucceeds, CallFails, Finalize
<1>4. attempts' \in Seq(Attempt) /\ DOMAIN attempts' = DOMAIN attempts
  <2>1. CASE CallSucceeds(w)
    BY <2>1 DEF CallSucceeds, TypeOK
  <2>2. CASE CallFails(w)
    BY <1>2, <2>2, AttemptStatus DEF CallFails
  <2>3. CASE Finalize(w)
    BY <1>2, <2>3, AttemptStatus DEF Finalize
  <2>4. QED
    BY <2>1, <2>2, <2>3
<1>5. sweep' \in [Sweeps -> Sweep] /\ AttemptsExist'
  <2>1. PICK p \in {"failed", "finalizing", "announcing"} :
          sweep' = [sweep EXCEPT ![w] = At(sweep[w], p)]
    BY <1>3
  <2> DEFINE s == At(sweep[w], p)
  <2>2. s \in Sweep /\ s.attempt = sweep[w].attempt
    <3>1. sweep[w] \in Sweep /\ p \in {"failed", "finalizing", "announcing"}
      BY <1>1, <2>1
    <3>2. QED
      BY <3>1, SweepPc
  <2>3. sweep' = [sweep EXCEPT ![w] = s]
    BY <2>1
  <2> HIDE DEF s
  <2>4. QED
    BY <1>2, <1>4, <2>2, <2>3, SweepStep
<1>6. row' \in Row
  <2>1. CASE Finalize(w)
    <3>1. row \in Row
      BY DEF TypeOK
    <3>2. row' = [row EXCEPT !.settlement_state = "settled", !.is_resolved = TRUE,
                             !.resolved_outcome = sweep[w].outcome]
      BY <2>1 DEF Finalize
    <3>3. QED
      BY <1>1, <3>1, <3>2 DEF Row, States
  <2>2. QED
    BY <2>1 DEF CallSucceeds, CallFails, TypeOK
<1>7. /\ submitted' \subseteq Outcomes \cup {NoOutcome} /\ calls' \in Nat
      /\ failures' \in 0..MaxFailures
  BY <1>1 DEF CallSucceeds, CallFails, Finalize, history, TypeOK
<1>8. UNCHANGED <<lock, queue, request, crashes, lost>>
  BY DEF CallSucceeds, CallFails, Finalize, history
<1>9. QED
  BY <1>4, <1>5, <1>6, <1>7, <1>8 DEF TypeOK, AttemptsExist

LEMMA TypeCrash ==
  ASSUME TypeOK, NEW i \in Instances, Crash(i)
  PROVE  TypeOK'
<1>1. sweep' \in [Sweeps -> Sweep] /\ AttemptsExist'
  BY IdleType DEF TypeOK, Crash, AttemptsExist
<1>2. queue' \in [Instances -> RetryInfo]
  BY NotQueuedType DEF TypeOK, Crash
<1>3. crashes' \in 0..MaxCrashes /\ lock' \in Sweeps \cup {NoSweep}
      /\ UNCHANGED <<row, attempts, request, failures, history>>
  BY DEF TypeOK, Crash
<1>4. QED
  BY <1>1, <1>2, <1>3 DEF TypeOK, AttemptsExist, history
-----------------------------------------------------------------------------
(* The copies requests make of the row, and the passing of time. *)

\* A changed copy is a row with the count of the original and, unless it is
\* made resolved, with the original's resolution.
LEMMA CopyType ==
  ASSUME NEW mk \in Row, NEW o \in Outcomes
  PROVE  /\ Proposed(mk, o) \in Row
         /\ Resolved(mk, o) \in Row
         /\ Adjudicated(mk, o) \in Row
<1>1. Proposed(mk, o) \in Row
  <2>1. GRACE \in -1..GRACE
    OBVIOUS
  <2>2. QED
    BY <2>1 DEF Proposed, Row, States
<1>2. Resolved(mk, o) \in Row
  BY DEF Resolved, Row, States
<1>3. Adjudicated(mk, o) \in Row
  BY DEF Adjudicated, Row, States
<1>4. QED
  BY <1>1, <1>2, <1>3

LEMMA CopyFields ==
  ASSUME NEW mk \in Row, NEW o \in Outcomes
  PROVE  /\ Proposed(mk, o).settlement_state = "proposed"
         /\ Proposed(mk, o).is_resolved = mk.is_resolved
         /\ Proposed(mk, o).resolved_outcome = mk.resolved_outcome
         /\ Proposed(mk, o).settlement_attempt_count = mk.settlement_attempt_count
         /\ Resolved(mk, o).is_resolved
         /\ Resolved(mk, o).resolved_outcome = o
         /\ Resolved(mk, o).settlement_attempt_count = mk.settlement_attempt_count
         /\ Adjudicated(mk, o).is_resolved
         /\ Adjudicated(mk, o).resolved_outcome = o
         /\ Adjudicated(mk, o).settlement_attempt_count = mk.settlement_attempt_count
BY DEF Proposed, Resolved, Adjudicated, Row

LEMMA ChallengedFields ==
  ASSUME NEW mk \in Row
  PROVE  /\ Challenged(mk) \in Row
         /\ Challenged(mk).settlement_state = "challenged"
         /\ Challenged(mk).is_resolved = mk.is_resolved
         /\ Challenged(mk).resolved_outcome = mk.resolved_outcome
         /\ Challenged(mk).settlement_attempt_count = mk.settlement_attempt_count
BY DEF Challenged, Row, States

LEMMA RequestSaving ==
  ASSUME NEW q \in Request
  PROVE  /\ At(q, "saving") \in Request
         /\ At(q, "saving").pc = "saving"
         /\ At(q, "saving").read = q.read
         /\ At(q, "saving").copy = q.copy
BY DEF At, Request

LEMMA RequestAges ==
  ASSUME NEW q \in Request
  PROVE  /\ AgedRequest(q) \in Request
         /\ AgedRequest(q).pc = q.pc
         /\ AgedRequest(q).read = Aged(q.read)
         /\ AgedRequest(q).copy = Aged(q.copy)
<1> DEFINE x == Aged(q.read)
           y == Aged(q.copy)
<1>1. x \in Row /\ y \in Row
  BY AgedRow DEF Request
<1>2. AgedRequest(q) = [q EXCEPT !.read = x, !.copy = y]
  BY DEF AgedRequest
<1> HIDE DEF x, y
<1>3. /\ AgedRequest(q) \in Request /\ AgedRequest(q).pc = q.pc
      /\ AgedRequest(q).read = x /\ AgedRequest(q).copy = y
  BY <1>1, <1>2 DEF Request
<1>4. QED
  BY <1>3 DEF x, y

LEMMA TypeProceed ==
  ASSUME TypeOK, NEW r \in Requests, NEW op, NEW pc \in {"calling", "saving"},
         NEW copy \in Row, Proceed(r, op, pc, copy)
  PROVE  TypeOK'
<1> DEFINE q == [pc |-> pc, op |-> op, read |-> row, copy |-> copy]
<1>1. q \in Request
  BY DEF TypeOK, Proceed, Request
<1>2. request' = [request EXCEPT ![r] = q]
      /\ UNCHANGED <<row, attempts, lock, queue, sweep, failures, crashes, history>>
  BY DEF Proceed
<1> HIDE DEF q
<1>3. request' \in [Requests -> Request]
  BY <1>1, <1>2 DEF TypeOK
<1>4. QED
  BY <1>2, <1>3 DEF TypeOK, history

LEMMA TypeApi ==
  ASSUME TypeOK, NEW r \in Requests, Api(r)
  PROVE  TypeOK'
<1>1. row \in Row /\ request[r] \in Request /\ request \in [Requests -> Request]
  BY DEF TypeOK
<1>2. CASE \E o \in Outcomes : ProposeResolution(r, o)
  BY <1>1, <1>2, CopyType, TypeProceed DEF ProposeResolution
<1>3. CASE \E o \in Outcomes : ResolveChallenge(r, o)
  BY <1>1, <1>3, CopyType, TypeProceed DEF ResolveChallenge
<1>4. CASE \E o \in Outcomes : AdminResolveMarket(r, o)
  BY <1>1, <1>4, CopyType, TypeProceed DEF AdminResolveMarket
<1>5. CASE ChallengeResolution(r)
  <2>1. Challenged(row) \in Row
    BY <1>1, ChallengedFields
  <2>2. QED
    BY <1>5, <2>1, TypeProceed DEF ChallengeResolution
<1>6. CASE RequestCallSucceeds(r)
  <2>1. request' \in [Requests -> Request]
    BY <1>1, <1>6, RequestSaving DEF RequestCallSucceeds
  <2>2. request[r].copy.resolved_outcome \in Outcomes \cup {NoOutcome}
    BY <1>1 DEF Request, Row
  <2>3. QED
    BY <1>6, <2>1, <2>2 DEF RequestCallSucceeds, TypeOK
<1>7. CASE RequestFails(r)
  <2>1. request' \in [Requests -> Request]
    BY <1>1, <1>7, DoneType DEF RequestFails
  <2>2. QED
    BY <1>7, <2>1 DEF RequestFails, TypeOK, history
<1>8. CASE Save(r)
  <2>1. request' \in [Requests -> Request]
    BY <1>1, <1>8, DoneType DEF Save
  <2>2. row' \in Row
    BY <1>1, <1>8 DEF Save, Request
  <2>3. lost' \in BOOLEAN
    BY <1>8 DEF Save
  <2>4. UNCHANGED <<attempts, lock, queue, sweep, failures, crashes, submitted, calls>>
    BY <1>8 DEF Save
  <2>5. QED
    BY <2>1, <2>2, <2>3, <2>4 DEF TypeOK
<1>9. QED
  BY <1>2, <1>3, <1>4, <1>5, <1>6, <1>7, <1>8 DEF Api

LEMMA TypeTick == TypeOK /\ Tick => TypeOK'
<1> SUFFICES ASSUME TypeOK, Tick PROVE TypeOK'
  OBVIOUS
<1>1. row' \in Row
  BY AgedRow DEF TypeOK, Tick
<1>2. attempts' \in Seq(Attempt) /\ DOMAIN attempts' = DOMAIN attempts
  BY AttemptsAge DEF Tick
<1>3. queue' \in [Instances -> RetryInfo]
  <2>1. ASSUME NEW q \in RetryInfo
        PROVE  [q EXCEPT !.wait = IF @ > 0 THEN @ - 1 ELSE 0] \in RetryInfo
    BY DEF RetryInfo
  <2>2. queue \in [Instances -> RetryInfo]
    BY DEF TypeOK
  <2>3. \A i \in Instances :
          [queue[i] EXCEPT !.wait = IF @ > 0 THEN @ - 1 ELSE 0] \in RetryInfo
    BY <2>2 DEF RetryInfo
  <2>4. QED
    BY <2>3 DEF Tick
<1>4. request' \in [Requests -> Request]
  BY RequestAges DEF TypeOK, Tick
<1>5. UNCHANGED <<lock, sweep, failures, crashes, history>>
  BY DEF Tick
<1>6. QED
  BY <1>1, <1>2, <1>3, <1>4, <1>5 DEF TypeOK, history

LEMMA TypeStep == TypeOK /\ [Next]_vars => TypeOK'
<1> SUFFICES ASSUME TypeOK, [Next]_vars PROVE TypeOK'
  OBVIOUS
<1>1. ASSUME NEW w \in Sweeps, Scheduler(w) \/ Environment(w) PROVE TypeOK'
  BY <1>1, TypeChoose, TypeClaimRead, TypeClaimCommit, TypeCall
     DEF Scheduler, Environment, Chooses
<1>2. CASE UNCHANGED vars
  BY <1>2 DEF vars, TypeOK
<1>3. QED
  BY <1>1, <1>2, TypeCrash, TypeApi, TypeTick DEF Next

\* Type correctness: whatever sweeps, administrators, failures and crashes do,
\* every variable has its type and every sweep that calls the contract or
\* records a result points to a settlement_attempts row that exists.
THEOREM TypeCorrect == Spec => []TypeOK
BY TypeInit, TypeStep, PTL DEF Spec
-----------------------------------------------------------------------------
(* The row never runs ahead of the contract. *)

\* A row, or a copy of one, that reports nothing but submitted outcomes.
Sound(mk) ==
  /\ mk.settlement_state = "settled" => mk.is_resolved
  /\ mk.is_resolved => mk.resolved_outcome \in submitted \ {NoOutcome}

\* The copy a request will save is sound once its call was made; until then it
\* names the outcome the call submits.
CopiesSound ==
  \A r \in Requests :
    /\ request[r].pc = "saving" => Sound(request[r].copy)
    /\ request[r].pc = "calling" =>
         request[r].copy.is_resolved /\ request[r].copy.resolved_outcome \in Outcomes

\* A sweep claims with an outcome and finalizes with a submitted one.
SweepsSound ==
  \A w \in Sweeps :
    /\ sweep[w].pc \in {"claiming", "calling"} => sweep[w].outcome # NoOutcome
    /\ sweep[w].pc = "finalizing" => sweep[w].outcome \in submitted \ {NoOutcome}

OutcomeInv == ResolvedOnlyAfterCall /\ CopiesSound /\ SweepsSound

LEMMA OutcomeInit == Init => OutcomeInv
<1> SUFFICES ASSUME Init PROVE OutcomeInv
  OBVIOUS
<1>1. ResolvedOnlyAfterCall
  BY DEF Init, NewRow, ResolvedOnlyAfterCall
<1>2. CopiesSound
  BY DEF Init, Done, CopiesSound
<1>3. SweepsSound
  BY DEF Init, Idle, SweepsSound
<1>4. QED
  BY <1>1, <1>2, <1>3 DEF OutcomeInv

\* Steps of the scheduler.
LEMMA OutcomeSweep ==
  ASSUME TypeOK, OutcomeInv, NEW w \in Sweeps, Scheduler(w) \/ Environment(w)
  PROVE  OutcomeInv'
<1> USE DEF OutcomeInv
<1>1. sweep \in [Sweeps -> Sweep] /\ sweep[w] \in Sweep /\ row \in Row
  BY DEF TypeOK
<1>2. CASE Chooses(w)
  <2>1. UNCHANGED <<row, request, submitted>>
    BY <1>2, ChooseEffect
  <2>2. ResolvedOnlyAfterCall' /\ CopiesSound'
    BY <2>1 DEF ResolvedOnlyAfterCall, CopiesSound, Sound
  <2>3. SweepsSound'
    BY <1>1, <1>2, <2>1, ChooseEffect DEF SweepsSound
  <2>4. QED
    BY <2>2, <2>3
<1>3. CASE ClaimRead(w)
  <2>1. UNCHANGED <<row, request, submitted>>
    BY <1>3 DEF ClaimRead, history
  <2>2. ResolvedOnlyAfterCall' /\ CopiesSound'
    BY <2>1 DEF ResolvedOnlyAfterCall, CopiesSound, Sound
  <2>3. row.proposed_outcome # NoOutcome
    BY <1>3 DEF ClaimRead, Eligible
  <2>4. SweepsSound'
    BY <1>1, <1>3, <2>1, <2>3 DEF ClaimRead, SweepsSound
  <2>5. QED
    BY <2>2, <2>4
<1>4. CASE ClaimCommit(w)
  <2>1. UNCHANGED <<request, submitted>>
    BY <1>4 DEF ClaimCommit, history
  <2>2. /\ row'.settlement_state = "settled" => row.settlement_state = "settled"
        /\ row'.is_resolved = row.is_resolved
        /\ row'.resolved_outcome = row.resolved_outcome
    BY <1>1, <1>4 DEF ClaimCommit, Row
  <2>3. ResolvedOnlyAfterCall'
    BY <2>1, <2>2 DEF ResolvedOnlyAfterCall
  <2>4. CopiesSound'
    BY <2>1 DEF CopiesSound, Sound
  <2>5. SweepsSound'
    <3>1. Len(attempts) + 1 \in Nat
      BY LenProperties DEF TypeOK
    <3>2. /\ Claimed(sweep[w], Len(attempts) + 1).pc = "calling"
          /\ Claimed(sweep[w], Len(attempts) + 1).outcome = sweep[w].outcome
      BY <1>1, <3>1, ClaimedType
    <3>3. sweep' = [sweep EXCEPT ![w] = Claimed(sweep[w], Len(attempts) + 1)]
          /\ sweep[w].pc = "claiming"
      BY <1>4 DEF ClaimCommit
    <3>4. QED
      BY <1>1, <2>1, <3>2, <3>3 DEF SweepsSound
  <2>6. QED
    BY <2>3, <2>4, <2>5
<1>5. CASE CallSucceeds(w)
  <2>1. /\ submitted' = submitted \cup {sweep[w].outcome} /\ UNCHANGED <<row, request>>
        /\ sweep[w].pc = "calling" /\ sweep' = [sweep EXCEPT ![w] = At(sweep[w], "finalizing")]
    BY <1>5 DEF CallSucceeds
  <2>2. ResolvedOnlyAfterCall' /\ CopiesSound'
    BY <2>1 DEF ResolvedOnlyAfterCall, CopiesSound, Sound
  <2>3. At(sweep[w], "finalizing").pc = "finalizing"
        /\ At(sweep[w], "finalizing").outcome = sweep[w].outcome
    BY <1>1, SweepPc
  <2>4. SweepsSound'
    BY <1>1, <2>1, <2>3 DEF SweepsSound
  <2>5. QED
    BY <2>2, <2>4
<1>6. CASE CallFails(w)
  <2>1. /\ UNCHANGED <<row, request, submitted>>
        /\ sweep' = [sweep EXCEPT ![w] = At(sweep[w], "failed")]
    BY <1>6 DEF CallFails, history
  <2>2. ResolvedOnlyAfterCall' /\ CopiesSound'
    BY <2>1 DEF ResolvedOnlyAfterCall, CopiesSound, Sound
  <2>3. At(sweep[w], "failed").pc = "failed"
    BY <1>1, SweepPc
  <2>4. SweepsSound'
    BY <1>1, <2>1, <2>3 DEF SweepsSound
  <2>5. QED
    BY <2>2, <2>4
<1>7. CASE Finalize(w)
  <2>1. /\ UNCHANGED <<request, submitted>> /\ sweep[w].pc = "finalizing"
        /\ sweep' = [sweep EXCEPT ![w] = At(sweep[w], "announcing")]
    BY <1>7 DEF Finalize, history
  <2>2. row'.is_resolved /\ row'.resolved_outcome = sweep[w].outcome
    BY <1>1, <1>7 DEF Finalize, Row
  <2>3. ResolvedOnlyAfterCall'
    BY <2>1, <2>2 DEF ResolvedOnlyAfterCall, SweepsSound
  <2>4. CopiesSound'
    BY <2>1 DEF CopiesSound, Sound
  <2>5. At(sweep[w], "announcing").pc = "announcing"
    BY <1>1, SweepPc
  <2>6. SweepsSound'
    BY <1>1, <2>1, <2>5 DEF SweepsSound
  <2>7. QED
    BY <2>3, <2>4, <2>6
<1>8. QED
  BY <1>2, <1>3, <1>4, <1>5, <1>6, <1>7 DEF Scheduler, Environment, Chooses

LEMMA OutcomeCrash ==
  ASSUME TypeOK, OutcomeInv, NEW i \in Instances, Crash(i)
  PROVE  OutcomeInv'
<1>1. UNCHANGED <<row, request, submitted>>
  BY DEF Crash, history
<1>2. ResolvedOnlyAfterCall' /\ CopiesSound'
  BY <1>1 DEF OutcomeInv, ResolvedOnlyAfterCall, CopiesSound, Sound
<1>3. SweepsSound'
  BY <1>1, IdleType DEF OutcomeInv, SweepsSound, Crash
<1>4. QED
  BY <1>2, <1>3 DEF OutcomeInv

\* A request that proceeds with a copy as good as the invariant wants it.
LEMMA OutcomeProceed ==
  ASSUME TypeOK, OutcomeInv, NEW r \in Requests, NEW op, NEW pc, NEW copy,
         Proceed(r, op, pc, copy),
         pc = "saving" => Sound(copy),
         pc = "calling" => copy.is_resolved /\ copy.resolved_outcome \in Outcomes
  PROVE  OutcomeInv'
<1> DEFINE q == [pc |-> pc, op |-> op, read |-> row, copy |-> copy]
<1>1. request' = [request EXCEPT ![r] = q] /\ request \in [Requests -> Request]
      /\ UNCHANGED <<row, sweep, submitted>>
  BY DEF Proceed, TypeOK, history
<1>2. q.pc = pc /\ q.copy = copy
  OBVIOUS
<1> HIDE DEF q
<1>3. CopiesSound'
  BY <1>1, <1>2 DEF OutcomeInv, CopiesSound, Sound
<1>4. QED
  BY <1>1, <1>3 DEF OutcomeInv, ResolvedOnlyAfterCall, SweepsSound

LEMMA OutcomeApi ==
  ASSUME TypeOK, OutcomeInv, NEW r \in Requests, Api(r)
  PROVE  OutcomeInv'
<1>1. row \in Row /\ request[r] \in Request /\ request \in [Requests -> Request]
  BY DEF TypeOK
<1>2. Sound(row)
  BY DEF OutcomeInv, ResolvedOnlyAfterCall, Sound
<1>3. ASSUME NEW o \in Outcomes, ProposeResolution(r, o) PROVE OutcomeInv'
  <2>1. Sound(Proposed(row, o))
    BY <1>1, <1>2, CopyFields DEF Sound
  <2>2. QED
    BY <1>3, <2>1, OutcomeProceed DEF ProposeResolution
<1>4. ASSUME NEW o \in Outcomes, ResolveChallenge(r, o) PROVE OutcomeInv'
  BY <1>1, <1>4, CopyFields, OutcomeProceed DEF ResolveChallenge
<1>5. ASSUME NEW o \in Outcomes, AdminResolveMarket(r, o) PROVE OutcomeInv'
  BY <1>1, <1>5, CopyFields, OutcomeProceed DEF AdminResolveMarket
<1>6. CASE ChallengeResolution(r)
  <2>1. Sound(Challenged(row))
    BY <1>1, <1>2, ChallengedFields DEF Sound
  <2>2. QED
    BY <1>6, <2>1, OutcomeProceed DEF ChallengeResolution
<1>7. CASE RequestCallSucceeds(r)
  <2>1. /\ request[r].pc = "calling" /\ UNCHANGED <<row, sweep>>
        /\ submitted' = submitted \cup {request[r].copy.resolved_outcome}
        /\ request' = [request EXCEPT ![r] = At(request[r], "saving")]
    BY <1>7 DEF RequestCallSucceeds
  <2>2. /\ At(request[r], "saving").pc = "saving"
        /\ At(request[r], "saving").copy = request[r].copy
    BY <1>1, RequestSaving
  <2>3. CopiesSound'
    BY <1>1, <2>1, <2>2 DEF OutcomeInv, CopiesSound, Sound
  <2>4. QED
    BY <2>1, <2>3 DEF OutcomeInv, ResolvedOnlyAfterCall, SweepsSound
<1>8. CASE RequestFails(r)
  <2>1. UNCHANGED <<row, sweep, submitted>> /\ request' = [request EXCEPT ![r] = Done]
    BY <1>8 DEF RequestFails, history
  <2>2. CopiesSound'
    BY <1>1, <2>1, DoneType DEF OutcomeInv, CopiesSound, Sound
  <2>3. QED
    BY <2>1, <2>2 DEF OutcomeInv, ResolvedOnlyAfterCall, SweepsSound
<1>9. CASE Save(r)
  <2>1. /\ request[r].pc = "saving" /\ row' = request[r].copy
        /\ request' = [request EXCEPT ![r] = Done] /\ UNCHANGED <<sweep, submitted>>
    BY <1>9 DEF Save
  <2>2. CopiesSound'
    BY <1>1, <2>1, DoneType DEF OutcomeInv, CopiesSound, Sound
  <2>3. ResolvedOnlyAfterCall'
    BY <2>1 DEF OutcomeInv, CopiesSound, Sound, ResolvedOnlyAfterCall
  <2>4. QED
    BY <2>1, <2>2, <2>3 DEF OutcomeInv, SweepsSound
<1>10. QED
  BY <1>3, <1>4, <1>5, <1>6, <1>7, <1>8, <1>9 DEF Api

LEMMA OutcomeTick == TypeOK /\ OutcomeInv /\ Tick => OutcomeInv'
<1> SUFFICES ASSUME TypeOK, OutcomeInv, Tick PROVE OutcomeInv'
  OBVIOUS
<1>1. row' = Aged(row) /\ row \in Row /\ UNCHANGED <<sweep, submitted>>
  BY DEF TypeOK, Tick, history
<1>2. ResolvedOnlyAfterCall'
  BY <1>1, AgedRow DEF OutcomeInv, ResolvedOnlyAfterCall
<1>3. CopiesSound'
  <2> SUFFICES ASSUME NEW r \in Requests
               PROVE  /\ request'[r].pc = "saving" => Sound(request[r].copy)'
                      /\ request'[r].pc = "calling" =>
                           /\ request'[r].copy.is_resolved
                           /\ request'[r].copy.resolved_outcome \in Outcomes
    BY DEF CopiesSound
  <2>1. request[r] \in Request /\ request[r].copy \in Row
    BY DEF TypeOK, Request
  <2>2. CASE request[r].pc \in {"calling", "saving"}
    <3>1. request'[r] = AgedRequest(request[r])
      BY <2>2 DEF Tick
    <3>2. request'[r].pc = request[r].pc /\ request'[r].copy = Aged(request[r].copy)
      BY <2>1, <3>1, RequestAges
    <3>3. QED
      BY <1>1, <2>1, <3>2, AgedRow DEF OutcomeInv, CopiesSound, Sound
  <2>3. CASE request[r].pc \notin {"calling", "saving"}
    <3>1. request'[r] = request[r]
      BY <2>3 DEF Tick
    <3>2. QED
      BY <2>3, <3>1
  <2>4. QED
    BY <2>2, <2>3
<1>4. QED
  BY <1>1, <1>2, <1>3 DEF OutcomeInv, SweepsSound

LEMMA OutcomeStep == TypeOK /\ OutcomeInv /\ [Next]_vars => OutcomeInv'
<1> SUFFICES ASSUME TypeOK, OutcomeInv, [Next]_vars PROVE OutcomeInv'
  OBVIOUS
<1>1. CASE UNCHANGED vars
  BY <1>1 DEF vars, OutcomeInv, ResolvedOnlyAfterCall, CopiesSound, SweepsSound, Sound
<1>2. QED
  BY <1>1, OutcomeSweep, OutcomeCrash, OutcomeApi, OutcomeTick DEF Next

\* The database never reports an outcome that was not submitted to the
\* contract: finalizeSettlement, resolveChallenge and adminResolveMarket write
\* only after their call succeeded, and what they overwrite or what overwrites
\* them was read from a row of which the same holds.
THEOREM NeverAheadOfContract == Spec => []ResolvedOnlyAfterCall
<1>1. TypeOK /\ OutcomeInv /\ [Next]_vars => (TypeOK /\ OutcomeInv)'
  BY TypeStep, OutcomeStep
<1>2. OutcomeInv => ResolvedOnlyAfterCall
  BY DEF OutcomeInv
<1>3. QED
  BY <1>1, <1>2, TypeInit, OutcomeInit, PTL DEF Spec

-----------------------------------------------------------------------------
(* The persisted count is the number of attempts. *)

\* Only the holder of the lock claims, within the budget, and unless a save
\* replaced the row the count it read is still the row's.
ClaimsExclusive ==
  \A w \in Sweeps :
    sweep[w].pc = "claiming" =>
      /\ lock = w
      /\ sweep[w].count < MAX_RETRY_ATTEMPTS
      /\ ~lost => sweep[w].count = row.settlement_attempt_count

\* No request changes the count in its copy.
CopiesKeepCount ==
  \A r \in Requests :
    request[r].pc \in {"calling", "saving"} =>
      request[r].copy.settlement_attempt_count = request[r].read.settlement_attempt_count

BudgetInv == RetryBudget /\ ClaimsExclusive /\ CopiesKeepCount
LEMMA BudgetInit == Init => BudgetInv
<1> SUFFICES ASSUME Init PROVE BudgetInv
  OBVIOUS
<1>1. Len(attempts) = 0
  BY DEF Init
<1>2. RetryBudget
  BY <1>1 DEF Init, NewRow, RetryBudget
<1>3. ClaimsExclusive
  BY DEF Init, Idle, ClaimsExclusive
<1>4. CopiesKeepCount
  BY DEF Init, Done, CopiesKeepCount
<1>5. QED
  BY <1>2, <1>3, <1>4 DEF BudgetInv

LEMMA BudgetSweep ==
  ASSUME TypeOK, BudgetInv, NEW w \in Sweeps, Scheduler(w) \/ Environment(w)
  PROVE  BudgetInv'
<1> USE DEF BudgetInv
<1>1. sweep \in [Sweeps -> Sweep] /\ sweep[w] \in Sweep /\ row \in Row
  BY DEF TypeOK
<1>2. CASE Chooses(w)
  <2>1. UNCHANGED <<row, attempts, request, lost>>
    BY <1>2, ChooseEffect
  <2>2. RetryBudget' /\ CopiesKeepCount'
    BY <2>1 DEF RetryBudget, CopiesKeepCount
  <2>3. PICK s \in Sweep : sweep' = [sweep EXCEPT ![w] = s] /\ s.pc \in {"idle", "selected"}
    BY <1>2, ChooseEffect
  <2>4. lock' = lock \/ sweep[w].pc = "claiming"
    BY <1>2, ChooseEffect
  <2>5. ClaimsExclusive'
    BY <1>1, <2>1, <2>3, <2>4 DEF ClaimsExclusive
  <2>6. QED
    BY <2>2, <2>5
<1>3. CASE ClaimRead(w)
  <2>1. UNCHANGED <<row, attempts, request, lost>> /\ lock = NoSweep /\ lock' = w
    BY <1>3 DEF ClaimRead, history
  <2>2. RetryBudget' /\ CopiesKeepCount'
    BY <2>1 DEF RetryBudget, CopiesKeepCount
  <2>3. row.settlement_attempt_count < MAX_RETRY_ATTEMPTS
    BY <1>3 DEF ClaimRead, Eligible
  <2>4. \A v \in Sweeps : sweep[v].pc # "claiming"
    BY <2>1 DEF ClaimsExclusive
  <2>5. /\ sweep'[w].count = row.settlement_attempt_count
        /\ \A v \in Sweeps \ {w} : sweep'[v] = sweep[v]
    BY <1>1, <1>3 DEF ClaimRead
  <2>6. ClaimsExclusive'
    BY <2>1, <2>3, <2>4, <2>5 DEF ClaimsExclusive
  <2>7. QED
    BY <2>2, <2>6
<1>4. CASE ClaimCommit(w)
  <2>1. /\ sweep[w].pc = "claiming" /\ UNCHANGED <<request, lost>>
        /\ attempts' = Append(attempts, [status |-> "resolving", age |-> 0])
        /\ sweep' = [sweep EXCEPT ![w] = Claimed(sweep[w], Len(attempts) + 1)]
    BY <1>4 DEF ClaimCommit, history
  <2>2. row'.settlement_attempt_count = sweep[w].count + 1
    BY <1>1, <1>4 DEF ClaimCommit, Row
  <2>3. lock = w /\ sweep[w].count < MAX_RETRY_ATTEMPTS /\ sweep[w].count \in Nat
        /\ (~lost => sweep[w].count = row.settlement_attempt_count)
    BY <1>1, <2>1 DEF ClaimsExclusive, Sweep
  <2>4. attempts \in Seq(Attempt) /\ Len(attempts) \in Nat
    BY LenProperties DEF TypeOK
  <2>5. Len(attempts') = Len(attempts) + 1
    BY <2>1, <2>4
  <2>6. RetryBudget'
    BY <2>1, <2>2, <2>3, <2>4, <2>5 DEF RetryBudget
  <2>7. ClaimsExclusive'
    <3>1. Claimed(sweep[w], Len(attempts) + 1).pc = "calling"
      <4>1. Len(attempts) + 1 \in Nat
        BY <2>4
      <4>2. QED
        BY <1>1, <4>1, ClaimedType
    <3>2. \A v \in Sweeps : sweep'[v].pc # "claiming"
      BY <1>1, <2>1, <2>3, <3>1 DEF ClaimsExclusive
    <3>3. QED
      BY <3>2 DEF ClaimsExclusive
  <2>8. CopiesKeepCount'
    BY <2>1 DEF CopiesKeepCount
  <2>9. QED
    BY <2>6, <2>7, <2>8
<1>5. CASE CallSucceeds(w) \/ CallFails(w) \/ Finalize(w)
  <2>1. UNCHANGED <<lock, request, lost>>
    BY <1>5 DEF CallSucceeds, CallFails, Finalize, history
  <2>2. row'.settlement_attempt_count = row.settlement_attempt_count
    BY <1>1, <1>5 DEF CallSucceeds, CallFails, Finalize, Row
  <2>3. Len(attempts') = Len(attempts)
    <3>1. CASE CallSucceeds(w)
      BY <3>1 DEF CallSucceeds
    <3>2. sweep[w].pc \in {"calling", "finalizing"} => sweep[w].attempt \in DOMAIN attempts
      BY DEF TypeOK
    <3>3. CASE CallFails(w)
      BY <3>2, <3>3, AttemptStatus DEF CallFails
    <3>4. CASE Finalize(w)
      BY <3>2, <3>4, AttemptStatus DEF Finalize
    <3>5. QED
      BY <1>5, <3>1, <3>3, <3>4
  <2>4. PICK p \in {"failed", "finalizing", "announcing"} :
          sweep' = [sweep EXCEPT ![w] = At(sweep[w], p)]
    BY <1>5 DEF CallSucceeds, CallFails, Finalize
  <2>5. At(sweep[w], p).pc # "claiming"
    <3>1. At(sweep[w], p).pc = p
      BY <1>1, <2>4, SweepPc
    <3>2. QED
      BY <2>4, <3>1
  <2>6. ClaimsExclusive'
    BY <1>1, <2>1, <2>2, <2>4, <2>5 DEF ClaimsExclusive
  <2>7. RetryBudget' /\ CopiesKeepCount'
    BY <2>1, <2>2, <2>3 DEF RetryBudget, CopiesKeepCount
  <2>8. QED
    BY <2>6, <2>7
<1>6. QED
  BY <1>2, <1>3, <1>4, <1>5 DEF Scheduler, Environment, Chooses

LEMMA BudgetCrash ==
  ASSUME TypeOK, BudgetInv, NEW i \in Instances, Crash(i)
  PROVE  BudgetInv'
<1>1. UNCHANGED <<row, attempts, request, lost>>
  BY DEF Crash, history
<1>2. RetryBudget' /\ CopiesKeepCount'
  BY <1>1 DEF BudgetInv, RetryBudget, CopiesKeepCount
<1>3. ClaimsExclusive'
  <2> SUFFICES ASSUME NEW w \in Sweeps, sweep'[w].pc = "claiming"
               PROVE  /\ lock' = w /\ sweep'[w].count < MAX_RETRY_ATTEMPTS
                      /\ ~lost' => sweep'[w].count = row'.settlement_attempt_count
    BY DEF ClaimsExclusive
  <2>1. Host[w] # i /\ sweep'[w] = sweep[w]
    BY IdleType DEF Crash
  <2>2. QED
    BY <1>1, <2>1 DEF BudgetInv, ClaimsExclusive, Crash
<1>4. QED
  BY <1>2, <1>3 DEF BudgetInv

LEMMA BudgetProceed ==
  ASSUME TypeOK, BudgetInv, NEW r \in Requests, NEW op, NEW pc, NEW copy,
         Proceed(r, op, pc, copy),
         copy.settlement_attempt_count = row.settlement_attempt_count
  PROVE  BudgetInv'
<1> DEFINE q == [pc |-> pc, op |-> op, read |-> row, copy |-> copy]
<1>1. request' = [request EXCEPT ![r] = q] /\ request \in [Requests -> Request]
      /\ UNCHANGED <<row, attempts, lock, sweep, lost>>
  BY DEF Proceed, TypeOK, history
<1>2. q.copy = copy /\ q.read = row
  OBVIOUS
<1> HIDE DEF q
<1>3. CopiesKeepCount'
  BY <1>1, <1>2 DEF BudgetInv, CopiesKeepCount
<1>4. QED
  BY <1>1, <1>3 DEF BudgetInv, RetryBudget, ClaimsExclusive

LEMMA BudgetApi ==
  ASSUME TypeOK, BudgetInv, NEW r \in Requests, Api(r)
  PROVE  BudgetInv'
<1>1. row \in Row /\ request[r] \in Request /\ request \in [Requests -> Request]
  BY DEF TypeOK
<1>2. ASSUME NEW o \in Outcomes, ProposeResolution(r, o) PROVE BudgetInv'
  BY <1>1, <1>2, CopyFields, BudgetProceed DEF ProposeResolution
<1>3. ASSUME NEW o \in Outcomes, ResolveChallenge(r, o) PROVE BudgetInv'
  BY <1>1, <1>3, CopyFields, BudgetProceed DEF ResolveChallenge
<1>4. ASSUME NEW o \in Outcomes, AdminResolveMarket(r, o) PROVE BudgetInv'
  BY <1>1, <1>4, CopyFields, BudgetProceed DEF AdminResolveMarket
<1>5. CASE ChallengeResolution(r)
  BY <1>1, <1>5, ChallengedFields, BudgetProceed DEF ChallengeResolution
<1>6. CASE RequestCallSucceeds(r) \/ RequestFails(r)
  <2>1. UNCHANGED <<row, attempts, lock, sweep, lost>>
    BY <1>6 DEF RequestCallSucceeds, RequestFails, history
  <2>2. \/ /\ request[r].pc = "calling"
           /\ request' = [request EXCEPT ![r] = At(request[r], "saving")]
        \/ request' = [request EXCEPT ![r] = Done]
    BY <1>6 DEF RequestCallSucceeds, RequestFails
  <2>3. CopiesKeepCount'
    BY <1>1, <2>2, RequestSaving, DoneType DEF BudgetInv, CopiesKeepCount
  <2>4. QED
    BY <2>1, <2>3 DEF BudgetInv, RetryBudget, ClaimsExclusive
<1>7. CASE Save(r)
  <2>1. /\ request[r].pc = "saving" /\ row' = request[r].copy
        /\ request' = [request EXCEPT ![r] = Done]
        /\ lost' = (lost \/ row # request[r].read)
        /\ UNCHANGED <<attempts, lock, sweep>>
    BY <1>7 DEF Save
  <2>2. CopiesKeepCount'
    BY <1>1, <2>1, DoneType DEF BudgetInv, CopiesKeepCount
  <2>3. ~lost' => ~lost /\ row'.settlement_attempt_count = row.settlement_attempt_count
    BY <2>1 DEF BudgetInv, CopiesKeepCount
  <2>4. RetryBudget' /\ ClaimsExclusive'
    BY <2>1, <2>3 DEF BudgetInv, RetryBudget, ClaimsExclusive
  <2>5. QED
    BY <2>2, <2>4 DEF BudgetInv
<1>8. QED
  BY <1>2, <1>3, <1>4, <1>5, <1>6, <1>7 DEF Api

LEMMA BudgetTick == TypeOK /\ BudgetInv /\ Tick => BudgetInv'
<1> SUFFICES ASSUME TypeOK, BudgetInv, Tick PROVE BudgetInv'
  OBVIOUS
<1>1. row' = Aged(row) /\ row \in Row /\ UNCHANGED <<lock, sweep, lost>>
  BY DEF TypeOK, Tick, history
<1>2. Len(attempts') = Len(attempts)
  BY AttemptsAge DEF Tick
<1>3. row'.settlement_attempt_count = row.settlement_attempt_count
  BY <1>1, AgedRow
<1>4. RetryBudget' /\ ClaimsExclusive'
  BY <1>1, <1>2, <1>3 DEF BudgetInv, RetryBudget, ClaimsExclusive
<1>5. CopiesKeepCount'
  <2> SUFFICES ASSUME NEW r \in Requests, request'[r].pc \in {"calling", "saving"}
               PROVE  request'[r].copy.settlement_attempt_count =
                        request'[r].read.settlement_attempt_count
    BY DEF CopiesKeepCount
  <2>1. request[r] \in Request /\ request[r].copy \in Row /\ request[r].read \in Row
    BY DEF TypeOK, Request
  <2>2. request[r].pc \in {"calling", "saving"} /\ request'[r] = AgedRequest(request[r])
    BY DEF Tick, AgedRequest
  <2>3. /\ request'[r].copy = Aged(request[r].copy)
        /\ request'[r].read = Aged(request[r].read)
    BY <2>1, <2>2, RequestAges
  <2>4. QED
    BY <2>1, <2>2, <2>3, AgedRow DEF BudgetInv, CopiesKeepCount
<1>6. QED
  BY <1>4, <1>5 DEF BudgetInv

LEMMA BudgetStep == TypeOK /\ BudgetInv /\ [Next]_vars => BudgetInv'
<1> SUFFICES ASSUME TypeOK, BudgetInv, [Next]_vars PROVE BudgetInv'
  OBVIOUS
<1>1. CASE UNCHANGED vars
  BY <1>1 DEF vars, BudgetInv, RetryBudget, ClaimsExclusive, CopiesKeepCount
<1>2. QED
  BY <1>1, BudgetSweep, BudgetCrash, BudgetApi, BudgetTick DEF Next

\* The advisory lock of claimMarketForSettlement does its work: for any number
\* of instances, overlapping ticks, crashes and failures the persisted count is
\* the number of attempts and stays within MAX_RETRY_ATTEMPTS, as long as no
\* API call saved over a changed row.
THEOREM CountIsExact == Spec => []RetryBudget
<1>1. TypeOK /\ BudgetInv /\ [Next]_vars => (TypeOK /\ BudgetInv)'
  BY TypeStep, BudgetStep
<1>2. BudgetInv => RetryBudget
  BY DEF BudgetInv
<1>3. QED
  BY <1>1, <1>2, TypeInit, BudgetInit, PTL DEF Spec
=============================================================================
