-------------------------- MODULE MarketSettlement --------------------------
(***************************************************************************)
(* Settlement of one market by the backend: the scheduler of               *)
(* backend/src/markets/market-settlement.scheduler.ts, which runs in every *)
(* backend instance and whose ticks may overlap, next to the API calls of  *)
(* markets.service.ts and admin.service.ts that write the same row.        *)
(*                                                                         *)
(* A step is what happens between two awaits.  Each tick that works on the *)
(* market is a sweep, each API call a request; both read the row, wait,    *)
(* and write it.  repository.save writes every column of the entity that   *)
(* differs from the stored row, so it replaces the row by the copy.        *)
(* Markets do not interact here: one is modelled, ended and not cancelled. *)
(* Times are kept relative: how long a window is still open and how old an *)
(* attempt is, saturated where the code no longer tells them apart.        *)
(***************************************************************************)
EXTENDS Integers, Sequences, FiniteSets

CONSTANTS
  Instances,           \* backend processes
  Sweeps,              \* scheduler ticks that may work at the same time
  Host,                \* the instance a sweep runs in
  Requests,            \* API calls, each made at most once
  Operations,          \* what a request may be
  Outcomes, NoOutcome,
  GRACE,               \* grace_period_seconds
  STALE,               \* STALE_SETTLING_THRESHOLD_MS
  BACKOFF,             \* INITIAL_BACKOFF_MS
  MAX_RETRY_ATTEMPTS,
  NoSweep,             \* nobody holds the advisory lock
  MaxManual,           \* bound: attempts counted when a manual retry is asked for
  MaxFailures,         \* bound: times a call or a statement fails
  MaxCrashes           \* bound: instances that crash

ASSUME HostAssumption == Host \in [Sweeps -> Instances]

ASSUME NamesAssumption == NoOutcome \notin Outcomes /\ NoSweep \notin Sweeps

ASSUME LimitsAssumption ==
  /\ GRACE \in Nat /\ STALE \in Nat /\ BACKOFF \in Nat
  /\ MAX_RETRY_ATTEMPTS \in Nat
  /\ MaxManual \in Nat /\ MaxFailures \in Nat /\ MaxCrashes \in Nat

ASSUME OperationsAssumption ==
  Operations \subseteq {"propose", "challenge", "adjudicate", "resolve"}

VARIABLES
  row,        \* the market's row in the database
  attempts,   \* its settlement_attempts rows, oldest first
  lock,       \* the sweep whose transaction holds the advisory lock
  queue,      \* the market's entry in every instance's deadLetterQueue
  sweep,      \* where every sweep is
  request,    \* where every request is
  failures, crashes,   \* what the environment did so far
  submitted,  \* history: outcomes sent to the contract with success
  calls,      \* history: how often that happened
  lost        \* history: a save replaced a row that had changed since it was read

vars == <<row, attempts, lock, queue, sweep, request, failures, crashes,
          submitted, calls, lost>>
history == <<submitted, calls, lost>>

-----------------------------------------------------------------------------
(* Types and initial state. *)

States == {"pending", "proposed", "settling", "challenged", "settled"}

\* window: time left until the challenge deadline, -1 once it has passed.
Row ==
  [settlement_state : States, proposed_outcome : Outcomes \cup {NoOutcome},
   window : -1..GRACE, settlement_attempt_count : Nat,
   is_resolved : BOOLEAN, resolved_outcome : Outcomes \cup {NoOutcome}]

Attempt == [status : {"resolving", "resolved", "failed"}, age : Nat]

\* The state and the count a claim read, the outcome and the attempt it made.
Sweep ==
  [pc : {"idle", "selected", "claiming", "calling", "failed", "finalizing", "announcing"},
   origin : {"tick", "retry", "manual"},
   state : States, count : Nat, outcome : Outcomes \cup {NoOutcome}, attempt : Nat]

Request ==
  [pc : {"new", "calling", "saving", "done"},
   op : {"none"} \cup Operations, read : Row, copy : Row]

RetryInfo == [queued : BOOLEAN, attempts : Nat, wait : Int]

NewRow ==
  [settlement_state |-> "pending", proposed_outcome |-> NoOutcome, window |-> -1,
   settlement_attempt_count |-> 0, is_resolved |-> FALSE, resolved_outcome |-> NoOutcome]

Idle ==
  [pc |-> "idle", origin |-> "tick", state |-> "pending", count |-> 0,
   outcome |-> NoOutcome, attempt |-> 0]

\* A sweep or a request that moves on, and a sweep that claimed the market as
\* attempt n.
At(s, pc) == [s EXCEPT !.pc = pc]
Claimed(s, n) == [s EXCEPT !.pc = "calling", !.attempt = n]

NotQueued == [queued |-> FALSE, attempts |-> 0, wait |-> 0]

Done == [pc |-> "done", op |-> "none", read |-> NewRow, copy |-> NewRow]

Init ==
  /\ row = NewRow
  /\ attempts = <<>>
  /\ lock = NoSweep
  /\ queue = [i \in Instances |-> NotQueued]
  /\ sweep = [w \in Sweeps |-> Idle]
  /\ request = [r \in Requests |-> [Done EXCEPT !.pc = "new"]]
  /\ failures = 0 /\ crashes = 0
  /\ submitted = {} /\ calls = 0 /\ lost = FALSE

-----------------------------------------------------------------------------
(* market-settlement-state.util.ts *)

AllowedTransitions ==
  [s \in States |->
     CASE s = "pending"    -> {"proposed"}
       [] s = "proposed"   -> {"settling", "challenged"}
       [] s = "settling"   -> {"settling", "settled"}
       [] s = "challenged" -> {"settled"}
       [] s = "settled"    -> {}]

canTransition(from, to) == to \in AllowedTransitions[from]

-----------------------------------------------------------------------------
(* The scheduler: choosing and claiming the market. *)

\* settleEligibleMarkets: proposed, and the grace period has elapsed.
Due == row.settlement_state = "proposed" /\ row.window <= 0

\* Mutant: the attempt of a crashed sweep is never found.
Stale_Never == FALSE

\* findStaleSettlingMarkets: only the latest attempt counts, and only while it
\* is still resolving.
Stale ==
  /\ row.settlement_state = "settling"
  /\ attempts # <<>>
  /\ attempts[Len(attempts)].status = "resolving"
  /\ attempts[Len(attempts)].age >= STALE

Select(w) ==
  /\ sweep[w].pc = "idle"
  /\ Due \/ Stale
  /\ sweep' = [sweep EXCEPT ![w] = [Idle EXCEPT !.pc = "selected"]]
  /\ UNCHANGED <<row, attempts, lock, queue, request, failures, crashes, history>>

\* processRetries.
Retry(w) ==
  /\ sweep[w].pc = "idle"
  /\ queue[Host[w]].queued
  /\ queue[Host[w]].wait = 0
  /\ queue[Host[w]].attempts < MAX_RETRY_ATTEMPTS
  /\ sweep' = [sweep EXCEPT ![w] = [Idle EXCEPT !.pc = "selected", !.origin = "retry"]]
  /\ UNCHANGED <<row, attempts, lock, queue, request, failures, crashes, history>>

\* retrySettlement, called by an administrator: neither the wait nor the number
\* of attempts is looked at.  The call uses an idle sweep of its instance.
ManualRetry(w) ==
  /\ sweep[w].pc = "idle"
  /\ queue[Host[w]].queued
  /\ queue[Host[w]].attempts < MaxManual
  /\ sweep' = [sweep EXCEPT ![w] = [Idle EXCEPT !.pc = "selected", !.origin = "manual"]]
  /\ UNCHANGED <<row, attempts, lock, queue, request, failures, crashes, history>>

\* calculateNextRetry.
NextRetry(n) == BACKOFF * 2 ^ n

\* settleMarket returned false: a retry counts it against the queued entry.
\* The alert for the last one, and the one before it, is left out.
Unsettled(w) ==
  LET i     == Host[w]
      retry == sweep[w].origin # "tick" /\ queue[i].queued
      n     == queue[i].attempts + 1
  IN  /\ sweep' = [sweep EXCEPT ![w] = Idle]
      /\ queue' = IF retry
                  THEN [queue EXCEPT ![i] =
                          [queued |-> TRUE, attempts |-> n, wait |-> NextRetry(n)]]
                  ELSE queue

\* claimMarketForSettlement: pg_try_advisory_xact_lock does not wait.
LockBusy(w) ==
  /\ sweep[w].pc = "selected"
  /\ lock # NoSweep
  /\ Unsettled(w)
  /\ UNCHANGED <<row, attempts, lock, request, failures, crashes, history>>

\* Mutant: a claim ignores the retry budget.
Eligible_NoBudget(mk) ==
  canTransition(mk.settlement_state, "settling") /\ mk.proposed_outcome # NoOutcome

Eligible(mk) ==
  /\ canTransition(mk.settlement_state, "settling")
  /\ mk.proposed_outcome # NoOutcome
  /\ mk.settlement_attempt_count < MAX_RETRY_ATTEMPTS

ClaimRead(w) ==
  /\ sweep[w].pc = "selected"
  /\ lock = NoSweep
  /\ Eligible(row)
  /\ lock' = w
  /\ sweep' = [sweep EXCEPT ![w] =
       [pc |-> "claiming", origin |-> @.origin, state |-> row.settlement_state,
        count |-> row.settlement_attempt_count, outcome |-> row.proposed_outcome,
        attempt |-> 0]]
  /\ UNCHANGED <<row, attempts, queue, request, failures, crashes, history>>

ClaimRefused(w) ==
  /\ sweep[w].pc = "selected"
  /\ lock = NoSweep
  /\ ~Eligible(row)
  /\ Unsettled(w)
  /\ UNCHANGED <<row, attempts, lock, request, failures, crashes, history>>

\* Mutant: a market that is settling already gets no attempt row of its own.
ClaimCommit_NoAttempt(w) ==
  /\ sweep[w].pc = "claiming"
  /\ attempts' = IF sweep[w].state = "settling" THEN attempts
                 ELSE Append(attempts, [status |-> "resolving", age |-> 0])
  /\ row' = [row EXCEPT !.settlement_state = "settling",
                        !.settlement_attempt_count = sweep[w].count + 1]
  /\ lock' = NoSweep
  /\ sweep' = [sweep EXCEPT ![w] = Claimed(@, Len(attempts) + 1)]
  /\ UNCHANGED <<queue, request, failures, crashes, history>>

\* The claim writes the attempt row, the state unless it was already settling,
\* and one more than the count it read.
ClaimCommit(w) ==
  /\ sweep[w].pc = "claiming"
  /\ attempts' = Append(attempts, [status |-> "resolving", age |-> 0])
  /\ row' = [row EXCEPT
       !.settlement_state = IF sweep[w].state # "settling" THEN "settling" ELSE @,
       !.settlement_attempt_count = sweep[w].count + 1]
  /\ lock' = NoSweep
  /\ sweep' = [sweep EXCEPT ![w] = Claimed(@, Len(attempts) + 1)]
  /\ UNCHANGED <<queue, request, failures, crashes, history>>

\* A statement of the claim fails: rollback, and no claim.
ClaimFails(w) ==
  /\ sweep[w].pc = "claiming"
  /\ failures < MaxFailures
  /\ failures' = failures + 1
  /\ lock' = NoSweep
  /\ Unsettled(w)
  /\ UNCHANGED <<row, attempts, request, crashes, history>>

-----------------------------------------------------------------------------
(* The scheduler: the call, and recording how it ended. *)

CallSucceeds(w) ==
  /\ sweep[w].pc = "calling"
  /\ submitted' = submitted \cup {sweep[w].outcome}
  /\ calls' = calls + 1
  /\ sweep' = [sweep EXCEPT ![w] = At(@, "finalizing")]
  /\ UNCHANGED <<row, attempts, lock, queue, request, failures, crashes, lost>>

\* Mutant: a failed call is taken for a successful one.
CallFails_Finalizes(w) ==
  /\ sweep[w].pc = "calling"
  /\ failures < MaxFailures
  /\ failures' = failures + 1
  /\ sweep' = [sweep EXCEPT ![w] = At(@, "finalizing")]
  /\ UNCHANGED <<row, attempts, lock, queue, request, crashes, history>>

\* The call throws: recordAttemptFailure.
CallFails(w) ==
  /\ sweep[w].pc = "calling"
  /\ failures < MaxFailures
  /\ failures' = failures + 1
  /\ attempts' = [attempts EXCEPT ![sweep[w].attempt].status = "failed"]
  /\ sweep' = [sweep EXCEPT ![w] = At(@, "failed")]
  /\ UNCHANGED <<row, lock, queue, request, crashes, history>>

\* An outage makes the call throw and recordAttemptFailure too: the error ends
\* the sweep before the retry is queued, and the attempt stays resolving.
RecordFails(w) ==
  /\ sweep[w].pc = "calling"
  /\ failures < MaxFailures
  /\ failures' = failures + 1
  /\ sweep' = [sweep EXCEPT ![w] = Idle]
  /\ UNCHANGED <<row, attempts, lock, queue, request, crashes, history>>

\* Mutant: a failed attempt is not queued for a retry.
Enqueue_Dropped(w) ==
  /\ sweep[w].pc = "failed"
  /\ Unsettled(w)
  /\ UNCHANGED <<row, attempts, lock, request, failures, crashes, history>>

\* addToRetryQueue: an entry that is there already stays; then settleMarket
\* returns false.
Enqueue(w) ==
  LET i == Host[w]
  IN  /\ sweep[w].pc = "failed"
      /\ IF queue[i].queued
         THEN Unsettled(w)
         ELSE /\ queue' = [queue EXCEPT ![i] =
                   [queued |-> TRUE, attempts |-> 0, wait |-> NextRetry(0)]]
              /\ sweep' = [sweep EXCEPT ![w] = Idle]
      /\ UNCHANGED <<row, attempts, lock, request, failures, crashes, history>>

\* finalizeSettlement: the result of acquireAdvisoryLock is ignored and the row
\* is not read again.
Finalize(w) ==
  /\ sweep[w].pc = "finalizing"
  /\ row' = [row EXCEPT !.settlement_state = "settled", !.is_resolved = TRUE,
                        !.resolved_outcome = sweep[w].outcome]
  /\ attempts' = [attempts EXCEPT ![sweep[w].attempt].status = "resolved"]
  /\ sweep' = [sweep EXCEPT ![w] = At(@, "announcing")]
  /\ UNCHANGED <<lock, queue, request, failures, crashes, history>>

\* A statement of finalizeSettlement fails, or the webhook after its commit:
\* the error ends the sweep, and a queued entry stays.
FinalizeFails(w) ==
  /\ sweep[w].pc \in {"finalizing", "announcing"}
  /\ failures < MaxFailures
  /\ failures' = failures + 1
  /\ sweep' = [sweep EXCEPT ![w] = Idle]
  /\ UNCHANGED <<row, attempts, lock, queue, request, crashes, history>>

\* The webhook is queued and settleMarket returns true: a retry deletes the
\* queued entry.
Announce(w) ==
  /\ sweep[w].pc = "announcing"
  /\ sweep' = [sweep EXCEPT ![w] = Idle]
  /\ queue' = IF sweep[w].origin = "tick" THEN queue
              ELSE [queue EXCEPT ![Host[w]] = NotQueued]
  /\ UNCHANGED <<row, attempts, lock, request, failures, crashes, history>>

\* An instance dies: its sweeps and its queue are gone, its transaction is
\* rolled back and its lock released.
Crash(i) ==
  /\ crashes < MaxCrashes
  /\ crashes' = crashes + 1
  /\ sweep' = [w \in Sweeps |-> IF Host[w] = i THEN Idle ELSE sweep[w]]
  /\ lock' = IF lock # NoSweep /\ Host[lock] = i THEN NoSweep ELSE lock
  /\ queue' = [queue EXCEPT ![i] = NotQueued]
  /\ UNCHANGED <<row, attempts, request, failures, history>>

-----------------------------------------------------------------------------
(* API calls: read and check, for some a call of the contract, save. *)

\* The request continues at pc with the changed copy of the row it read.
Proceed(r, op, pc, copy) ==
  /\ request[r].pc = "new"
  /\ op \in Operations
  /\ request' = [request EXCEPT ![r] =
       [pc |-> pc, op |-> op, read |-> row, copy |-> copy]]
  /\ UNCHANGED <<row, attempts, lock, queue, sweep, failures, crashes, history>>

\* The changes the four operations make to their copy.
Proposed(mk, o) ==
  [mk EXCEPT !.settlement_state = "proposed", !.proposed_outcome = o, !.window = GRACE]
Challenged(mk) == [mk EXCEPT !.settlement_state = "challenged"]
Resolved(mk, o) == [mk EXCEPT !.is_resolved = TRUE, !.resolved_outcome = o]
Adjudicated(mk, o) ==
  [mk EXCEPT !.settlement_state = "settled", !.proposed_outcome = o,
             !.is_resolved = TRUE, !.resolved_outcome = o]

ProposeResolution(r, o) ==
  /\ ~row.is_resolved
  /\ canTransition(row.settlement_state, "proposed")
  /\ Proceed(r, "propose", "saving", Proposed(row, o))

ChallengeResolution(r) ==
  /\ canTransition(row.settlement_state, "challenged")
  /\ row.window >= 0
  /\ Proceed(r, "challenge", "saving", Challenged(row))

\* Allowed from "challenged", and by the table from "settling" too.
ResolveChallenge(r, o) ==
  /\ canTransition(row.settlement_state, "settled")
  /\ Proceed(r, "adjudicate", "calling", Adjudicated(row, o))

\* admin.service.ts: settlement_state is neither read nor written.
AdminResolveMarket(r, o) ==
  /\ ~row.is_resolved
  /\ Proceed(r, "resolve", "calling", Resolved(row, o))

RequestCallSucceeds(r) ==
  /\ request[r].pc = "calling"
  /\ submitted' = submitted \cup {request[r].copy.resolved_outcome}
  /\ calls' = calls + 1
  /\ request' = [request EXCEPT ![r] = At(@, "saving")]
  /\ UNCHANGED <<row, attempts, lock, queue, sweep, failures, crashes, lost>>

\* The contract call or the save throws, or the instance dies: the client gets
\* an error and nothing is saved, even if the contract accepted the call.
RequestFails(r) ==
  /\ request[r].pc \in {"calling", "saving"}
  /\ failures < MaxFailures
  /\ failures' = failures + 1
  /\ request' = [request EXCEPT ![r] = Done]
  /\ UNCHANGED <<row, attempts, lock, queue, sweep, crashes, history>>

Save(r) ==
  /\ request[r].pc = "saving"
  /\ row' = request[r].copy
  /\ lost' = (lost \/ row # request[r].read)
  /\ request' = [request EXCEPT ![r] = Done]
  /\ UNCHANGED <<attempts, lock, queue, sweep, failures, crashes,
                 submitted, calls>>

-----------------------------------------------------------------------------
\* Time passes: windows close, attempts age, retries come due.
Aged(mk) == [mk EXCEPT !.window = IF @ >= 0 THEN @ - 1 ELSE @]

AgedRequest(q) == [q EXCEPT !.read = Aged(@), !.copy = Aged(@)]

Tick ==
  /\ row' = Aged(row)
  /\ attempts' = [a \in DOMAIN attempts |->
       [attempts[a] EXCEPT !.age = IF @ < STALE THEN @ + 1 ELSE @]]
  /\ queue' = [i \in Instances |->
       [queue[i] EXCEPT !.wait = IF @ > 0 THEN @ - 1 ELSE 0]]
  /\ request' = [r \in Requests |->
       IF request[r].pc \in {"calling", "saving"}
       THEN AgedRequest(request[r])
       ELSE request[r]]
  /\ UNCHANGED <<lock, sweep, failures, crashes, history>>

Scheduler(w) ==
  \/ Select(w) \/ Retry(w) \/ LockBusy(w) \/ ClaimRead(w) \/ ClaimRefused(w)
  \/ ClaimCommit(w) \/ CallSucceeds(w) \/ Enqueue(w) \/ Finalize(w) \/ Announce(w)

Environment(w) ==
  \/ ManualRetry(w) \/ ClaimFails(w) \/ CallFails(w)
  \/ RecordFails(w) \/ FinalizeFails(w)

Api(r) ==
  \/ \E o \in Outcomes : \/ ProposeResolution(r, o)
                         \/ ResolveChallenge(r, o)
                         \/ AdminResolveMarket(r, o)
  \/ ChallengeResolution(r)
  \/ RequestCallSucceeds(r) \/ RequestFails(r) \/ Save(r)

Next ==
  \/ \E w \in Sweeps : Scheduler(w) \/ Environment(w)
  \/ \E i \in Instances : Crash(i)
  \/ \E r \in Requests : Api(r)
  \/ Tick

Spec == Init /\ [][Next]_vars

\* A cron tick comes every minute, an await that was reached ends, and time
\* passes.  Nothing is assumed of administrators, failures and crashes.
Fairness == WF_vars(Tick) /\ \A w \in Sweeps : WF_vars(Scheduler(w))

FairSpec == Spec /\ Fairness

-----------------------------------------------------------------------------
(* Properties. *)

\* Every variable has its type, and a sweep that is past its claim points to an
\* attempt row that exists.
TypeOK ==
  /\ row \in Row
  /\ attempts \in Seq(Attempt)
  /\ lock \in Sweeps \cup {NoSweep}
  /\ queue \in [Instances -> RetryInfo]
  /\ sweep \in [Sweeps -> Sweep]
  /\ request \in [Requests -> Request]
  /\ failures \in 0..MaxFailures /\ crashes \in 0..MaxCrashes
  /\ submitted \subseteq Outcomes \cup {NoOutcome} /\ calls \in Nat
  /\ lost \in BOOLEAN
  /\ \A w \in Sweeps :
       sweep[w].pc \in {"calling", "failed", "finalizing"} =>
         sweep[w].attempt \in DOMAIN attempts

\* finalizeSettlement, resolveChallenge and adminResolveMarket write the row
\* after the contract call: whatever sweeps and requests overwrite each other's
\* rows, whatever fails or crashes, the database never reports an outcome that
\* was not submitted to the contract, and a settled market is a resolved one.
ResolvedOnlyAfterCall ==
  /\ row.settlement_state = "settled" => row.is_resolved
  /\ row.is_resolved => row.resolved_outcome \in submitted \ {NoOutcome}

\* claimMarketForSettlement counts attempts in the row, read and written under
\* the advisory lock: unless an API call overwrote the row with an old copy,
\* the count is the number of attempts ever started, by all instances and
\* across restarts, and never exceeds the budget.
RetryBudget ==
  ~lost => /\ row.settlement_attempt_count = Len(attempts)
           /\ Len(attempts) <= MAX_RETRY_ATTEMPTS

\* A proposed market is resolved in the end, unless somebody challenges it, the
\* budget is used up, or an instance crashed after a call failed, which loses
\* the only record that a retry is due: the staleness check covers crashes, the
\* queue in memory failures, and nothing both.
EventuallySettled ==
  row.settlement_state = "proposed" ~>
    \/ row.is_resolved \/ row.settlement_state = "challenged"
    \/ row.settlement_attempt_count >= MAX_RETRY_ATTEMPTS
    \/ failures > 0 /\ crashes > 0

\* settleEligibleMarkets: "calling this concurrently (multiple instances, or an
\* overlapping tick) settles each eligible market exactly once".
SettledExactlyOnce == calls <= 1
=============================================================================
