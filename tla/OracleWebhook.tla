--------------------------- MODULE OracleWebhook ---------------------------
(***************************************************************************)
(* Results of one match that oracles deliver (oracle/webhook.service.ts):  *)
(* the calls that store, screen and submit them, the reviews of those that *)
(* were held, and the cron job that retries what is in the queue.  Queue   *)
(* and remembered event ids live in the memory of the one instance; the    *)
(* contract call is still simulated by the write to the match.             *)
(*                                                                         *)
(* A step is the code up to the next await.  repository.save replaces the  *)
(* row by the copy the code holds.  A key stands for the idempotency key   *)
(* and for the event id, which the code derives from the same fields.      *)
(***************************************************************************)
EXTENDS Integers, FiniteSets

CONSTANTS
  Calls,        \* names of the API calls
  Plans,        \* what they are: functions from Calls to deliveries and reviews
  Keys, Winners,
  Cron,         \* the name of the retry job; a tick that overlaps another is left out
  MAX_RETRIES,
  None,
  MaxIncidents, \* bound: failing statements and submissions
  MaxRestarts

ASSUME BoundsAssumption ==
  MAX_RETRIES \in Nat \ {0} /\ MaxIncidents \in Nat /\ MaxRestarts \in Nat

Row == [winner : Winners, status : {"pending", "submitted", "failed"}, job : Calls,
        review : {"not_required", "held", "approved", "rejected"}]
Job == [winner : Winners, key : Keys, retryCount : Nat, due : BOOLEAN]

ASSUME NamesAssumption == Cron \notin Calls /\ None \notin Winners \cup Calls \cup Row \cup Job

\* A delivery names a key and a winner, a review a key.
ASSUME PlansAssumption ==
  \A p \in Plans, c \in Calls :
    /\ p[c].op = "deliver" => p[c].key \in Keys /\ p[c].winner \in Winners
    /\ p[c].op = "review" => p[c].key \in Keys

VARIABLES
  plan,
  match,      \* the result in the database: None or a winner
  row,        \* oracle_submissions, by idempotency key
  job,        \* the QueuedSubmission objects, by the call that made them
  queue,      \* submissionQueue: the jobs in the map
  seen,       \* processedEventIds
  actor,      \* where every call and the cron job are
  todo,       \* the jobs the cron job has still to submit in this tick
  incidents, restarts,
  applied,    \* history: the jobs whose result was written to the match
  unstored    \* history: the keys of jobs whose row could not be saved

vars == <<plan, match, row, job, queue, seen, actor, todo, incidents, restarts,
          applied, unstored>>
memory == <<job, queue, seen, todo>>
bounds == <<incidents, restarts>>
history == <<applied, unstored>>

Actors == Calls \cup {Cron}

Actor == [pc : {"new", "validate", "save", "screen", "flag", "decide", "send", "record", "done"},
          job : Calls \cup {None}, read : BOOLEAN, ok : BOOLEAN, copy : Row \cup {None}]

Idle == [pc |-> "new", job |-> None, read |-> FALSE, ok |-> FALSE, copy |-> None]

Init ==
  /\ plan \in Plans
  /\ match = None
  /\ row = [k \in Keys |-> None]
  /\ job = [c \in Calls |-> None] /\ queue = {} /\ seen = {} /\ todo = {}
  /\ actor = [a \in Actors |-> Idle]
  /\ incidents = 0 /\ restarts = 0
  /\ applied = {} /\ unstored = {}

Incident == incidents < MaxIncidents /\ incidents' = incidents + 1

At(a, pc) == actor[a].pc = pc
Goto(a, pc) == actor' = [actor EXCEPT ![a] = [@ EXCEPT !.pc = pc]]
\* A call is over; the cron job waits for its next tick.
Over(a) == actor' = [actor EXCEPT ![a] = [Idle EXCEPT !.pc = IF a = Cron THEN "new" ELSE "done"]]
\* submitToOracle(job j)
SubmitToOracle(a, j) ==
  actor' = [actor EXCEPT ![a] = [Idle EXCEPT !.pc = "send", !.job = j]]

NewJob(winner, key) == [winner |-> winner, key |-> key, retryCount |-> 0, due |-> TRUE]

-----------------------------------------------------------------------------
(* processMatchResult *)

\* assertFreshSignedPayload, then the look-up of an earlier delivery, which is
\* answered from its row.
Receive(c) ==
  /\ plan[c].op = "deliver" /\ At(c, "new")
  /\ IF plan[c].key \in seen \/ row[plan[c].key] # None THEN Over(c) ELSE Goto(c, "validate")
  /\ UNCHANGED <<plan, match, row, memory, bounds, history>>

Validate(c) ==
  /\ At(c, "validate")
  /\ IF match # None THEN Over(c) ELSE Goto(c, "save")
  /\ UNCHANGED <<plan, match, row, memory, bounds, history>>

Enqueue(c, winner, key) ==
  /\ job' = [job EXCEPT ![c] = NewJob(winner, key)]
  /\ queue' = queue \cup {c}

\* Mutant: a delivery that lost the race for its key goes on as if it had won.
SaveSubmission_Races(c) ==
  LET d == plan[c]
      new == [winner |-> d.winner, status |-> "pending", job |-> c, review |-> "not_required"] IN
  /\ At(c, "save")
  /\ Enqueue(c, d.winner, d.key) /\ seen' = seen \cup {d.key}
  /\ row' = [row EXCEPT ![d.key] = IF @ = None THEN new ELSE @]
  /\ actor' = [actor EXCEPT ![c].pc = "screen", ![c].copy = row'[d.key]]
  /\ UNCHANGED <<plan, match, todo, bounds, history>>

\* The unique key lets one of several deliveries through.  Another failure of
\* the insert is swallowed and the result is submitted without a row.
SaveSubmission(c) ==
  LET d == plan[c]
      new == [winner |-> d.winner, status |-> "pending", job |-> c, review |-> "not_required"] IN
  /\ At(c, "save")
  /\ UNCHANGED <<plan, match, todo, restarts, applied>>
  /\ \/ /\ row[d.key] # None
        /\ Over(c)
        /\ UNCHANGED <<row, job, queue, seen, incidents, unstored>>
     \/ /\ row[d.key] = None
        /\ row' = [row EXCEPT ![d.key] = new]
        /\ actor' = [actor EXCEPT ![c].pc = "screen", ![c].copy = new]
        /\ Enqueue(c, d.winner, d.key) /\ seen' = seen \cup {d.key}
        /\ UNCHANGED <<incidents, unstored>>
     \/ /\ row[d.key] = None
        /\ Incident
        /\ unstored' = unstored \cup {d.key}
        /\ SubmitToOracle(c, c)
        /\ Enqueue(c, d.winner, d.key) /\ seen' = seen \cup {d.key}
        /\ UNCHANGED row

\* screenSubmission stamps the copy that was inserted and saves it.
Screen(c) ==
  /\ At(c, "screen")
  /\ LET held == plan[c].anomaly
         stamped == IF held THEN [actor[c].copy EXCEPT !.review = "held"] ELSE actor[c].copy IN
     /\ row' = [row EXCEPT ![plan[c].key] = stamped]
     /\ IF held THEN Goto(c, "flag") ELSE SubmitToOracle(c, c)
  /\ UNCHANGED <<plan, match, memory, bounds, history>>

\* The audit row of the flag is saved; only then a held job leaves the queue.
Flag(c) ==
  /\ At(c, "flag")
  /\ queue' = queue \ {c}
  /\ Over(c)
  /\ UNCHANGED <<plan, match, row, job, seen, todo, bounds, history>>

\* An error of the screening ends the call with its job in the queue.
ScreenFails(c) ==
  /\ At(c, "screen") \/ At(c, "flag")
  /\ Incident
  /\ Over(c)
  /\ UNCHANGED <<plan, match, row, memory, restarts, history>>

-----------------------------------------------------------------------------
(* reviewSubmission *)

ReviewRead(c) ==
  /\ plan[c].op = "review" /\ At(c, "new")
  /\ row[plan[c].key] # None
  /\ IF row[plan[c].key].review # "held" THEN Over(c)
       ELSE actor' = [actor EXCEPT ![c].pc = "decide", ![c].copy = row[plan[c].key]]
  /\ UNCHANGED <<plan, match, row, memory, bounds, history>>

Review(c) ==
  LET key == plan[c].key
      copy == actor[c].copy IN
  /\ At(c, "decide")
  /\ UNCHANGED <<plan, match, seen, todo, bounds, history>>
  /\ \/ /\ plan[c].approve
        /\ row' = [row EXCEPT ![key] = [copy EXCEPT !.review = "approved", !.job = c]]
        /\ Enqueue(c, copy.winner, key)
        /\ SubmitToOracle(c, c)
     \/ /\ ~plan[c].approve
        /\ row' = [row EXCEPT ![key] = [copy EXCEPT !.review = "rejected", !.status = "failed"]]
        /\ Over(c)
        /\ UNCHANGED <<job, queue>>

-----------------------------------------------------------------------------
(* submitToOracle, by a call or by the cron job *)

\* simulateOracleSubmission writes the match whatever it holds.
Send(a) ==
  /\ At(a, "send")
  /\ match' = job[actor[a].job].winner
  /\ applied' = applied \cup {actor[a].job}
  /\ actor' = [actor EXCEPT ![a].pc = "record", ![a].ok = TRUE]
  /\ UNCHANGED <<plan, row, memory, bounds, unstored>>

\* Mutant: the record is brought up to date whatever became of the submission.
SendFails_Recorded(a) ==
  /\ At(a, "send")
  /\ Incident
  /\ actor' = [actor EXCEPT ![a].pc = "record", ![a].ok = TRUE]
  /\ UNCHANGED <<plan, match, row, memory, restarts, history>>

SendFails(a) ==
  /\ At(a, "send")
  /\ Incident
  /\ job' = [job EXCEPT ![actor[a].job].retryCount = @ + 1]
  /\ actor' = [actor EXCEPT ![a].pc = "record", ![a].ok = FALSE]
  /\ UNCHANGED <<plan, match, row, queue, seen, todo, restarts, history>>

\* The row the job is recorded in: a review points it to another job.
RowOf(j) == {k \in Keys : row[k] # None /\ row[k].job = j}

\* Mutant: the new status is saved even when there is no record of the job.
RecordRead_Unchecked(a) ==
  /\ At(a, "record") /\ ~actor[a].read
  /\ LET update == [status |-> IF actor[a].ok THEN "submitted" ELSE "failed"] IN
       actor' = [actor EXCEPT ![a].read = TRUE, ![a].copy =
         IF RowOf(actor[a].job) = {} THEN update
         ELSE [row[CHOOSE k \in RowOf(actor[a].job) : TRUE] EXCEPT !.status = update.status]]
  /\ UNCHANGED <<plan, match, row, memory, bounds, history>>

\* updateSubmissionRecord reads the row ...
RecordRead(a) ==
  /\ At(a, "record") /\ ~actor[a].read
  /\ actor' = [actor EXCEPT ![a].read = TRUE, ![a].copy =
       IF RowOf(actor[a].job) = {} THEN None
       ELSE LET k == CHOOSE k \in RowOf(actor[a].job) : TRUE
                status == IF actor[a].ok THEN "submitted" ELSE "failed"
            IN  [row[k] EXCEPT !.status = status]]
  /\ UNCHANGED <<plan, match, row, memory, bounds, history>>

\* What follows the update: a submitted job and one without retries left leave
\* the queue, the next retry of another is due later.
AfterRecord(a) ==
  LET j == actor[a].job IN
  /\ IF actor[a].ok \/ job[j].retryCount >= MAX_RETRIES
       THEN queue' = queue \ {j} /\ UNCHANGED job
       ELSE job' = [job EXCEPT ![j].due = FALSE] /\ UNCHANGED queue
  /\ Over(a)

\* ... and saves it.  An error is swallowed; attempts bound how often.
RecordSave(a) ==
  /\ At(a, "record") /\ actor[a].read
  /\ \/ row' = IF actor[a].copy = None THEN row
               ELSE [row EXCEPT ![job[actor[a].job].key] = actor[a].copy]
     \/ row' = row
  /\ AfterRecord(a)
  /\ UNCHANGED <<plan, match, seen, todo, bounds, history>>

-----------------------------------------------------------------------------
(* The cron job and time *)

\* Mutant: only jobs that failed before are retried.
Due_Failed(j) == job[j].due /\ job[j].retryCount > 0

Due(j) == job[j].due

\* processRetries lists the jobs that are due, then submits one after another.
ProcessRetries ==
  /\ At(Cron, "new") /\ todo = {}
  /\ todo' = {j \in queue : Due(j)}
  /\ todo' # {}
  /\ UNCHANGED <<plan, match, row, job, queue, seen, actor, bounds, history>>

RetryNext ==
  /\ At(Cron, "new")
  /\ \E j \in todo :
       /\ todo' = todo \ {j}
       /\ SubmitToOracle(Cron, j)
  /\ UNCHANGED <<plan, match, row, job, queue, seen, bounds, history>>

\* nextRetryAt of a job passes.
Wait(j) ==
  /\ j \in queue /\ ~job[j].due
  /\ job' = [job EXCEPT ![j].due = TRUE]
  /\ UNCHANGED <<plan, match, row, queue, seen, actor, todo, bounds, history>>

\* pruneExpiredEventIds
Forget(k) ==
  /\ k \in seen
  /\ seen' = seen \ {k}
  /\ UNCHANGED <<plan, match, row, job, queue, actor, todo, bounds, history>>

\* The process stops and starts again: the queue, the event ids and all calls
\* under way are gone.
Restart ==
  /\ restarts < MaxRestarts /\ restarts' = restarts + 1
  /\ queue' = {} /\ seen' = {} /\ todo' = {}
  /\ actor' = [a \in Actors |->
       IF a = Cron THEN Idle ELSE IF At(a, "new") THEN actor[a] ELSE [Idle EXCEPT !.pc = "done"]]
  /\ UNCHANGED <<plan, match, row, job, incidents, history>>

-----------------------------------------------------------------------------
Call(c) ==
  \/ Receive(c) \/ Validate(c) \/ SaveSubmission(c) \/ Screen(c) \/ Flag(c)
  \/ ReviewRead(c) \/ Review(c)

Submission(a) == Send(a) \/ RecordRead(a) \/ RecordSave(a)

CronJob == ProcessRetries \/ RetryNext \/ Submission(Cron)

Next ==
  \/ \E c \in Calls : Call(c) \/ Submission(c) \/ ScreenFails(c)
  \/ \E a \in Actors : SendFails(a)
  \/ CronJob
  \/ \E j \in Calls : Wait(j)
  \/ \E k \in Keys : Forget(k)
  \/ Restart

\* The cron job runs every minute, an await that was reached ends, and time
\* passes.  Nothing is assumed of clients, failures and restarts.
Fairness ==
  /\ WF_vars(CronJob)
  /\ \A c \in Calls : /\ WF_vars(~At(c, "new") /\ (Call(c) \/ Submission(c)))
                      /\ WF_vars(Wait(c))

Spec == Init /\ [][Next]_vars /\ Fairness

-----------------------------------------------------------------------------
(* Properties. *)

\* Rows, jobs and calls keep their types, and a job that is queued, listed by
\* the cron job or applied exists: calls, reviews, retries and restarts leave no
\* id of a submission that was never made.
TypeOK ==
  /\ match \in Winners \cup {None}
  /\ row \in [Keys -> Row \cup {None}]
  /\ \A c \in Calls : job[c] = None \/ job[c] \in Job
  /\ \A j \in queue \cup todo \cup applied : job[j] # None
  /\ seen \subseteq Keys
  /\ actor \in [Actors -> Actor]

JobsFor(k) == {c \in Calls : job[c] # None /\ job[c].key = k}

\* A row says submitted only after the result of one of its jobs was written to
\* the match, whoever submitted it and whatever failed (simulateOracleSubmission).
SubmittedWasApplied ==
  \A k \in Keys : row[k] # None /\ row[k].status = "submitted" =>
    match # None /\ \E j \in JobsFor(k) : j \in applied

\* The unique key is "the serialization point for concurrent duplicate calls":
\* however often and at whichever time deliveries with one key arrive, before
\* and after a restart, only the result of its row is ever applied.
OneResultPerKey ==
  \A k \in Keys \ unstored : \A j \in JobsFor(k) \cap applied :
    row[k] # None /\ job[j].winner = row[k].winner

\* A stored result does not stay pending unattended: in the end it is used,
\* refused or held, or one of its jobs was tried MAX_RETRIES times and given up
\* (when the records of those failures could not be saved either, the row says
\* pending for good) - unless a restart of the process lost its job.
EventuallyUsed ==
  LET Waiting(k) == row[k] # None /\ row[k].status = "pending" /\ row[k].review # "held"
      GivenUp(k) == \E j \in JobsFor(k) : job[j].retryCount >= MAX_RETRIES
  IN  \A k \in Keys : Waiting(k) ~> (~Waiting(k) \/ match # None \/ GivenUp(k) \/ restarts > 0)

\* HELD is "withheld from on-chain submission pending admin review" and a
\* rejected submission "must never be used" (SubmissionReviewStatus).
HeldNotUsed ==
  \A k \in Keys : row[k] # None /\ row[k].review \in {"held", "rejected"} =>
    JobsFor(k) \cap applied = {}
=============================================================================
