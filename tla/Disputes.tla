------------------------------ MODULE Disputes ------------------------------
(***************************************************************************)
(* Disputes over one resolved market (disputes/disputes.service.ts): API   *)
(* calls that raise, vote on, decide and escalate them, the hourly SLA     *)
(* sweep, the recording on chain that nobody waits for, and the            *)
(* reconciliation of dispute-chain-reconciliation.service.ts.              *)
(*                                                                         *)
(* A step is one statement or contract call.  repository.save replaces the *)
(* row by the copy that was read (every column that differs is written);   *)
(* repository.update writes the named columns only.  At this commit        *)
(* raiseDispute and resolveDispute of soroban.service.ts send no           *)
(* transaction: they return the market's id and a made-up hash, or throw.  *)
(* A dispute gets on and off the chain by the calls of wallets; getDispute *)
(* really reads it.  Times are abstracted: clock says whether the SLA      *)
(* deadline of a row is "far", "near" (within the approaching window) or   *)
(* "past", and open that its escalation window has not passed.             *)
(***************************************************************************)
EXTENDS Integers, FiniteSets, FiniteSetsExt, Relation

CONSTANTS
  Requests,       \* names of the API calls
  Plans,          \* what they are: functions from Requests to calls
  Voters, Weight, \* the addresses that vote and their reputation
  MaxDisputes,    \* bound: rows, one per create or escalate of a plan
  MAX_TIER,
  QUORUM,         \* DISPUTE_TIER1_QUORUM
  MULTIPLIER,     \* DISPUTE_QUORUM_TIER_MULTIPLIER
  NoDispute,
  MaxIncidents    \* bound: failures, SLA sweeps, deadlines coming closer, wallets' calls

ASSUME LimitsAssumption ==
  /\ MaxDisputes \in Nat /\ MAX_TIER \in Nat /\ QUORUM \in Nat /\ MULTIPLIER \in Nat
  /\ MaxIncidents \in Nat

ASSUME WeightAssumption == Weight \in [Voters -> Nat]

VARIABLES
  plan,
  dispute,    \* the rows, by id
  clock, open,\* time: the SLA deadline and the escalation window of every row
  votes,      \* the dispute_votes rows
  onChain,    \* the contract holds a dispute of the market
  request,    \* where every API call is, its unawaited recording included
  sla,        \* the rows the SLA sweep has read and not yet looked at
  pass,       \* the reconciliation: "idle", "found" (rows) or "known" (contract)
  repairs,    \* the rows it found without their on-chain id
  incidents,
  overrun,    \* history: rows replaced by a copy read before they changed
  untallied   \* history: rows with a vote whose request ended before the tally

vars == <<plan, dispute, clock, open, votes, onChain, request, sla, pass,
          repairs, incidents, overrun, untallied>>
time == <<clock, open>>
history == <<overrun, untallied>>
jobs == <<sla, pass, repairs>>

-----------------------------------------------------------------------------
Ids == 1..MaxDisputes
Verdicts == {"upheld", "overturned"}

Dispute ==
  [status : {"pending", "escalated", "resolved"}, resolution : Verdicts \cup {"none"},
   admin : BOOLEAN, tier : 1..MAX_TIER, from : 0..MaxDisputes,
   chainId : BOOLEAN, chainTx : BOOLEAN, arbiter : BOOLEAN,
   stage : {"initial_review", "escalated"}, notified : BOOLEAN, breached : BOOLEAN]

NewDispute(tier, from) ==
  [status |-> "pending", resolution |-> "none", admin |-> FALSE,
   tier |-> tier, from |-> from, chainId |-> FALSE, chainTx |-> FALSE, arbiter |-> FALSE,
   stage |-> "initial_review", notified |-> FALSE, breached |-> FALSE]

Rows == {d \in Ids : dispute[d] # NoDispute}

NewRequest == [pc |-> "new", id |-> 0, copy |-> NoDispute]

\* A plan that creates no dispute starts with one, with or without its on-chain
\* id, and with a deadline to come or passed.
Init ==
  /\ plan \in Plans
  /\ \E recorded \in BOOLEAN :
       IF \E r \in Requests : plan[r].op = "create"
         THEN dispute = [d \in Ids |-> NoDispute]
         ELSE dispute = [d \in Ids |-> IF d = 1 THEN [NewDispute(1, 0) EXCEPT !.chainId = recorded]
                                              ELSE NoDispute]
  /\ onChain \in BOOLEAN
  /\ clock \in {[d \in Ids |-> IF d \in Rows THEN c ELSE "far"] : c \in {"far", "past"}}
  /\ open = {}
  /\ votes = {}
  /\ request = [r \in Requests |-> NewRequest]
  /\ sla = [d \in Ids |-> NoDispute]
  /\ pass = "idle" /\ repairs = {}
  /\ incidents = 0
  /\ overrun = {} /\ untallied = {}

Incident == incidents < MaxIncidents /\ incidents' = incidents + 1

FreeId == CHOOSE d \in Ids \ Rows : \A e \in Ids \ Rows : d <= e

Calls(r, op, pc) == plan[r].op = op /\ request[r].pc = pc
Goto(r, pc) == request' = [request EXCEPT ![r].pc = pc]
End(r) == request' = [request EXCEPT ![r] = [NewRequest EXCEPT !.pc = "done"]]
Load(r, d, pc) ==
  request' = [request EXCEPT ![r] = [pc |-> pc, id |-> d, copy |-> dispute[d]]]

\* save of row d, read as old.  A save that moves the row to another SLA stage
\* moves its deadline: into the future, or back to the one that has passed.
SaveRow(d, old, new) ==
  /\ dispute' = [dispute EXCEPT ![d] = new]
  /\ clock' = [clock EXCEPT ![d] = CASE new.stage = dispute[d].stage -> @
                                    [] new.stage = "escalated" -> "far"
                                    [] OTHER -> "past"]
  /\ overrun' = IF old = dispute[d] THEN overrun ELSE overrun \cup {d}

quorumForTier(tier) == QUORUM * MULTIPLIER ^ (tier - 1)

-----------------------------------------------------------------------------
(* create: nothing but the check keeps a market from having two disputes. *)

CreateCheck(r) ==
  /\ Calls(r, "create", "new")
  /\ IF Rows = {} THEN Goto(r, "insert") ELSE End(r)
  /\ UNCHANGED <<plan, time, dispute, votes, onChain, jobs, incidents, history>>

CreateSave(r) ==
  /\ Calls(r, "create", "insert")
  /\ dispute' = [dispute EXCEPT ![FreeId] = NewDispute(1, 0)]
  /\ request' = [request EXCEPT ![r].pc = "record", ![r].id = FreeId]
  /\ UNCHANGED <<plan, time, votes, onChain, jobs, incidents, history>>

\* recordDisputeOnChain, after the answer has been sent: raiseDispute answers
\* with the market's id, which the row gets.
RecordDispute(r) ==
  /\ Calls(r, "create", "record")
  /\ dispute' = [dispute EXCEPT ![request[r].id].chainId = TRUE]
  /\ End(r)
  /\ UNCHANGED <<plan, time, votes, onChain, jobs, incidents, history>>

-----------------------------------------------------------------------------
(* resolve and assignArbiter: read the row, save the copy. *)

PendingRead(r) ==
  /\ plan[r].op \in {"resolve", "assign"} /\ request[r].pc = "new"
  /\ \E d \in Rows :
       IF dispute[d].status = "pending" THEN Load(r, d, "save") ELSE End(r)
  /\ UNCHANGED <<plan, time, dispute, votes, onChain, jobs, incidents, history>>

Resolve(r) ==
  /\ Calls(r, "resolve", "save")
  /\ SaveRow(request[r].id, request[r].copy, [request[r].copy EXCEPT
       !.status = "resolved", !.resolution = plan[r].verdict, !.admin = TRUE])
  /\ open' = open \cup {request[r].id}
  /\ Goto(r, "lookup")
  /\ UNCHANGED <<plan, votes, onChain, jobs, incidents, untallied>>

\* recordResolutionOnChain, after the answer: nothing is recorded when the
\* row has no on-chain id yet.
RecordResolution(r) ==
  \/ /\ Calls(r, "resolve", "lookup")
     /\ IF dispute[request[r].id].chainId THEN Goto(r, "update") ELSE End(r)
     /\ UNCHANGED <<plan, time, dispute, votes, onChain, jobs, incidents, history>>
  \/ /\ Calls(r, "resolve", "update")
     /\ dispute' = [dispute EXCEPT ![request[r].id].chainTx = TRUE]
     /\ End(r)
     /\ UNCHANGED <<plan, time, votes, onChain, jobs, incidents, history>>

AssignArbiter(r) ==
  /\ Calls(r, "assign", "save")
  /\ SaveRow(request[r].id, request[r].copy, [request[r].copy EXCEPT !.arbiter = TRUE])
  /\ End(r)
  /\ UNCHANGED <<plan, open, votes, onChain, jobs, incidents, untallied>>

-----------------------------------------------------------------------------
(* castVote *)

VoteRead(r) ==
  /\ Calls(r, "vote", "new")
  /\ \E d \in Rows :
       IF dispute[d].status = "pending" THEN Load(r, d, "check") ELSE End(r)
  /\ UNCHANGED <<plan, time, dispute, votes, onChain, jobs, incidents, history>>

\* A dispute and the lower tiers it was escalated from.
getChainDisputeIds(d) ==
  LET up[n \in 0..MaxDisputes] ==
        IF n = 0 THEN {d} ELSE up[n - 1] \cup ({dispute[e].from : e \in up[n - 1]} \ {0})
  IN  up[MaxDisputes]

VoteCheck(r) ==
  /\ Calls(r, "vote", "check")
  /\ IF \E v \in votes : v.voter = plan[r].voter /\ v.id \in getChainDisputeIds(request[r].id)
       THEN End(r) ELSE Goto(r, "cast")
  /\ UNCHANGED <<plan, time, dispute, votes, onChain, jobs, incidents, history>>

\* The unique index of the table refuses a second vote on the same row.
VoteSave(r) ==
  /\ Calls(r, "vote", "cast")
  /\ LET d == request[r].id IN
       IF \E v \in votes : v.voter = plan[r].voter /\ v.id = d
         THEN End(r) /\ UNCHANGED votes
         ELSE /\ votes' = votes \cup {[id |-> d, voter |-> plan[r].voter, outcome |-> plan[r].outcome]}
              /\ Goto(r, "tally")
  /\ UNCHANGED <<plan, time, dispute, onChain, jobs, incidents, history>>

VotesOf(d) == {v \in votes : v.id = d}
WeightOf(vs) == MapThenSumSet(LAMBDA v : Weight[v.voter], vs)
For(d, outcome) == WeightOf({v \in VotesOf(d) : v.outcome = outcome})

\* Mutant: one address, one vote.
Majority_Count(d) ==
  LET voters(outcome) == Cardinality({v \in VotesOf(d) : v.outcome = outcome})
  IN  IF voters("overturned") > voters("upheld") THEN "overturned" ELSE "upheld"

\* Ties favour the status quo.
Majority(d) ==
  IF For(d, "overturned") > For(d, "upheld") THEN "overturned" ELSE "upheld"

\* tryFinalizeByQuorum: read the votes, then save the row read at the start.
Tally(r) ==
  /\ Calls(r, "vote", "tally")
  /\ LET d == request[r].id IN
       IF WeightOf(VotesOf(d)) < quorumForTier(request[r].copy.tier)
         THEN End(r)
         ELSE request' = [request EXCEPT ![r].pc = "finalize", ![r].copy = [@ EXCEPT
                            !.status = "resolved", !.resolution = Majority(d)]]
  /\ UNCHANGED <<plan, time, dispute, votes, onChain, jobs, incidents, history>>

Finalize(r) ==
  /\ Calls(r, "vote", "finalize")
  /\ LET old == [request[r].copy EXCEPT !.status = "pending", !.resolution = "none"] IN
       SaveRow(request[r].id, old, request[r].copy)
  /\ open' = open \cup {request[r].id}
  /\ End(r)
  /\ UNCHANGED <<plan, votes, onChain, jobs, incidents, untallied>>

-----------------------------------------------------------------------------
(* escalate *)

\* A resolved dispute within its window, or one that was marked as escalated
\* and has no next tier yet.
Escalatable(d) ==
  /\ dispute[d].tier < MAX_TIER
  /\ dispute[d].status = "resolved" => d \in open
  /\ dispute[d].status # "pending"

EscalateRead(r) ==
  /\ Calls(r, "escalate", "new")
  /\ \E d \in Rows : IF Escalatable(d) THEN Load(r, d, "check") ELSE End(r)
  /\ UNCHANGED <<plan, time, dispute, votes, onChain, jobs, incidents, history>>

EscalateCheck(r) ==
  /\ Calls(r, "escalate", "check")
  /\ IF \E d \in Rows : dispute[d].from = request[r].id THEN End(r) ELSE Goto(r, "mark")
  /\ UNCHANGED <<plan, time, dispute, votes, onChain, jobs, incidents, history>>

EscalateMark(r) ==
  /\ Calls(r, "escalate", "mark")
  /\ SaveRow(request[r].id, request[r].copy, [request[r].copy EXCEPT !.status = "escalated"])
  /\ Goto(r, "insert")
  /\ UNCHANGED <<plan, open, votes, onChain, jobs, incidents, untallied>>

\* Mutant: the next dispute stays on the tier it came from.
EscalateSave_SameTier(r) ==
  /\ Calls(r, "escalate", "insert")
  /\ dispute' = [dispute EXCEPT ![FreeId] = NewDispute(request[r].copy.tier, request[r].id)]
  /\ End(r)
  /\ UNCHANGED <<plan, time, votes, onChain, jobs, incidents, history>>

EscalateSave(r) ==
  /\ Calls(r, "escalate", "insert")
  /\ dispute' = [dispute EXCEPT ![FreeId] = NewDispute(request[r].copy.tier + 1, request[r].id)]
  /\ End(r)
  /\ UNCHANGED <<plan, time, votes, onChain, jobs, incidents, history>>

\* A statement or call fails or the process stops.
Stop(r) ==
  /\ request[r].pc \notin {"new", "done"}
  /\ Incident
  /\ untallied' = IF request[r].pc \in {"tally", "finalize"} THEN untallied \cup {request[r].id} ELSE untallied
  /\ End(r)
  /\ UNCHANGED <<plan, time, dispute, votes, onChain, jobs, overrun>>

-----------------------------------------------------------------------------
(* The SLA sweep *)

\* runSlaCheck reads every pending dispute before it looks at the first.
SlaFind ==
  /\ \A d \in Ids : sla[d] = NoDispute
  /\ \E d \in Rows : dispute[d].status = "pending"
  /\ Incident
  /\ sla' = [d \in Ids |->
       IF d \in Rows /\ dispute[d].status = "pending"
         THEN [row |-> dispute[d], clock |-> clock[d]] ELSE NoDispute]
  /\ UNCHANGED <<plan, dispute, time, votes, onChain, request, pass, repairs, history>>

\* evaluateDisputeSla: what is saved for a row whose deadline is near or past;
\* the first breach moves it to the next stage, later ones only repeat the notice.
Evaluated(row, deadline) ==
  CASE deadline = "near"                          -> [row EXCEPT !.notified = TRUE]
    [] deadline = "past" /\ row.breached          -> row
    [] deadline = "past" /\ ~row.breached         ->
         [row EXCEPT !.breached = TRUE, !.stage = "escalated",
                     !.notified = row.notified /\ row.stage = "escalated"]

SlaCheck(d) ==
  /\ sla[d] # NoDispute
  /\ sla' = [sla EXCEPT ![d] = NoDispute]
  /\ LET row == sla[d].row
         noticed == sla[d].clock = "past" \/ (sla[d].clock = "near" /\ ~row.notified) IN
     \/ noticed /\ SaveRow(d, row, Evaluated(row, sla[d].clock))
     \/ (~noticed \/ row.breached) /\ UNCHANGED <<dispute, clock, overrun>>
  /\ UNCHANGED <<plan, open, votes, onChain, request, pass, repairs, incidents, untallied>>

\* Time passes.
Pass(d) ==
  /\ d \in Rows
  /\ Incident
  /\ \/ /\ dispute[d].status = "pending" /\ clock[d] # "past"
        /\ clock' = [clock EXCEPT ![d] = IF @ = "far" THEN "near" ELSE "past"]
        /\ UNCHANGED open
     \/ d \in open /\ open' = open \ {d} /\ UNCHANGED clock
  /\ UNCHANGED <<plan, dispute, votes, onChain, request, jobs, history>>

-----------------------------------------------------------------------------
(* The reconciliation *)

\* reconcile reads the rows, then reconcileMarket reads the contract.
Reconcile ==
  /\ pass = "idle"
  /\ \E d \in Rows : ~dispute[d].chainId
  /\ pass' = "found"
  /\ repairs' = {d \in Rows : ~dispute[d].chainId}
  /\ UNCHANGED <<plan, time, dispute, votes, onChain, request, sla, incidents, history>>

\* The pass is over when the contract holds no dispute or cannot be read.
ReadContract ==
  /\ pass = "found"
  /\ \/ onChain /\ pass' = "known" /\ UNCHANGED <<repairs, incidents>>
     \/ ~onChain /\ pass' = "idle" /\ repairs' = {} /\ UNCHANGED incidents
     \/ onChain /\ pass' = "idle" /\ repairs' = {} /\ Incident
  /\ UNCHANGED <<plan, time, dispute, votes, onChain, request, sla, history>>

Repaired(d) ==
  /\ pass = "known" /\ d \in repairs
  /\ repairs' = repairs \ {d}
  /\ pass' = IF repairs = {d} THEN "idle" ELSE "known"

\* Mutant: only rows with a wrong id are corrected, not those without one.
ReconcileChainId_WrongOnly(d) ==
  /\ Repaired(d)
  /\ UNCHANGED <<plan, time, dispute, votes, onChain, request, sla, incidents, history>>

ReconcileChainId(d) ==
  /\ Repaired(d)
  /\ dispute' = [dispute EXCEPT ![d].chainId = TRUE]
  /\ UNCHANGED <<plan, time, votes, onChain, request, sla, incidents, history>>

-----------------------------------------------------------------------------
(* raise_dispute and resolve_dispute of the contract, called by wallets. *)

RaiseOnChain ==
  /\ ~onChain /\ onChain' = TRUE
  /\ Incident
  /\ UNCHANGED <<plan, time, dispute, votes, request, jobs, history>>

ResolveOnChain ==
  /\ onChain /\ onChain' = FALSE
  /\ Incident
  /\ UNCHANGED <<plan, time, dispute, votes, request, jobs, history>>

-----------------------------------------------------------------------------
Step(r) ==
  \/ CreateCheck(r) \/ CreateSave(r) \/ RecordDispute(r)
  \/ PendingRead(r) \/ Resolve(r) \/ RecordResolution(r) \/ AssignArbiter(r)
  \/ VoteRead(r) \/ VoteCheck(r) \/ VoteSave(r) \/ Tally(r) \/ Finalize(r)
  \/ EscalateRead(r) \/ EscalateCheck(r) \/ EscalateMark(r) \/ EscalateSave(r)
  \/ Stop(r)

Reconciliation == Reconcile \/ ReadContract \/ \E d \in Ids : ReconcileChainId(d)

Next ==
  \/ \E r \in Requests : Step(r)
  \/ SlaFind \/ \E d \in Ids : SlaCheck(d) \/ Pass(d)
  \/ Reconciliation
  \/ RaiseOnChain \/ ResolveOnChain

\* The reconciliation is a cron job.
Spec == Init /\ [][Next]_vars /\ WF_vars(Reconciliation)

-----------------------------------------------------------------------------
(* Properties. *)

\* Rows, votes and requests keep their types, and a row escalated from
\* another is one tier above it.
TypeOK ==
  /\ \A d \in Rows :
       /\ dispute[d] \in Dispute
       /\ dispute[d].from # 0 => dispute[d].tier = dispute[dispute[d].from].tier + 1
  /\ votes \subseteq [id : Ids, voter : Voters, outcome : Verdicts]
  /\ onChain \in BOOLEAN /\ pass \in {"idle", "found", "known"}
  /\ clock \in [Ids -> {"far", "near", "past"}] /\ open \subseteq Rows
  /\ repairs \subseteq Rows
  /\ incidents \in 0..MaxIncidents

\* "A given wallet address may vote at most once across the entire escalation
\* chain (this tier plus every lower tier it escalated from)" (castVote).
OneVotePerAddress ==
  LET from == [d, e \in Ids |-> d \in Rows /\ dispute[d].from = e]
      above == ReflexiveTransitiveClosure(from, Ids)
  IN  \A v, w \in votes : v.voter = w.voter /\ above[v.id, w.id] => v = w

\* A tier decided by votes had its quorum, and its verdict is the one with the
\* greater weight among all the votes cast - once nobody is still counting,
\* and unless a save with a stale copy came between (tryFinalizeByQuorum).
VerdictOfTheVotes ==
  \A d \in Rows \ (overrun \cup untallied) :
    /\ dispute[d].resolution # "none" /\ ~dispute[d].admin
    /\ \A r \in Requests : plan[r].op = "vote" /\ request[r].id = d => request[r].pc \notin {"tally", "finalize"}
    => /\ WeightOf(VotesOf(d)) >= quorumForTier(dispute[d].tier)
       /\ dispute[d].resolution = "overturned" <=> For(d, "overturned") > For(d, "upheld")

\* A row without its on-chain id gets it back as long as the contract keeps
\* the dispute, even when the recording failed, a stale save removed the id or
\* the dispute was raised by a wallet (reconcileMarket, reconcileChainId).
ChainIdRestored ==
  \A d \in Ids : (onChain /\ d \in Rows) ~> (~onChain \/ (d \in Rows /\ dispute[d].chainId))
=============================================================================
