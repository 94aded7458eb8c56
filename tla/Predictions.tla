----------------------------- MODULE Predictions -----------------------------
(***************************************************************************)
(* Predictions of the backend (predictions/predictions.service.ts): single *)
(* submissions, slips of several, notes, claims and an admin's resolution, *)
(* each of which reads the database, calls the contract's client and       *)
(* writes the database; next to them the listener of                       *)
(* soroban/soroban.listener.ts, which brings the contract's events into    *)
(* the same tables.                                                        *)
(*                                                                         *)
(* A step is one statement, one call of the client or one transaction;     *)
(* requests and the listener interleave between them.  repository.save of  *)
(* a loaded entity writes every column that differs from the stored row,   *)
(* so it replaces the row by the copy.                                     *)
(*                                                                         *)
(* At this commit submitPrediction, claimPayout and resolveMarket of       *)
(* soroban.service.ts send no transaction: they answer with a made-up hash *)
(* and fixed amounts, or throw.  What happens on chain is what wallets     *)
(* call on the open-market contract themselves; getEvents really reads it. *)
(***************************************************************************)
EXTENDS Integers, Sequences, FiniteSets, Functions

CONSTANTS
  Users, Markets, Outcomes,
  Requests,        \* names of the API calls
  Plans,           \* what they are: functions from Requests to calls
  NoRow, NoOutcome,
  PAGE,            \* the limit of getEvents: 200 events
  Wallets,         \* bound: the users who call the contract themselves
  MaxEvents,       \* bound: events of the contract, for every plan
  MaxFailures      \* bound: statements, calls and transactions that fail

MarketRow ==
  [is_resolved : BOOLEAN, resolved_outcome : Outcomes \cup {NoOutcome},
   participant_count : Nat, total_pool_stroops : Nat]

\* The clientIdempotencyKeys that calls carry.
Keys == UNION {{p[r].items[k].key : k \in 1..Len(p[r].items)} : p \in Plans, r \in Requests}

PredictionRow ==
  [chosen_outcome : Outcomes, stake : Nat, clientIdempotencyKey : Keys,
   payout_claimed : BOOLEAN, note : BOOLEAN]

ASSUME NamesAssumption ==
  NoOutcome \notin Outcomes /\ NoRow \notin MarketRow \cup PredictionRow

ASSUME LimitsAssumption == MaxFailures \in Nat /\ MaxEvents \in [Plans -> Nat] /\ PAGE \in Nat \ {0}

\* Users stake amounts on markets; only a slip and claimAllRewards may carry
\* another number of items than one.
ASSUME PlansAssumption ==
  \A p \in Plans, r \in Requests :
    /\ p[r].user \in Users
    /\ Len(p[r].items) \in Nat
    /\ \A k \in 1..Len(p[r].items) :
         p[r].items[k].market \in Markets /\ p[r].items[k].stake \in Nat
    /\ p[r].kind \in {"submit", "note", "claim", "resolve"} => Len(p[r].items) = 1

VARIABLES
  plan,         \* the calls that are made
  market,       \* market rows: is_resolved, resolved_outcome and the totals
  prediction,   \* prediction rows by user and market, or NoRow
  account,      \* the totals of every user row
  phase,        \* "open", "ended" (end_time has passed) or "resolved" on chain
  holders,      \* users and markets with a position on chain
  paid,         \* users and markets paid on chain
  events,       \* the contract's events so far
  listener,     \* last processed event, position, end and latest of the poll, copy
  request,      \* where every API call is
  failures,
  lost,         \* history: rows replaced by a copy read before they changed
  missed        \* history: payouts whose event the listener passed over

vars == <<plan, market, prediction, account, phase, holders, paid, events,
          listener, request, failures, lost, missed>>

chain == <<phase, holders, paid, events>>
tables == <<market, prediction, account>>

-----------------------------------------------------------------------------
(* Types and initial state. *)

Pairs == Users \X Markets

NewMarket ==
  [is_resolved |-> FALSE, resolved_outcome |-> NoOutcome,
   participant_count |-> 0, total_pool_stroops |-> 0]

\* i: the item a submission sends; sent, failed: the items that were;
\* copy: the row a claim, a note or a resolution has read; todo: markets still to claim.
NewRequest ==
  [pc |-> "new", i |-> 1, open |-> {}, sent |-> {}, failed |-> {}, copy |-> NoRow,
   todo |-> {}, result |-> "none"]

Init ==
  /\ plan \in Plans
  /\ market = [m \in Markets |-> NewMarket]
  /\ prediction = [p \in Pairs |-> NoRow]
  /\ account = [u \in Users |-> [total_predictions |-> 0, total_staked_stroops |-> 0]]
  /\ phase = [m \in Markets |-> "open"]
  /\ holders = {} /\ paid = {} /\ events = <<>>
  /\ listener = [cursor |-> 0, pos |-> 0, upto |-> 0, latest |-> 0, copy |-> NoRow]
  /\ request = [r \in Requests |-> NewRequest]
  /\ failures = 0 /\ lost = {} /\ missed = {}

-----------------------------------------------------------------------------
(* Helpers. *)

Items(r) == plan[r].items
Indices(r) == 1..Len(Items(r))
Pair(r, k) == <<plan[r].user, Items(r)[k].market>>
Rows == {p \in Pairs : prediction[p] # NoRow}
KeyUsed(key) == \E p \in Rows : prediction[p].clientIdempotencyKey = key

At(r, kind, pc) == plan[r].kind = kind /\ request[r].pc = pc
Goto(r, pc) == request' = [request EXCEPT ![r].pc = pc]
Finish(r, result) ==
  request' = [request EXCEPT ![r] = [NewRequest EXCEPT
                !.pc = "done", !.sent = request[r].sent,
                !.failed = request[r].failed, !.result = result]]

\* What the code checks of a market before it goes on chain.
Accepting(item) ==
  /\ phase[item.market] = "open" /\ ~market[item.market].is_resolved
  /\ item.outcome \in Outcomes

Won(p) ==
  /\ prediction[p] # NoRow /\ market[p[2]].is_resolved
  /\ market[p[2]].resolved_outcome = prediction[p].chosen_outcome

Stale(name, old, new) == IF old = new THEN {} ELSE {name}

-----------------------------------------------------------------------------
(* submit: three reads, the contract call, the transaction. *)

SubmitLoad(r) ==
  /\ At(r, "submit", "new")
  /\ IF Accepting(Items(r)[1]) THEN Goto(r, "byKey") ELSE Finish(r, "rejected")
  /\ UNCHANGED <<plan, tables, chain, listener, failures, lost, missed>>

\* A prediction with the same client key is returned as the answer.
SubmitByKey(r) ==
  /\ At(r, "submit", "byKey")
  /\ IF KeyUsed(Items(r)[1].key) THEN Finish(r, "replayed") ELSE Goto(r, "byMarket")
  /\ UNCHANGED <<plan, tables, chain, listener, failures, lost, missed>>

SubmitByMarket(r) ==
  /\ At(r, "submit", "byMarket")
  /\ IF Pair(r, 1) \in Rows THEN Finish(r, "rejected") ELSE Goto(r, "sending")
  /\ UNCHANGED <<plan, tables, chain, listener, failures, lost, missed>>

-----------------------------------------------------------------------------
(* submitBatch: bulk reads, validation, one contract call per item. *)

SlipLoad(r) ==
  /\ At(r, "slip", "new")
  /\ request' = [request EXCEPT ![r].pc = "existing",
                   ![r].open = {k \in Indices(r) : Accepting(Items(r)[k])}]
  /\ UNCHANGED <<plan, tables, chain, listener, failures, lost, missed>>

\* The predictions of the user on these markets are loaded without their
\* market relation, and then asked for their market's id: one is enough to
\* make the whole request fail.
SlipExisting(r) ==
  /\ At(r, "slip", "existing")
  /\ IF \E k \in Indices(r) : Pair(r, k) \in Rows THEN Finish(r, "error") ELSE Goto(r, "byKey")
  /\ UNCHANGED <<plan, tables, chain, listener, failures, lost, missed>>

\* getBatchItemFailure, in the order of the items: a market already seen in
\* the slip, a key already seen (with an item that was let through), a key
\* already used.
ValidItems(r) ==
  LET item(k) == Items(r)[k]
      first == {k \in request[r].open :
                  \A j \in request[r].open : j < k => item(j).market # item(k).market}
  IN  {k \in first : /\ \A j \in first : j < k => item(j).key # item(k).key
                     /\ ~KeyUsed(item(k).key)}

SlipValidate(r) ==
  /\ At(r, "slip", "byKey")
  /\ LET bad == Indices(r) \ ValidItems(r) IN
       IF plan[r].atomic /\ bad # {}
         THEN Finish(r, "rejected")
         ELSE request' = [request EXCEPT ![r].pc = "sending", ![r].failed = bad]
  /\ UNCHANGED <<plan, tables, chain, listener, failures, lost, missed>>

\* Mutant: the atomic slip goes on after a failed item.
ItemFailed_GoesOn(r) ==
  LET k == request[r].i IN
    request' = [request EXCEPT ![r].i = k + 1, ![r].failed = @ \cup {k}]

\* Mutant: the result of the contract call is kept before the bounds are checked.
ItemFailed_Kept(r) ==
  LET k == request[r].i IN
    request' = [request EXCEPT ![r].i = k + 1, ![r].failed = @ \cup {k}, ![r].sent = @ \cup {k}]

\* What a failed item does: a single submission and an atomic slip end, a
\* best-effort slip goes on with the next item.
ItemFailed(r) ==
  LET k == request[r].i IN
    IF plan[r].kind = "submit" THEN Finish(r, "rejected")
    ELSE IF plan[r].atomic THEN Finish(r, "rolledback")
    ELSE request' = [request EXCEPT ![r].i = k + 1, ![r].failed = @ \cup {k}]

ItemSent(r) ==
  LET k == request[r].i IN
    request' = [request EXCEPT ![r].i = k + 1, ![r].sent = @ \cup {k}]

\* sorobanService.submitPrediction.  The bounds of the item are checked
\* afterwards, on what the call returned.
ChainSubmit(r) ==
  LET k == request[r].i IN
  /\ request[r].pc = "sending" /\ k \in Indices(r) \ request[r].failed
  /\ \/ ItemSent(r)
     \/ Items(r)[k].bounded /\ ItemFailed(r)
  /\ UNCHANGED <<plan, tables, chain, listener, failures, lost, missed>>

ChainFails(r) ==
  /\ request[r].pc = "sending" /\ request[r].i \in Indices(r) \ request[r].failed
  /\ failures < MaxFailures /\ failures' = failures + 1
  /\ ItemFailed(r)
  /\ UNCHANGED <<plan, tables, chain, listener, lost, missed>>

SkipFailed(r) ==
  /\ request[r].pc = "sending" /\ request[r].i \in request[r].failed
  /\ request' = [request EXCEPT ![r].i = @ + 1]
  /\ UNCHANGED <<plan, tables, chain, listener, failures, lost, missed>>

\* Mutant: every item of the slip is counted.
Counted_All(r) == Indices(r)

\* The items a transaction counts in the user's totals.
Counted(r) == request[r].sent

\* The items a transaction stores.
Saved(r) == request[r].sent

Stakes(r, ks) == SumFunction([k \in ks |-> Items(r)[k].stake])

NewPrediction(item) ==
  [chosen_outcome |-> item.outcome, stake |-> item.stake, clientIdempotencyKey |-> item.key,
   payout_claimed |-> FALSE, note |-> FALSE]

Persistable(r) ==
  \A k \in Saved(r) : Pair(r, k) \notin Rows /\ ~KeyUsed(Items(r)[k].key)

\* One transaction: the rows, the totals of their markets (incremented in the
\* database) and of the user.  A unique constraint undoes all of it.
Save(r) ==
  /\ request[r].pc = "sending" /\ request[r].i > Len(Items(r))
  /\ IF Persistable(r)
       THEN LET of(p) == {k \in Saved(r) : Pair(r, k) = p}
                in(m) == {k \in Saved(r) : Items(r)[k].market = m} IN
            /\ prediction' = [p \in Pairs |->
                 IF of(p) = {} THEN prediction[p] ELSE NewPrediction(Items(r)[CHOOSE k \in of(p) : TRUE])]
            /\ market' = [m \in Markets |-> [market[m] EXCEPT
                 !.participant_count = @ + Cardinality(in(m)),
                 !.total_pool_stroops = @ + Stakes(r, in(m))]]
            /\ account' = [account EXCEPT
                 ![plan[r].user].total_predictions = @ + Cardinality(Counted(r)),
                 ![plan[r].user].total_staked_stroops = @ + Stakes(r, Counted(r))]
            /\ Finish(r, "ok")
       ELSE Finish(r, "error") /\ UNCHANGED tables
  /\ UNCHANGED <<plan, chain, listener, failures, lost, missed>>

\* The transaction fails, or the process stops at any point of the request.
Stop(r) ==
  /\ request[r].pc \notin {"new", "done"}
  /\ failures < MaxFailures /\ failures' = failures + 1
  /\ Finish(r, "error")
  /\ UNCHANGED <<plan, tables, chain, listener, lost, missed>>

-----------------------------------------------------------------------------
(* updateNote *)

NoteRead(r) ==
  /\ At(r, "note", "new")
  /\ LET p == Pair(r, 1) IN
       IF p \in Rows
         THEN request' = [request EXCEPT ![r].pc = "writing", ![r].copy = prediction[p]]
         ELSE Finish(r, "rejected")
  /\ UNCHANGED <<plan, tables, chain, listener, failures, lost, missed>>

NoteSave(r) ==
  /\ At(r, "note", "writing")
  /\ LET p == Pair(r, 1) IN
     /\ prediction' = [prediction EXCEPT ![p] = [request[r].copy EXCEPT !.note = TRUE]]
     /\ lost' = lost \cup Stale(p, request[r].copy, prediction[p])
  /\ Finish(r, "ok")
  /\ UNCHANGED <<plan, market, account, chain, listener, failures, missed>>

-----------------------------------------------------------------------------
(* claim and claimAllRewards *)

\* claim is given one prediction; claimAllRewards lists the won, unclaimed
\* ones, and calls claim for each in turn.
ClaimList(r) ==
  /\ plan[r].kind \in {"claim", "claimAll"} /\ request[r].pc = "new"
  /\ LET mine == {m \in Markets : Won(<<plan[r].user, m>>)
                                  /\ ~prediction[<<plan[r].user, m>>].payout_claimed}
         todo == IF plan[r].kind = "claim" THEN {Items(r)[1].market} ELSE mine IN
       IF todo = {} THEN Finish(r, "rejected")
       ELSE request' = [request EXCEPT ![r].pc = "claiming", ![r].todo = todo]
  /\ UNCHANGED <<plan, tables, chain, listener, failures, lost, missed>>

\* The current claim ended: the next one, or the end.
NextClaim(r, m) ==
  IF request[r].todo = {m} THEN Finish(r, "ok")
  ELSE request' = [request EXCEPT ![r].pc = "claiming", ![r].todo = @ \ {m}, ![r].copy = NoRow]

\* Not found, already claimed, not resolved and not won are errors.
ClaimRead(r) ==
  /\ request[r].pc = "claiming"
  /\ LET m == CHOOSE x \in request[r].todo : TRUE
         p == <<plan[r].user, m>> IN
       IF Won(p) /\ ~prediction[p].payout_claimed
         THEN request' = [request EXCEPT ![r].pc = "paying", ![r].copy = prediction[p]]
         ELSE NextClaim(r, m)
  /\ UNCHANGED <<plan, tables, chain, listener, failures, lost, missed>>

\* sorobanService.claimPayout, which answers or throws.
ClaimPay(r) ==
  /\ request[r].pc = "paying"
  /\ \/ Goto(r, "recording") /\ UNCHANGED failures
     \/ /\ failures < MaxFailures /\ failures' = failures + 1
        /\ NextClaim(r, CHOOSE x \in request[r].todo : TRUE)
  /\ UNCHANGED <<plan, tables, chain, listener, lost, missed>>

ClaimSave(r) ==
  /\ request[r].pc = "recording"
  /\ LET m == CHOOSE x \in request[r].todo : TRUE
         p == <<plan[r].user, m>> IN
     /\ prediction' = [prediction EXCEPT ![p] = [request[r].copy EXCEPT !.payout_claimed = TRUE]]
     /\ lost' = lost \cup Stale(p, request[r].copy, prediction[p])
     /\ NextClaim(r, m)
  /\ UNCHANGED <<plan, market, account, chain, listener, failures, missed>>

-----------------------------------------------------------------------------
(* markets.service.ts resolveMarket: read, call the client, save the copy. *)

ResolveRead(r) ==
  /\ At(r, "resolve", "new")
  /\ LET item == Items(r)[1] IN
       IF ~market[item.market].is_resolved /\ item.outcome \in Outcomes
         THEN request' = [request EXCEPT ![r].pc = "resolving", ![r].copy = market[item.market]]
         ELSE Finish(r, "rejected")
  /\ UNCHANGED <<plan, tables, chain, listener, failures, lost, missed>>

ResolveSave(r) ==
  /\ At(r, "resolve", "resolving")
  /\ LET m == Items(r)[1].market IN
     /\ market' = [market EXCEPT ![m] = [request[r].copy EXCEPT
                     !.is_resolved = TRUE, !.resolved_outcome = Items(r)[1].outcome]]
     /\ lost' = lost \cup Stale(m, request[r].copy, market[m])
  /\ Finish(r, "ok")
  /\ UNCHANGED <<plan, prediction, account, chain, listener, failures, missed>>

-----------------------------------------------------------------------------
(* The contract, called by wallets.  Markets that no call of the plan      *)
(* names are left alone.                                                   *)

Named == UNION {{Items(r)[k].market : k \in Indices(r)} : r \in Requests}

Emit(type, p, o) ==
  /\ Len(events) < MaxEvents[plan]
  /\ events' = Append(events, [type |-> type, pair |-> p, outcome |-> o])

\* submit_prediction; submissions by allowance and revealed ones emit events
\* the listener does not know.
TakePosition(p) ==
  /\ phase[p[2]] = "open" /\ p \in (Wallets \X Named) \ holders
  /\ holders' = holders \cup {p}
  /\ \E type \in {"PredictionSubmitted", "other"} : Emit(type, p, NoOutcome)
  /\ UNCHANGED <<plan, tables, phase, paid, listener, request, failures, lost, missed>>

\* withdraw_position, or transfer_prediction to another user.
LeavePosition(p) ==
  /\ phase[p[2]] = "open" /\ p \in holders
  /\ \/ holders' = holders \ {p}
     \/ \E u \in Users : holders' = (holders \ {p}) \cup {<<u, p[2]>>}
  /\ Emit("other", p, NoOutcome)
  /\ UNCHANGED <<plan, tables, phase, paid, listener, request, failures, lost, missed>>


\* The end time passes.
End(m) ==
  /\ phase[m] = "open" /\ m \in Named
  /\ phase' = [phase EXCEPT ![m] = "ended"]
  /\ UNCHANGED <<plan, tables, holders, paid, events, listener, request, failures, lost, missed>>

\* resolve_market
Resolve(m) ==
  /\ phase[m] = "ended"
  /\ phase' = [phase EXCEPT ![m] = "resolved"]
  /\ \E o \in Outcomes : Emit("MarketResolved", <<"none", m>>, o)
  /\ UNCHANGED <<plan, tables, holders, paid, listener, request, failures, lost, missed>>

\* resolve_dispute upholds a dispute: the market is to be resolved again.
Reopen(m) ==
  /\ phase[m] = "resolved"
  /\ phase' = [phase EXCEPT ![m] = "ended"]
  /\ Emit("other", <<"none", m>>, NoOutcome)
  /\ UNCHANGED <<plan, tables, holders, paid, listener, request, failures, lost, missed>>

\* claim_payout by a winner.  (Whether a holder won is left open; a payout of
\* batch_distribute_payouts emits no PayoutClaimed.)
Pay(p) ==
  /\ phase[p[2]] = "resolved" /\ p \in holders \ paid
  /\ paid' = paid \cup {p}
  /\ \E type \in {"PayoutClaimed", "other"} : Emit(type, p, NoOutcome)
  /\ UNCHANGED <<plan, tables, phase, holders, listener, request, failures, lost, missed>>

-----------------------------------------------------------------------------
(* The listener *)

\* pollEvents: at most PAGE events after the last processed ledger, in their
\* order, and the latest ledger.
PollFetch ==
  /\ listener.upto = 0 /\ listener.cursor < Len(events)
  /\ LET last == listener.cursor + PAGE IN
       listener' = [listener EXCEPT !.pos = listener.cursor + 1, !.latest = Len(events),
                                    !.upto = IF last < Len(events) THEN last ELSE Len(events)]
  /\ UNCHANGED <<plan, tables, chain, request, failures, lost, missed>>

Current == events[listener.pos]
PollOver == [listener EXCEPT !.pos = 0, !.upto = 0, !.latest = 0, !.copy = NoRow]

PayoutsIn(ns) == {events[n].pair : n \in {k \in ns : events[k].type = "PayoutClaimed"}}

\* The current event is done, and passed over the payouts in skipped.  At the
\* end of the poll the cursor moves to the latest ledger, beyond the events
\* that did not fit in the page.
PollNext(skipped) ==
  IF listener.pos = listener.upto
    THEN /\ listener' = [PollOver EXCEPT !.cursor = listener.latest]
         /\ missed' = missed \cup skipped \cup PayoutsIn(listener.upto + 1 .. listener.latest)
    ELSE /\ listener' = [listener EXCEPT !.pos = @ + 1, !.copy = NoRow]
         /\ missed' = missed \cup skipped

Handling(type) == listener.upto > 0 /\ Current.type = type /\ listener.copy = NoRow

\* handlePredictionSubmitted: a known prediction is left alone.  Otherwise a
\* row is inserted without its clientIdempotencyKey, which the column refuses:
\* the poll ends with an error, and starts over from the cursor.
HandlePredictionSubmitted ==
  /\ Handling("PredictionSubmitted")
  /\ IF Current.pair \in Rows THEN PollNext({}) ELSE listener' = PollOver /\ UNCHANGED missed
  /\ UNCHANGED <<plan, tables, chain, request, failures, lost>>

\* Events of other types are skipped.
HandleOther ==
  /\ Handling("other")
  /\ PollNext({})
  /\ UNCHANGED <<plan, tables, chain, request, failures, lost>>

\* handleMarketResolved and handlePayoutClaimed: read, then save the copy.
\* The payout of a prediction that is not there is skipped.
HandleRead ==
  /\ \/ /\ Handling("MarketResolved")
        /\ listener' = [listener EXCEPT !.copy = market[Current.pair[2]]]
        /\ UNCHANGED missed
     \/ /\ Handling("PayoutClaimed") /\ Current.pair \in Rows
        /\ listener' = [listener EXCEPT !.copy = prediction[Current.pair]]
        /\ UNCHANGED missed
     \/ /\ Handling("PayoutClaimed") /\ Current.pair \notin Rows
        /\ PollNext({Current.pair})
  /\ UNCHANGED <<plan, tables, chain, request, failures, lost>>

HandleMarketResolved ==
  /\ listener.copy # NoRow /\ Current.type = "MarketResolved"
  /\ LET m == Current.pair[2] IN
     /\ market' = [market EXCEPT ![m] = [listener.copy EXCEPT
                     !.is_resolved = TRUE, !.resolved_outcome = Current.outcome]]
     /\ lost' = lost \cup Stale(m, listener.copy, market[m])
  /\ PollNext({})
  /\ UNCHANGED <<plan, prediction, account, chain, request, failures>>

\* Mutant: the event is only logged.
HandlePayoutClaimed_Logged ==
  /\ listener.copy # NoRow /\ Current.type = "PayoutClaimed"
  /\ PollNext({})
  /\ UNCHANGED <<plan, tables, chain, request, failures, lost>>

HandlePayoutClaimed ==
  /\ listener.copy # NoRow /\ Current.type = "PayoutClaimed"
  /\ LET p == Current.pair IN
     /\ prediction' = [prediction EXCEPT ![p] = [listener.copy EXCEPT !.payout_claimed = TRUE]]
     /\ lost' = lost \cup Stale(p, listener.copy, prediction[p])
  /\ PollNext({})
  /\ UNCHANGED <<plan, market, account, chain, request, failures>>

\* A statement fails or the process stops: the poll starts over.
PollFails ==
  /\ listener.upto > 0
  /\ failures < MaxFailures /\ failures' = failures + 1
  /\ listener' = PollOver
  /\ UNCHANGED <<plan, tables, chain, request, lost, missed>>

-----------------------------------------------------------------------------
Listen ==
  \/ PollFetch \/ HandlePredictionSubmitted \/ HandleOther \/ HandleRead
  \/ HandleMarketResolved \/ HandlePayoutClaimed

Contract ==
  \/ \E p \in Pairs : TakePosition(p) \/ LeavePosition(p) \/ Pay(p)
  \/ \E m \in Markets : End(m) \/ Resolve(m) \/ Reopen(m)

Submission(r) ==
  \/ SubmitLoad(r) \/ SubmitByKey(r) \/ SubmitByMarket(r)
  \/ SlipLoad(r) \/ SlipExisting(r) \/ SlipValidate(r)
  \/ ChainSubmit(r) \/ ChainFails(r) \/ SkipFailed(r) \/ Save(r)

Claiming(r) ==
  \/ NoteRead(r) \/ NoteSave(r)
  \/ ClaimList(r) \/ ClaimRead(r) \/ ClaimPay(r) \/ ClaimSave(r)
  \/ ResolveRead(r) \/ ResolveSave(r)

Next ==
  \/ \E r \in Requests : Submission(r) \/ Claiming(r) \/ Stop(r)
  \/ Contract
  \/ Listen \/ PollFails

\* The listener is a cron job; nothing else has to happen.
Spec == Init /\ [][Next]_vars /\ WF_vars(Listen)

-----------------------------------------------------------------------------
(* Properties. *)

\* The rows, the totals and the requests keep their types.
TypeOK ==
  /\ market \in [Markets -> MarketRow]
  /\ \A p \in Rows :
       /\ prediction[p].chosen_outcome \in Outcomes
       /\ prediction[p].payout_claimed \in BOOLEAN /\ prediction[p].note \in BOOLEAN
  /\ account \in [Users -> [total_predictions : Nat, total_staked_stroops : Nat]]
  /\ phase \in [Markets -> {"open", "ended", "resolved"}]
  /\ holders \subseteq Pairs /\ paid \subseteq Pairs /\ missed \subseteq Pairs
  /\ listener.cursor \in 0..Len(events) /\ listener.upto \in 0..Len(events)
  /\ \A r \in Requests :
       /\ request[r].sent \cap request[r].failed = {}
       /\ request[r].result \in {"none", "ok", "replayed", "rejected", "rolledback", "error"}
  /\ failures \in 0..MaxFailures

\* The totals of a market and of a user are those of the stored predictions:
\* concurrent submissions and slips are counted once each.  A market is left
\* out once handleMarketResolved or resolveMarket saved a copy read before its
\* totals changed.
TotalsMatch ==
  LET total(ps) == SumFunction([p \in ps |-> prediction[p].stake]) IN
  /\ \A m \in Markets \ lost : LET ps == {p \in Rows : p[2] = m} IN
       /\ market[m].participant_count = Cardinality(ps)
       /\ market[m].total_pool_stroops = total(ps)
  /\ \A u \in Users : LET ps == {p \in Rows : p[1] = u} IN
       /\ account[u].total_predictions = Cardinality(ps)
       /\ account[u].total_staked_stroops = total(ps)

\* All-or-nothing slips: whatever fails, and in whatever order, the database
\* holds every item of an atomic slip or none (documentation of submitBatch).
AllOrNothing ==
  \A r \in Requests :
    plan[r].kind = "slip" /\ plan[r].atomic =>
      LET there == {k \in Indices(r) : KeyUsed(Items(r)[k].key)} IN
        /\ there \in {{}, Indices(r)}
        /\ request[r].result = "ok" => there = Indices(r)

\* An event that the listener cannot get past.
Blocked ==
  \E n \in listener.cursor + 1 .. Len(events) :
    events[n].type = "PredictionSubmitted" /\ events[n].pair \notin Rows

\* A payout that a wallet claimed is eventually shown, whatever fails in
\* between, or the listener provably passed it over: its event did not fit in
\* a page or came before the row.  Left out are a listener that is blocked for
\* good and rows replaced by a stale copy (pollEvents, handlePayoutClaimed).
PaidShown ==
  \A p \in Pairs :
    \/ <>[]Blocked
    \/ (p \in PayoutsIn(1..Len(events)))
         ~> (p \in missed \cup lost \/ (p \in Rows /\ prediction[p].payout_claimed))
=============================================================================
