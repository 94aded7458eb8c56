------------------------- MODULE PredictionsProofs -------------------------
(***************************************************************************)
(* Theorems about Predictions, for any users, markets, outcomes, plans and *)
(* failures.                                                               *)
(***************************************************************************)
EXTENDS Predictions, SumLemmas, TLAPS

USE NamesAssumption, LimitsAssumption

-----------------------------------------------------------------------------
(* The inductive invariant. *)

Results == {"none", "ok", "replayed", "rejected", "rolledback", "error"}

Positions ==
  {"new", "byKey", "byMarket", "existing", "sending", "writing", "claiming", "paying",
   "recording", "resolving", "done"}

RequestState ==
  [pc : Positions,
   i : Nat, open : SUBSET Nat, sent : SUBSET Nat, failed : SUBSET Nat,
   copy : MarketRow \cup PredictionRow \cup {NoRow}, todo : SUBSET Markets, result : Results]

Event ==
  [type : {"PredictionSubmitted", "MarketResolved", "PayoutClaimed", "other"},
   pair : (Users \cup {"none"}) \X Markets, outcome : Outcomes \cup {NoOutcome}]

ListenerState ==
  [cursor : Nat, pos : Nat, upto : Nat, latest : Nat,
   copy : MarketRow \cup PredictionRow \cup {NoRow}]

Shape ==
  /\ plan \in Plans
  /\ prediction \in [Pairs -> PredictionRow \cup {NoRow}]
  /\ request \in [Requests -> RequestState]
  /\ events \in Seq(Event)
  /\ listener \in ListenerState

\* A copy that may replace the row of p: it differs from the row in its note
\* and in payout_claimed only.  (The rows are a parameter, to speak of them
\* before and after a step.)
Fits(rows, copy, p) ==
  /\ copy \in PredictionRow /\ p \in Pairs /\ rows[p] # NoRow
  /\ copy.chosen_outcome = rows[p].chosen_outcome /\ copy.stake = rows[p].stake
  /\ copy.clientIdempotencyKey = rows[p].clientIdempotencyKey

\* The payouts of events are those of users.
Paying(e) == e.type = "PayoutClaimed" => e.pair \in Pairs

\* The prediction a claim is at.
Target(r) == <<plan[r].user, CHOOSE x \in request[r].todo : TRUE>>

\* No two items but the bad ones are on one market.
OtherMarkets(r, bad) ==
  \A j, k \in Indices(r) \ bad : j # k => Items(r)[j].market # Items(r)[k].market

\* Where a submission is: it sends valid outcomes on different markets only.
SubmissionFits(r) ==
  /\ request[r].pc \in {"new", "byKey", "byMarket", "existing"} =>
       request[r].sent = {} /\ request[r].failed = {} /\ request[r].i = 1
  /\ request[r].pc \in {"byKey", "byMarket"} /\ plan[r].kind = "submit" =>
       Items(r)[1].outcome \in Outcomes
  /\ request[r].pc \in {"byKey", "existing"} /\ plan[r].kind = "slip" =>
       \A k \in request[r].open : k \in Indices(r) /\ Items(r)[k].outcome \in Outcomes
  /\ request[r].pc = "sending" =>
       /\ plan[r].kind \in {"submit", "slip"}
       /\ \A k \in Indices(r) \ request[r].failed : Items(r)[k].outcome \in Outcomes
       /\ OtherMarkets(r, request[r].failed)
       /\ \A k \in request[r].sent :
            k \in Indices(r) /\ k < request[r].i

\* Where a note, a claim or a resolution is: the copy it holds fits.
ClaimFits(r) ==
  /\ request[r].pc = "writing" =>
       plan[r].kind = "note" /\ Fits(prediction, request[r].copy, Pair(r, 1))
  /\ request[r].pc \in {"claiming", "paying", "recording"} =>
       plan[r].kind \in {"claim", "claimAll"} /\ request[r].todo # {}
  /\ request[r].pc \in {"paying", "recording"} =>
       Fits(prediction, request[r].copy, Target(r))
  /\ request[r].pc = "resolving" =>
       plan[r].kind = "resolve" /\ request[r].copy \in MarketRow /\ Items(r)[1].outcome \in Outcomes

RequestsFit ==
  \A r \in Requests :
    /\ request[r].pc # "done" => request[r].result = "none"
    /\ SubmissionFits(r) /\ ClaimFits(r)

ListenerFits ==
  /\ listener.upto > 0 =>
       listener.pos \in 1..listener.upto /\ listener.latest \in listener.upto..Len(events)
  /\ listener.copy # NoRow =>
       /\ listener.upto > 0
       /\ Current.type = "MarketResolved" => listener.copy \in MarketRow
       /\ Current.type = "PayoutClaimed" => Fits(prediction, listener.copy, Current.pair)

EventsFit == \A n \in 1..Len(events) : Paying(events[n])

IInv == TypeOK /\ Shape /\ RequestsFit /\ ListenerFits /\ EventsFit

-----------------------------------------------------------------------------
(* What every step keeps, and what follows from it. *)

\* Rows keep their outcome, stake and key; events stay.
Keeps ==
  /\ plan' = plan
  /\ \A p \in Pairs : prediction[p] # NoRow =>
       /\ prediction'[p] # NoRow
       /\ prediction'[p].chosen_outcome = prediction[p].chosen_outcome
       /\ prediction'[p].stake = prediction[p].stake
       /\ prediction'[p].clientIdempotencyKey = prediction[p].clientIdempotencyKey
  /\ Len(events') \in Nat /\ Len(events) <= Len(events')
  /\ \A n \in 1..Len(events) : events'[n] = events[n]

LEMMA PlanTypes ==
  ASSUME IInv, NEW r \in Requests
  PROVE  /\ plan[r].user \in Users /\ Len(Items(r)) \in Nat
         /\ \A k \in Indices(r) :
              /\ Items(r)[k].market \in Markets /\ Items(r)[k].stake \in Nat
              /\ Items(r)[k].key \in Keys /\ Pair(r, k) \in Pairs
         /\ plan[r].kind \in {"submit", "note", "claim", "resolve"} =>
              Len(Items(r)) = 1 /\ 1 \in Indices(r)
<1>1. plan \in Plans
  BY DEF IInv, Shape
<1>2. /\ plan[r].user \in Users
      /\ Len(plan[r].items) \in Nat
      /\ \A k \in 1..Len(plan[r].items) :
           plan[r].items[k].market \in Markets /\ plan[r].items[k].stake \in Nat
      /\ plan[r].kind \in {"submit", "note", "claim", "resolve"} => Len(plan[r].items) = 1
  BY <1>1, PlansAssumption
<1>3. ASSUME NEW k \in Indices(r) PROVE Items(r)[k].key \in Keys
  <2> DEFINE Mine == {plan[r].items[l].key : l \in 1..Len(plan[r].items)}
             All == {{p[q].items[l].key : l \in 1..Len(p[q].items)} : p \in Plans, q \in Requests}
  <2>1. Items(r)[k].key \in Mine
    BY <1>3 DEF Indices, Items
  <2>2. Mine \in All
    BY <1>1
  <2>3. Keys = UNION All
    BY DEF Keys
  <2> HIDE DEF Mine, All
  <2>4. QED
    BY <2>1, <2>2, <2>3
<1>4. \A k \in Indices(r) : Pair(r, k) \in Pairs
  BY <1>2 DEF Items, Indices, Pair, Pairs
<1>5. Len(Items(r)) = 1 => 1 \in Indices(r)
  BY DEF Indices
<1>6. QED
  BY <1>2, <1>3, <1>4, <1>5 DEF Items, Indices

LEMMA FitsKept ==
  ASSUME Keeps, NEW copy, NEW p, Fits(prediction, copy, p)
  PROVE  Fits(prediction', copy, p)
BY DEF Keeps, Fits

\* What a submission has sent.
LEMMA SentItems ==
  ASSUME IInv, NEW r \in Requests, request[r].pc = "sending", NEW k \in request[r].sent
  PROVE  /\ k \in Indices(r) /\ k < request[r].i /\ k \notin request[r].failed
         /\ Items(r)[k].outcome \in Outcomes /\ Pair(r, k) \in Pairs
<1>1. SubmissionFits(r)
  BY DEF IInv, RequestsFit
<1>2. k \in Indices(r) /\ k < request[r].i
  BY <1>1 DEF SubmissionFits
<1>3. k \notin request[r].failed
  BY DEF IInv, TypeOK
<1>4. Items(r)[k].outcome \in Outcomes
  BY <1>1, <1>2, <1>3 DEF SubmissionFits
<1>5. QED
  BY <1>2, <1>3, <1>4, PlanTypes

\* A request that does not move still fits.
LEMMA OtherRequest ==
  ASSUME IInv, Keeps, NEW r \in Requests, request'[r] = request[r]
  PROVE  SubmissionFits(r)' /\ ClaimFits(r)'
<1>1. SubmissionFits(r) /\ ClaimFits(r) /\ plan' = plan
  BY DEF IInv, RequestsFit, Keeps
<1>2. Items(r)' = Items(r) /\ Indices(r)' = Indices(r) /\ Target(r)' = Target(r)
      /\ \A k : Pair(r, k)' = Pair(r, k)
  BY <1>1 DEF Items, Indices, Target, Pair
<1>3. SubmissionFits(r)'
  <2>1. SubmissionFits(r)' <=>
          /\ request'[r].pc \in {"new", "byKey", "byMarket", "existing"} =>
               request'[r].sent = {} /\ request'[r].failed = {} /\ request'[r].i = 1
          /\ request'[r].pc \in {"byKey", "byMarket"} /\ plan'[r].kind = "submit" =>
               Items(r)[1].outcome \in Outcomes
          /\ request'[r].pc \in {"byKey", "existing"} /\ plan'[r].kind = "slip" =>
               \A k \in request'[r].open : k \in Indices(r) /\ Items(r)[k].outcome \in Outcomes
          /\ request'[r].pc = "sending" =>
               /\ plan'[r].kind \in {"submit", "slip"}
               /\ \A k \in Indices(r) \ request'[r].failed : Items(r)[k].outcome \in Outcomes
               /\ OtherMarkets(r, request'[r].failed)
               /\ \A k \in request'[r].sent : k \in Indices(r) /\ k < request'[r].i
    BY <1>1 DEF SubmissionFits, OtherMarkets, Items, Indices, Pair
  <2>2. QED
    BY <1>1, <2>1 DEF SubmissionFits
<1>4. ClaimFits(r)'
  <2>1. request[r].pc = "writing" => Fits(prediction', request[r].copy, Pair(r, 1))
    BY <1>1, FitsKept DEF ClaimFits
  <2>2. request[r].pc \in {"paying", "recording"} =>
          Fits(prediction', request[r].copy, Target(r))
    BY <1>1, FitsKept DEF ClaimFits
  <2>3. ClaimFits(r)' <=>
          /\ request'[r].pc = "writing" =>
               plan'[r].kind = "note" /\ Fits(prediction', request'[r].copy, Pair(r, 1))
          /\ request'[r].pc \in {"claiming", "paying", "recording"} =>
               plan'[r].kind \in {"claim", "claimAll"} /\ request'[r].todo # {}
          /\ request'[r].pc \in {"paying", "recording"} =>
               Fits(prediction', request'[r].copy, Target(r))
          /\ request'[r].pc = "resolving" =>
               /\ plan'[r].kind = "resolve" /\ request'[r].copy \in MarketRow
               /\ Items(r)[1].outcome \in Outcomes
    BY <1>2 DEF ClaimFits
  <2>4. QED
    BY <1>1, <2>1, <2>2, <2>3 DEF ClaimFits
<1>5. QED
  BY <1>3, <1>4

\* Request r moved, no other did, and r still fits.
Moved(r) ==
  /\ request' \in [Requests -> RequestState]
  /\ \A b \in Requests \ {r} : request'[b] = request[b]
  /\ request'[r].pc # "done" => request'[r].result = "none"
  /\ request'[r].sent \cap request'[r].failed = {}
  /\ SubmissionFits(r)' /\ ClaimFits(r)'

LEMMA MovedFits ==
  ASSUME IInv, Keeps, NEW r \in Requests, Moved(r)
  PROVE  /\ RequestsFit'
         /\ \A b \in Requests : /\ request'[b].sent \cap request'[b].failed = {}
                                /\ request'[b].result \in Results
<1>1. ASSUME NEW b \in Requests \ {r}
      PROVE  /\ request'[b].pc # "done" => request'[b].result = "none"
             /\ SubmissionFits(b)' /\ ClaimFits(b)'
             /\ request'[b].sent \cap request'[b].failed = {}
  BY <1>1, OtherRequest DEF Moved, IInv, RequestsFit, TypeOK
<1>2. \A b \in Requests : request'[b].result \in Results
  BY DEF Moved, RequestState
<1>3. QED
  BY <1>1, <1>2 DEF Moved, RequestsFit

LEMMA StandingFits ==
  ASSUME IInv, Keeps, request' = request
  PROVE  /\ RequestsFit'
         /\ \A b \in Requests : /\ request'[b].sent \cap request'[b].failed = {}
                                /\ request'[b].result \in Results
<1>1. \A b \in Requests : SubmissionFits(b)' /\ ClaimFits(b)'
  BY OtherRequest
<1>2. QED
  BY <1>1 DEF IInv, RequestsFit, TypeOK, Results

LEMMA ListenerStands ==
  ASSUME IInv, Keeps, listener' = listener
  PROVE  ListenerFits' /\ listener.cursor \in 0..Len(events') /\ listener.upto \in 0..Len(events')
<1>1. ListenerFits /\ listener \in ListenerState /\ Len(events) \in Nat
      /\ listener.cursor \in 0..Len(events) /\ listener.upto \in 0..Len(events)
  BY DEF IInv, Shape, TypeOK
<1>2. ASSUME listener.upto > 0
      PROVE  listener.pos \in 1..Len(events) /\ listener.latest \in listener.upto..Len(events')
  BY <1>1, <1>2 DEF ListenerFits, ListenerState, Keeps
<1>3. listener.upto > 0 => Current' = Current
  BY <1>2 DEF Current, Keeps
<1>4. listener.copy # NoRow /\ Current.type = "PayoutClaimed" =>
        Fits(prediction', listener.copy, Current.pair)
  BY <1>1, FitsKept DEF ListenerFits
<1>5. ListenerFits'
  BY <1>1, <1>2, <1>3, <1>4 DEF ListenerFits
<1>6. QED
  BY <1>1, <1>5 DEF Keeps

LEMMA EventsKept ==
  ASSUME IInv, Keeps, \A n \in (Len(events) + 1)..Len(events') : Paying(events'[n])
  PROVE  EventsFit'
<1> SUFFICES ASSUME NEW n \in 1..Len(events') PROVE Paying(events'[n])
  BY DEF EventsFit, Paying
<1>1. Len(events) \in Nat
  BY DEF IInv, Shape
<1>2. CASE n <= Len(events)
  BY <1>1, <1>2 DEF Keeps, IInv, EventsFit
<1>3. CASE n > Len(events)
  BY <1>1, <1>3 DEF Keeps
<1>4. QED
  BY <1>1, <1>2, <1>3 DEF Keeps

\* The columns and variables whose types no step disturbs but by its own
\* assignment.
Columns ==
  /\ market \in [Markets -> MarketRow]
  /\ account \in [Users -> [total_predictions : Nat, total_staked_stroops : Nat]]
  /\ phase \in [Markets -> {"open", "ended", "resolved"}]
  /\ holders \subseteq Pairs /\ paid \subseteq Pairs /\ missed \subseteq Pairs
  /\ failures \in 0..MaxFailures

\* The parts of the invariant after a step, put together.
LEMMA Together ==
  ASSUME Columns', Shape', RequestsFit', ListenerFits', EventsFit',
         listener'.cursor \in 0..Len(events'), listener'.upto \in 0..Len(events'),
         \A b \in Requests : /\ request'[b].sent \cap request'[b].failed = {}
                             /\ request'[b].result \in Results
  PROVE  IInv'
<1>1. \A p \in Rows' :
        /\ prediction'[p].chosen_outcome \in Outcomes
        /\ prediction'[p].payout_claimed \in BOOLEAN /\ prediction'[p].note \in BOOLEAN
  <2> DEFINE q == prediction'
  <2>1. q \in [Pairs -> PredictionRow \cup {NoRow}]
    BY DEF Shape
  <2> HIDE DEF q
  <2>2. \A p \in {x \in Pairs : q[x] # NoRow} :
        /\ q[p].chosen_outcome \in Outcomes
        /\ q[p].payout_claimed \in BOOLEAN /\ q[p].note \in BOOLEAN
    BY <2>1 DEF PredictionRow
  <2>3. QED
    BY <2>2 DEF q, Rows
<1>2. TypeOK'
  BY <1>1 DEF TypeOK, Columns, Results
<1>3. QED
  BY <1>2 DEF IInv

LEMMA NothingChanges ==
  ASSUME IInv, UNCHANGED <<plan, prediction, events>>
  PROVE  Keeps
<1>1. Len(events) \in Nat
  BY DEF IInv, Shape
<1>2. QED
  BY <1>1 DEF Keeps

\* A step of a request that leaves tables, chain and listener alone.
LEMMA QuietStep ==
  ASSUME IInv, NEW r \in Requests, Moved(r), UNCHANGED <<plan, tables, chain, listener, missed>>,
         failures' \in 0..MaxFailures
  PROVE  IInv'
<1>1. UNCHANGED <<plan, market, prediction, account, phase, holders, paid, events, listener, missed>>
  BY DEF tables, chain
<1>2. Keeps
  BY <1>1, NothingChanges
<1>3. Columns'
  BY <1>1 DEF IInv, TypeOK, Columns
<1>4. Shape'
  BY <1>1 DEF IInv, Shape, Moved
<1>5. EventsFit'
  BY <1>1 DEF IInv, EventsFit, Paying
<1>6. QED
  BY <1>1, <1>2, <1>3, <1>4, <1>5, MovedFits, ListenerStands, Together

\* A step of the listener, or of a market, that no request sees.
LEMMA RequestsStand ==
  ASSUME IInv, Keeps, Columns', Shape', ListenerFits', EventsFit', request' = request,
         listener'.cursor \in 0..Len(events'), listener'.upto \in 0..Len(events')
  PROVE  IInv'
BY StandingFits, Together

-----------------------------------------------------------------------------
(* How requests move. *)

LEMMA FinishMoves ==
  ASSUME IInv, NEW r \in Requests, NEW result \in Results, Finish(r, result)
  PROVE  Moved(r)
<1> DEFINE new == [NewRequest EXCEPT !.pc = "done", !.sent = request[r].sent,
                     !.failed = request[r].failed, !.result = result]
<1>1. request \in [Requests -> RequestState] /\ request[r] \in RequestState
  BY DEF IInv, Shape
<1>2. request[r].sent \in SUBSET Nat /\ request[r].failed \in SUBSET Nat
      /\ request[r].sent \cap request[r].failed = {}
  BY <1>1 DEF RequestState, IInv, TypeOK
<1>3. NewRequest \in RequestState
  BY DEF NewRequest, RequestState, Results, Positions
<1>4. new \in RequestState
  BY <1>2, <1>3 DEF RequestState, Positions
<1>5. request' = [request EXCEPT ![r] = new]
  BY DEF Finish
<1>6. new.pc = "done" /\ new.sent = request[r].sent /\ new.failed = request[r].failed
  BY <1>3 DEF RequestState
<1> HIDE DEF new
<1>7. request'[r] = new /\ \A b \in Requests \ {r} : request'[b] = request[b]
  BY <1>1, <1>5
<1>8. request' \in [Requests -> RequestState]
  BY <1>1, <1>4, <1>5
<1>9. SubmissionFits(r)' /\ ClaimFits(r)'
  BY <1>6, <1>7 DEF SubmissionFits, ClaimFits
<1>10. QED
  BY <1>2, <1>6, <1>7, <1>8, <1>9 DEF Moved

\* What Goto and the other updates of a request need to be a move.
LEMMA UpdateMoves ==
  ASSUME IInv, NEW r \in Requests, NEW new \in RequestState,
         request' = [request EXCEPT ![r] = new],
         new.result = request[r].result, new.pc # "done", request[r].pc # "done",
         new.sent \cap new.failed = {}, SubmissionFits(r)', ClaimFits(r)'
  PROVE  Moved(r)
<1>1. request \in [Requests -> RequestState]
  BY DEF IInv, Shape
<1>2. request'[r] = new /\ \A b \in Requests \ {r} : request'[b] = request[b]
  BY <1>1
<1>3. request' \in [Requests -> RequestState]
  BY <1>1
<1>4. request[r].result = "none"
  BY DEF IInv, RequestsFit
<1>5. QED
  BY <1>2, <1>3, <1>4 DEF Moved

LEMMA GotoSets ==
  ASSUME IInv, NEW r \in Requests, NEW pc \in Positions \ {"done"}, Goto(r, pc)
  PROVE  /\ request'[r].pc = pc
         /\ request'[r].sent = request[r].sent /\ request'[r].failed = request[r].failed
         /\ request'[r].i = request[r].i /\ request'[r].open = request[r].open
         /\ request'[r].copy = request[r].copy /\ request'[r].todo = request[r].todo
         /\ request'[r].result = request[r].result
         /\ request[r].pc # "done" /\ SubmissionFits(r)' /\ ClaimFits(r)' => Moved(r)
<1> DEFINE new == [request[r] EXCEPT !.pc = pc]
<1>1. request \in [Requests -> RequestState] /\ request[r] \in RequestState
      /\ request[r].sent \cap request[r].failed = {}
  BY DEF IInv, Shape, TypeOK
<1>2. request' = [request EXCEPT ![r] = new]
  BY DEF Goto
<1>3. new \in RequestState
  BY <1>1 DEF RequestState
<1>4. /\ new.pc = pc /\ new.sent = request[r].sent /\ new.failed = request[r].failed
      /\ new.i = request[r].i /\ new.open = request[r].open
      /\ new.copy = request[r].copy /\ new.todo = request[r].todo
      /\ new.result = request[r].result
  BY <1>1 DEF RequestState
<1> HIDE DEF new
<1>5. request'[r] = new
  BY <1>1, <1>2
<1>6. QED
  BY <1>1, <1>2, <1>3, <1>4, <1>5, UpdateMoves

-----------------------------------------------------------------------------
(* Submissions. *)

\* What the steps that only move a request leave alone.
Quiet == UNCHANGED <<plan, tables, chain, listener, missed>> /\ failures' \in 0..MaxFailures

LEMMA QuietFinish ==
  ASSUME IInv, NEW r \in Requests, NEW result \in Results, Finish(r, result), Quiet
  PROVE  IInv'
BY FinishMoves, QuietStep DEF Quiet

\* What a submission knows before it sends.
LEMMA BeforeSending ==
  ASSUME IInv, NEW r \in Requests, request[r].pc \in {"new", "byKey", "byMarket", "existing"}
  PROVE  request[r].sent = {} /\ request[r].failed = {} /\ request[r].i = 1
BY DEF IInv, RequestsFit, SubmissionFits

LEMMA SubmitLoadInv == ASSUME IInv, NEW r \in Requests, SubmitLoad(r) PROVE IInv'
<1>1. Quiet /\ plan' = plan
  BY DEF SubmitLoad, Quiet, IInv, TypeOK
<1>2. CASE Finish(r, "rejected")
  BY <1>1, <1>2, QuietFinish DEF Results
<1>3. CASE Accepting(Items(r)[1]) /\ Goto(r, "byKey")
  <2>1. plan[r].kind = "submit" /\ request[r].pc = "new" /\ Items(r)[1].outcome \in Outcomes
    BY <1>3 DEF SubmitLoad, At, Accepting
  <2>2. request'[r].pc = "byKey" /\ request'[r].sent = {} /\ request'[r].failed = {}
        /\ request'[r].i = 1
    BY <1>3, <2>1, GotoSets, BeforeSending DEF Positions
  <2>3. SubmissionFits(r)'
    BY <1>1, <2>1, <2>2 DEF SubmissionFits, Items
  <2>4. ClaimFits(r)'
    BY <2>2 DEF ClaimFits
  <2>5. Moved(r)
    BY <1>3, <2>1, <2>3, <2>4, GotoSets DEF Positions
  <2>6. QED
    BY <1>1, <2>5, QuietStep DEF Quiet
<1>4. QED
  BY <1>2, <1>3 DEF SubmitLoad

LEMMA SubmitByKeyInv == ASSUME IInv, NEW r \in Requests, SubmitByKey(r) PROVE IInv'
<1>1. Quiet /\ plan' = plan
  BY DEF SubmitByKey, Quiet, IInv, TypeOK
<1>2. CASE Finish(r, "replayed")
  BY <1>1, <1>2, QuietFinish DEF Results
<1>3. CASE Goto(r, "byMarket")
  <2>1. plan[r].kind = "submit" /\ request[r].pc = "byKey" /\ Items(r)[1].outcome \in Outcomes
    BY DEF SubmitByKey, At, IInv, RequestsFit, SubmissionFits
  <2>2. request'[r].pc = "byMarket" /\ request'[r].sent = {} /\ request'[r].failed = {}
        /\ request'[r].i = 1
    BY <1>3, <2>1, GotoSets, BeforeSending DEF Positions
  <2>3. SubmissionFits(r)'
    BY <1>1, <2>1, <2>2 DEF SubmissionFits, Items
  <2>4. ClaimFits(r)'
    BY <2>2 DEF ClaimFits
  <2>5. Moved(r)
    BY <1>3, <2>1, <2>3, <2>4, GotoSets DEF Positions
  <2>6. QED
    BY <1>1, <2>5, QuietStep DEF Quiet
<1>4. QED
  BY <1>2, <1>3 DEF SubmitByKey

LEMMA SubmitByMarketInv == ASSUME IInv, NEW r \in Requests, SubmitByMarket(r) PROVE IInv'
<1>1. Quiet /\ plan' = plan
  BY DEF SubmitByMarket, Quiet, IInv, TypeOK
<1>2. CASE Finish(r, "rejected")
  BY <1>1, <1>2, QuietFinish DEF Results
<1>3. CASE Goto(r, "sending")
  <2>1. plan[r].kind = "submit" /\ request[r].pc = "byMarket" /\ Items(r)[1].outcome \in Outcomes
    BY DEF SubmitByMarket, At, IInv, RequestsFit, SubmissionFits
  <2>2. request'[r].pc = "sending" /\ request'[r].sent = {} /\ request'[r].failed = {}
    BY <1>3, <2>1, GotoSets, BeforeSending DEF Positions
  <2>3. (\A k \in Indices(r) : Items(r)[k].outcome \in Outcomes) /\ OtherMarkets(r, {})
    <3>1. Len(Items(r)) = 1
      BY <2>1, PlanTypes
    <3>2. QED
      BY <2>1, <3>1 DEF Indices, OtherMarkets
  <2>4. SubmissionFits(r)'
    BY <1>1, <2>1, <2>2, <2>3 DEF SubmissionFits, OtherMarkets, Items, Indices
  <2>5. ClaimFits(r)'
    BY <2>2 DEF ClaimFits
  <2>6. Moved(r)
    BY <1>3, <2>1, <2>4, <2>5, GotoSets DEF Positions
  <2>7. QED
    BY <1>1, <2>6, QuietStep DEF Quiet
<1>4. QED
  BY <1>2, <1>3 DEF SubmitByMarket

LEMMA SlipLoadInv == ASSUME IInv, NEW r \in Requests, SlipLoad(r) PROVE IInv'
<1> DEFINE seen == {k \in Indices(r) : Accepting(Items(r)[k])}
           new == [request[r] EXCEPT !.pc = "existing", !.open = seen]
<1>1. Quiet /\ plan' = plan
  BY DEF SlipLoad, Quiet, IInv, TypeOK
<1>2. request[r] \in RequestState /\ request \in [Requests -> RequestState]
      /\ request[r].sent = {} /\ request[r].failed = {}
      /\ request[r].i = 1 /\ request[r].pc = "new"
  BY BeforeSending DEF IInv, Shape, SlipLoad, At
<1>3. request' = [request EXCEPT ![r] = new]
  BY <1>2 DEF SlipLoad
<1>4. \A k \in seen : k \in Nat /\ k \in Indices(r) /\ Items(r)[k].outcome \in Outcomes
  BY PlanTypes DEF Accepting, Indices
<1> HIDE DEF seen
<1>5. new \in RequestState
  BY <1>2, <1>4 DEF RequestState, Positions
<1>6. /\ new.pc = "existing" /\ new.open = seen /\ new.sent = {} /\ new.failed = {} /\ new.i = 1
      /\ new.result = request[r].result
  BY <1>2 DEF RequestState
<1> HIDE DEF new
<1>7. request'[r] = new
  BY <1>2, <1>3
<1>8. SubmissionFits(r)'
  BY <1>1, <1>4, <1>6, <1>7 DEF SubmissionFits, Items, Indices
<1>9. ClaimFits(r)'
  BY <1>6, <1>7 DEF ClaimFits
<1>10. Moved(r)
  BY <1>2, <1>3, <1>5, <1>6, <1>8, <1>9, UpdateMoves
<1>11. QED
  BY <1>1, <1>10, QuietStep DEF Quiet

LEMMA SlipExistingInv == ASSUME IInv, NEW r \in Requests, SlipExisting(r) PROVE IInv'
<1>1. Quiet /\ plan' = plan
  BY DEF SlipExisting, Quiet, IInv, TypeOK
<1>2. CASE Finish(r, "error")
  BY <1>1, <1>2, QuietFinish DEF Results
<1>3. CASE Goto(r, "byKey")
  <2>1. plan[r].kind = "slip" /\ request[r].pc = "existing"
        /\ \A k \in request[r].open : k \in Indices(r) /\ Items(r)[k].outcome \in Outcomes
    BY DEF SlipExisting, At, IInv, RequestsFit, SubmissionFits
  <2>2. request'[r].pc = "byKey" /\ request'[r].sent = {} /\ request'[r].failed = {}
        /\ request'[r].i = 1 /\ request'[r].open = request[r].open
    BY <1>3, <2>1, GotoSets, BeforeSending DEF Positions
  <2>3. SubmissionFits(r)'
    BY <1>1, <2>1, <2>2 DEF SubmissionFits, Items, Indices
  <2>4. ClaimFits(r)'
    BY <2>2 DEF ClaimFits
  <2>5. Moved(r)
    BY <1>3, <2>1, <2>3, <2>4, GotoSets DEF Positions
  <2>6. QED
    BY <1>1, <2>5, QuietStep DEF Quiet
<1>4. QED
  BY <1>2, <1>3 DEF SlipExisting

LEMMA SlipValidateInv == ASSUME IInv, NEW r \in Requests, SlipValidate(r) PROVE IInv'
<1> DEFINE bad == Indices(r) \ ValidItems(r)
           new == [request[r] EXCEPT !.pc = "sending", !.failed = bad]
<1>1. Quiet /\ plan' = plan
  BY DEF SlipValidate, Quiet, IInv, TypeOK
<1>2. CASE Finish(r, "rejected")
  BY <1>1, <1>2, QuietFinish DEF Results
<1>3. CASE request' = [request EXCEPT ![r].pc = "sending", ![r].failed = bad]
  <2>1. plan[r].kind = "slip" /\ request[r].pc = "byKey"
        /\ \A k \in request[r].open : k \in Indices(r) /\ Items(r)[k].outcome \in Outcomes
    BY DEF SlipValidate, At, IInv, RequestsFit, SubmissionFits
  <2>2. request[r] \in RequestState /\ request \in [Requests -> RequestState]
        /\ request[r].sent = {}
    BY <2>1, BeforeSending DEF IInv, Shape
  <2>3. request' = [request EXCEPT ![r] = new]
    BY <1>3, <2>2
  <2>4. (\A k \in Indices(r) \ bad : Items(r)[k].outcome \in Outcomes) /\ OtherMarkets(r, bad)
    <3>1. \A k \in Indices(r) \ bad :
            /\ k \in request[r].open
            /\ \A j \in request[r].open : j < k => Items(r)[j].market # Items(r)[k].market
      BY DEF ValidItems
    <3>2. \A j, k \in Indices(r) : j # k => j < k \/ k < j
      BY PlanTypes DEF Indices
    <3> HIDE DEF bad
    <3>3. QED
      BY <2>1, <3>1, <3>2 DEF OtherMarkets
  <2>5. bad \subseteq Nat
    BY PlanTypes DEF Indices
  <2> HIDE DEF bad
  <2>6. new \in RequestState
    BY <2>2, <2>5 DEF RequestState, Positions
  <2>7. /\ new.pc = "sending" /\ new.sent = {} /\ new.failed = bad
        /\ new.result = request[r].result
    BY <2>2 DEF RequestState
  <2> HIDE DEF new
  <2>8. request'[r] = new
    BY <2>2, <2>3
  <2>9. SubmissionFits(r)'
    BY <1>1, <2>1, <2>4, <2>7, <2>8 DEF SubmissionFits, OtherMarkets, Items, Indices
  <2>10. ClaimFits(r)'
    BY <2>7, <2>8 DEF ClaimFits
  <2>11. Moved(r)
    BY <2>1, <2>2, <2>3, <2>6, <2>7, <2>9, <2>10, UpdateMoves
  <2>12. QED
    BY <1>1, <2>11, QuietStep DEF Quiet
<1>4. QED
  BY <1>2, <1>3 DEF SlipValidate

\* A step of a request that leaves the listener alone.
LEMMA RequestStep ==
  ASSUME IInv, NEW r \in Requests, Keeps, Moved(r), Columns', listener' = listener,
         prediction' \in [Pairs -> PredictionRow \cup {NoRow}], events' \in Seq(Event),
         EventsFit'
  PROVE  IInv'
<1>1. Shape'
  BY DEF IInv, Shape, Keeps, Moved
<1>2. QED
  BY <1>1, MovedFits, ListenerStands, Together

\* An item fails: the submission ends, or goes on without it.
LEMMA ItemFailedMoves ==
  ASSUME IInv, Keeps, NEW r \in Requests, request[r].pc = "sending",
         request[r].i \in Indices(r) \ request[r].failed, ItemFailed(r)
  PROVE  Moved(r)
<1> DEFINE k == request[r].i
           new == [request[r] EXCEPT !.i = k + 1, !.failed = @ \cup {k}]
<1>1. CASE Finish(r, "rejected") \/ Finish(r, "rolledback")
  BY <1>1, FinishMoves DEF Results
<1>2. CASE request' = [request EXCEPT ![r].i = k + 1, ![r].failed = @ \cup {k}]
  <2>1. request[r] \in RequestState /\ request \in [Requests -> RequestState]
        /\ request[r].sent \cap request[r].failed = {} /\ SubmissionFits(r)
    BY DEF IInv, Shape, TypeOK, RequestsFit
  <2>2. request' = [request EXCEPT ![r] = new]
    BY <1>2, <2>1
  <2>3. k \in Nat
    BY <2>1 DEF RequestState
  <2>4. k \notin request[r].sent
    BY <2>1, <2>3 DEF SubmissionFits
  <2>5. new \in RequestState
    <3>1. k + 1 \in Nat /\ request[r].failed \cup {k} \in SUBSET Nat
      BY <2>1, <2>3 DEF RequestState
    <3>2. QED
      BY <2>1, <3>1 DEF RequestState
  <2>6. /\ new.pc = "sending" /\ new.sent = request[r].sent
        /\ new.failed = request[r].failed \cup {k} /\ new.i = k + 1
        /\ new.result = request[r].result
    BY <2>1 DEF RequestState
  <2> HIDE DEF new
  <2>7. request'[r] = new
    BY <2>1, <2>2
  <2>8. \A j \in request[r].sent : j \in Indices(r) /\ j < k + 1
    <3> SUFFICES ASSUME NEW j \in request[r].sent PROVE j \in Indices(r) /\ j < k + 1
      OBVIOUS
    <3>1. j \in Indices(r) /\ j < k
      BY SentItems
    <3>2. j \in Int
      BY <3>1, PlanTypes DEF Indices
    <3>3. QED
      BY <2>3, <3>1, <3>2
  <2>9. (\A j \in Indices(r) \ new.failed : Items(r)[j].outcome \in Outcomes)
        /\ OtherMarkets(r, new.failed)
    BY <2>1, <2>6 DEF SubmissionFits, OtherMarkets
  <2>10. SubmissionFits(r)'
    <3>1. plan' = plan /\ plan[r].kind \in {"submit", "slip"}
      BY <2>1 DEF Keeps, SubmissionFits
    <3>2. Items(r)' = Items(r) /\ Indices(r)' = Indices(r) /\ \A j : Pair(r, j)' = Pair(r, j)
      BY <3>1 DEF Items, Indices, Pair
    <3>3. QED
      BY <2>6, <2>7, <2>8, <2>9, <3>1, <3>2 DEF SubmissionFits, OtherMarkets, Pair
  <2>11. ClaimFits(r)'
    BY <2>6, <2>7 DEF ClaimFits
  <2>12. QED
    BY <2>1, <2>2, <2>4, <2>5, <2>6, <2>10, <2>11, UpdateMoves
<1>3. QED
  BY <1>1, <1>2 DEF ItemFailed

\* An item was sent.
LEMMA ItemSentMoves ==
  ASSUME IInv, Keeps, NEW r \in Requests, request[r].pc = "sending",
         request[r].i \in Indices(r) \ request[r].failed, ItemSent(r)
  PROVE  Moved(r)
<1> DEFINE k == request[r].i
           new == [request[r] EXCEPT !.i = k + 1, !.sent = @ \cup {k}]
<1>1. request[r] \in RequestState /\ request \in [Requests -> RequestState]
      /\ request[r].sent \cap request[r].failed = {} /\ SubmissionFits(r)
  BY DEF IInv, Shape, TypeOK, RequestsFit
<1>2. request' = [request EXCEPT ![r] = new]
  BY <1>1 DEF ItemSent
<1>3. k \in Nat
  BY <1>1 DEF RequestState
<1>4. new \in RequestState
  <2>1. k + 1 \in Nat /\ request[r].sent \cup {k} \in SUBSET Nat
    BY <1>1, <1>3 DEF RequestState
  <2>2. QED
    BY <1>1, <2>1 DEF RequestState
<1>5. /\ new.pc = "sending" /\ new.sent = request[r].sent \cup {k}
      /\ new.failed = request[r].failed /\ new.i = k + 1
      /\ new.result = request[r].result
  BY <1>1 DEF RequestState
<1> HIDE DEF new
<1>6. request'[r] = new
  BY <1>1, <1>2
<1>7. \A j \in new.sent : j \in Indices(r) /\ j < k + 1
  <2> SUFFICES ASSUME NEW j \in request[r].sent PROVE j \in Indices(r) /\ j < k + 1
    BY <1>3, <1>5
  <2>1. j \in Indices(r) /\ j < k
    BY SentItems
  <2>2. j \in Int
    BY <2>1, PlanTypes DEF Indices
  <2>3. QED
    BY <1>3, <2>1, <2>2
<1>8. (\A j \in Indices(r) \ new.failed : Items(r)[j].outcome \in Outcomes)
      /\ OtherMarkets(r, new.failed)
  BY <1>1, <1>5 DEF SubmissionFits
<1>9. SubmissionFits(r)'
  <2>1. plan' = plan /\ plan[r].kind \in {"submit", "slip"}
    BY <1>1 DEF Keeps, SubmissionFits
  <2>2. Items(r)' = Items(r) /\ Indices(r)' = Indices(r) /\ \A j : Pair(r, j)' = Pair(r, j)
    BY <2>1 DEF Items, Indices, Pair
  <2>3. QED
    BY <1>5, <1>6, <1>7, <1>8, <2>1, <2>2 DEF SubmissionFits, OtherMarkets, Pair
<1>10. ClaimFits(r)'
  BY <1>5, <1>6 DEF ClaimFits
<1>11. new.sent \cap new.failed = {}
  BY <1>1, <1>5
<1>12. QED
  BY <1>1, <1>2, <1>4, <1>5, <1>9, <1>10, <1>11, UpdateMoves

LEMMA ChainSubmitInv == ASSUME IInv, NEW r \in Requests, ChainSubmit(r) PROVE IInv'
<1>1. /\ request[r].pc = "sending" /\ request[r].i \in Indices(r) \ request[r].failed
      /\ ItemSent(r) \/ ItemFailed(r)
      /\ Quiet
  BY DEF ChainSubmit, Quiet, IInv, TypeOK
<1>2. Keeps
  BY <1>1, NothingChanges DEF Quiet, tables, chain
<1>3. QED
  BY <1>1, <1>2, ItemSentMoves, ItemFailedMoves, QuietStep DEF Quiet

LEMMA ChainFailsInv == ASSUME IInv, NEW r \in Requests, ChainFails(r) PROVE IInv'
<1>1. /\ request[r].pc = "sending" /\ request[r].i \in Indices(r) \ request[r].failed
      /\ ItemFailed(r) /\ Quiet
  BY DEF ChainFails, Quiet, IInv, TypeOK
<1>2. Keeps
  BY <1>1, NothingChanges DEF Quiet, tables, chain
<1>3. QED
  BY <1>1, <1>2, ItemFailedMoves, QuietStep DEF Quiet

LEMMA SkipFailedInv == ASSUME IInv, NEW r \in Requests, SkipFailed(r) PROVE IInv'
<1> DEFINE k == request[r].i
           new == [request[r] EXCEPT !.i = k + 1]
<1>1. request[r] \in RequestState /\ request \in [Requests -> RequestState]
      /\ request[r].sent \cap request[r].failed = {} /\ SubmissionFits(r)
      /\ request[r].pc = "sending" /\ UNCHANGED <<plan, tables, chain, listener, missed>>
      /\ failures' \in 0..MaxFailures
  BY DEF IInv, Shape, TypeOK, RequestsFit, SkipFailed
<1>2. request' = [request EXCEPT ![r] = new]
  BY <1>1 DEF SkipFailed
<1>3. k \in Nat
  BY <1>1 DEF RequestState
<1>4. new \in RequestState
  BY <1>1, <1>3 DEF RequestState
<1>5. /\ new.pc = "sending" /\ new.sent = request[r].sent
      /\ new.failed = request[r].failed /\ new.i = k + 1
      /\ new.result = request[r].result
  BY <1>1 DEF RequestState
<1> HIDE DEF new
<1>6. request'[r] = new
  BY <1>1, <1>2
<1>8. \A j \in new.sent : j \in Indices(r) /\ j < k + 1
  <2> SUFFICES ASSUME NEW j \in request[r].sent PROVE j \in Indices(r) /\ j < k + 1
    BY <1>3, <1>5
  <2>1. j \in Indices(r) /\ j < k
    BY <1>1, SentItems
  <2>2. j \in Int
    BY <2>1, PlanTypes DEF Indices
  <2>3. QED
    BY <1>3, <2>1, <2>2
<1>9. SubmissionFits(r)'
  <2>1. plan' = plan /\ plan[r].kind \in {"submit", "slip"}
        /\ (\A j \in Indices(r) \ new.failed : Items(r)[j].outcome \in Outcomes)
        /\ OtherMarkets(r, new.failed)
    BY <1>1, <1>5 DEF SubmissionFits
  <2>2. Items(r)' = Items(r) /\ Indices(r)' = Indices(r) /\ \A j : Pair(r, j)' = Pair(r, j)
    BY <2>1 DEF Items, Indices, Pair
  <2>3. QED
    BY <1>5, <1>6, <1>8, <2>1, <2>2 DEF SubmissionFits, OtherMarkets, Pair
<1>10. ClaimFits(r)'
  BY <1>5, <1>6 DEF ClaimFits
<1>11. QED
  BY <1>1, <1>2, <1>4, <1>5, <1>9, <1>10, UpdateMoves, QuietStep

LEMMA StopInv == ASSUME IInv, NEW r \in Requests, Stop(r) PROVE IInv'
<1>1. Quiet /\ Finish(r, "error")
  BY DEF Stop, Quiet, IInv, TypeOK
<1>2. QED
  BY <1>1, QuietFinish DEF Results

\* The number and the stakes of some items are natural numbers.
LEMMA StakesNat ==
  ASSUME IInv, NEW r \in Requests, NEW ks, ks \subseteq Indices(r)
  PROVE  IsFiniteSet(ks) /\ Cardinality(ks) \in Nat /\ Stakes(r, ks) \in Nat
<1>1. Len(Items(r)) \in Nat
  BY PlanTypes
<1>2. IsFiniteSet(Indices(r))
  BY <1>1, FS_Interval DEF Indices
<1>3. IsFiniteSet(ks) /\ Cardinality(ks) \in Nat
  BY <1>2, FS_Subset, FS_CardinalityType
<1> DEFINE f == [k \in ks |-> Items(r)[k].stake]
<1>4. f \in [ks -> Nat]
  BY PlanTypes
<1> HIDE DEF f
<1>5. SumFunction(f) \in Nat
  BY <1>3, <1>4, SumNat
<1>6. QED
  BY <1>3, <1>5 DEF Stakes, f

\* The rows a transaction adds, and those it leaves alone.
LEMMA SaveRows ==
  ASSUME IInv, NEW r \in Requests, Save(r), Persistable(r)
  PROVE  /\ plan' = plan
         /\ \A k \in request[r].sent :
              /\ k \in Indices(r) /\ Pair(r, k) \in Pairs /\ prediction[Pair(r, k)] = NoRow
              /\ Items(r)[k].outcome \in Outcomes
         /\ DOMAIN prediction' = Pairs
         /\ \A p \in Pairs :
              \/ /\ prediction'[p] = prediction[p]
                 /\ \A k \in request[r].sent : Pair(r, k) # p
              \/ /\ prediction[p] = NoRow
                 /\ \E k \in request[r].sent : /\ Pair(r, k) = p
                                                 /\ prediction'[p] = NewPrediction(Items(r)[k])
<1> DEFINE Of(p) == {k \in request[r].sent : Pair(r, k) = p}
<1>1. request[r].pc = "sending" /\ SubmissionFits(r)
      /\ plan' = plan
      /\ request[r].sent \cap request[r].failed = {}
  BY DEF Save, chain, IInv, RequestsFit, TypeOK
<1>2. ASSUME NEW k \in request[r].sent
      PROVE  /\ k \in Indices(r) /\ Pair(r, k) \in Pairs /\ prediction[Pair(r, k)] = NoRow
             /\ Items(r)[k].outcome \in Outcomes
  <2>1. k \in Indices(r) /\ k \notin request[r].failed
    BY <1>1 DEF SubmissionFits
  <2>2. Items(r)[k].outcome \in Outcomes /\ Pair(r, k) \in Pairs
    BY <1>1, <2>1, PlanTypes DEF SubmissionFits
  <2>3. QED
    BY <2>1, <2>2 DEF Persistable, Saved, Rows
<1>3. prediction' = [p \in Pairs |->
        IF Of(p) = {} THEN prediction[p] ELSE NewPrediction(Items(r)[CHOOSE k \in Of(p) : TRUE])]
  BY DEF Save, Saved
<1>4. ASSUME NEW p \in Pairs
      PROVE  \/ /\ prediction'[p] = prediction[p]
                /\ \A k \in request[r].sent : Pair(r, k) # p
             \/ /\ prediction[p] = NoRow
                /\ \E k \in request[r].sent : /\ Pair(r, k) = p
                                                /\ prediction'[p] = NewPrediction(Items(r)[k])
  <2>1. CASE Of(p) = {}
    BY <1>3, <2>1
  <2>2. CASE Of(p) # {}
    <3> DEFINE k == CHOOSE k \in Of(p) : TRUE
    <3>1. k \in Of(p)
      BY <2>2
    <3>2. prediction'[p] = NewPrediction(Items(r)[k])
      BY <1>3, <2>2
    <3> HIDE DEF k
    <3>3. k \in request[r].sent /\ Pair(r, k) = p
      BY <3>1
    <3>4. prediction[p] = NoRow
      BY <1>2, <3>3
    <3>5. QED
      BY <3>2, <3>3, <3>4
  <2>3. QED
    BY <2>1, <2>2
<1> HIDE DEF Of
<1>5. DOMAIN prediction' = Pairs
  BY <1>3
<1>6. QED
  BY <1>1, <1>2, <1>4, <1>5

\* The counters a transaction increments.
LEMMA SaveTotals ==
  ASSUME IInv, NEW r \in Requests, Save(r), Persistable(r)
  PROVE  /\ market' \in [Markets -> MarketRow]
         /\ account' \in [Users -> [total_predictions : Nat, total_staked_stroops : Nat]]
<1> DEFINE In(m) == {k \in request[r].sent : Items(r)[k].market = m}
<1>1. market \in [Markets -> MarketRow] /\ plan[r].user \in Users
      /\ account \in [Users -> [total_predictions : Nat, total_staked_stroops : Nat]]
  BY PlanTypes DEF IInv, TypeOK
<1>2. request[r].sent \subseteq Indices(r)
  BY DEF Save, IInv, RequestsFit, SubmissionFits
<1>3. /\ market' = [m \in Markets |-> [market[m] EXCEPT
           !.participant_count = @ + Cardinality(In(m)),
           !.total_pool_stroops = @ + Stakes(r, In(m))]]
      /\ account' = [account EXCEPT
           ![plan[r].user].total_predictions = @ + Cardinality(request[r].sent),
           ![plan[r].user].total_staked_stroops = @ + Stakes(r, request[r].sent)]
  BY DEF Save, Saved, Counted
<1>4. \A m : Cardinality(In(m)) \in Nat /\ Stakes(r, In(m)) \in Nat
  BY <1>2, StakesNat
<1>5. Cardinality(request[r].sent) \in Nat /\ Stakes(r, request[r].sent) \in Nat
  BY <1>2, StakesNat
<1> HIDE DEF In
<1>6. ASSUME NEW m \in Markets
      PROVE  [market[m] EXCEPT !.participant_count = @ + Cardinality(In(m)),
                               !.total_pool_stroops = @ + Stakes(r, In(m))] \in MarketRow
  <2> DEFINE c == market[m].participant_count + Cardinality(In(m))
             t == market[m].total_pool_stroops + Stakes(r, In(m))
  <2>1. market[m] \in MarketRow
    BY <1>1
  <2>2. c \in Nat /\ t \in Nat
    BY <1>4, <2>1 DEF MarketRow
  <2> HIDE DEF c, t
  <2>3. [market[m] EXCEPT !.participant_count = c, !.total_pool_stroops = t] \in MarketRow
    BY <2>1, <2>2 DEF MarketRow
  <2>4. QED
    BY <2>3 DEF c, t
<1>7. market' \in [Markets -> MarketRow]
  BY <1>3, <1>6
<1>8. account' \in [Users -> [total_predictions : Nat, total_staked_stroops : Nat]]
  <2> DEFINE u == plan[r].user
             c == account[u].total_predictions + Cardinality(request[r].sent)
             t == account[u].total_staked_stroops + Stakes(r, request[r].sent)
             new == [account[u] EXCEPT !.total_predictions = c, !.total_staked_stroops = t]
  <2>1. account' = [account EXCEPT ![u] = new]
    BY <1>1, <1>3
  <2>2. c \in Nat /\ t \in Nat
    BY <1>1, <1>5
  <2> HIDE DEF c, t
  <2>3. new \in [total_predictions : Nat, total_staked_stroops : Nat]
    BY <1>1, <2>2
  <2> HIDE DEF new
  <2>4. QED
    BY <1>1, <2>1, <2>3
<1>9. QED
  BY <1>7, <1>8

LEMMA SaveInv == ASSUME IInv, NEW r \in Requests, Save(r) PROVE IInv'
<1>1. UNCHANGED <<plan, phase, holders, paid, events, listener, failures, missed>>
  BY DEF Save, chain
<1>2. CASE ~Persistable(r)
  <2>1. Quiet /\ Finish(r, "error")
    BY <1>2 DEF Save, Quiet, IInv, TypeOK
  <2>2. QED
    BY <2>1, QuietFinish DEF Results
<1>3. CASE Persistable(r)
  <2>1. \A p \in Pairs : prediction[p] # NoRow => prediction'[p] = prediction[p]
    BY <1>3, SaveRows
  <2>2. Len(events) \in Nat
    BY DEF IInv, Shape
  <2>3. Keeps
    BY <1>1, <2>1, <2>2 DEF Keeps
  <2>4. ASSUME NEW k \in request[r].sent
        PROVE  NewPrediction(Items(r)[k]) \in PredictionRow
    <3>1. Items(r)[k].outcome \in Outcomes /\ Items(r)[k].stake \in Nat /\ Items(r)[k].key \in Keys
      BY <1>3, SaveRows, PlanTypes
    <3>2. QED
      BY <3>1 DEF NewPrediction, PredictionRow
  <2>5. ASSUME NEW p \in Pairs
        PROVE  prediction'[p] \in PredictionRow \cup {NoRow}
    <3>1. CASE prediction'[p] = prediction[p]
      BY <3>1 DEF IInv, Shape
    <3>2. CASE prediction'[p] # prediction[p]
      <4>1. PICK k \in request[r].sent :
              Pair(r, k) = p /\ prediction'[p] = NewPrediction(Items(r)[k])
        BY <1>3, <3>2, SaveRows
      <4>2. QED
        BY <2>4, <4>1
    <3>3. QED
      BY <3>1, <3>2
  <2>6. prediction' \in [Pairs -> PredictionRow \cup {NoRow}]
    <3>1. prediction' = [p \in Pairs |-> prediction'[p]]
      BY <1>3 DEF Save
    <3>2. QED
      BY <2>5, <3>1
  <2>7. EventsFit' /\ events' \in Seq(Event)
    BY <1>1 DEF IInv, EventsFit, Shape, Paying
  <2>8. Columns'
    BY <1>1, <1>3, SaveTotals DEF IInv, TypeOK, Columns
  <2>9. Moved(r)
    <3>1. Finish(r, "ok")
      BY <1>3 DEF Save
    <3>2. QED
      BY <3>1, FinishMoves DEF Results
  <2>10. QED
    BY <1>1, <2>3, <2>6, <2>7, <2>8, <2>9, RequestStep
<1>4. QED
  BY <1>2, <1>3

-----------------------------------------------------------------------------
(* Notes, claims and resolutions. *)

LEMMA RowFits ==
  ASSUME IInv, NEW p \in Rows
  PROVE  Fits(prediction, prediction[p], p)
BY DEF Rows, IInv, Shape, Fits

\* The same rows, with the same stakes and keys.
SameRows ==
  \A p \in Pairs :
    /\ prediction'[p] = NoRow <=> prediction[p] = NoRow
    /\ prediction[p] # NoRow =>
         /\ prediction'[p].stake = prediction[p].stake
         /\ prediction'[p].clientIdempotencyKey = prediction[p].clientIdempotencyKey

\* A row is replaced by a copy that fits, with another note or claimed.
LEMMA RowReplaced ==
  ASSUME IInv, NEW p, NEW copy, Fits(prediction, copy, p), NEW new \in PredictionRow,
         new.chosen_outcome = copy.chosen_outcome, new.stake = copy.stake,
         new.clientIdempotencyKey = copy.clientIdempotencyKey,
         prediction' = [prediction EXCEPT ![p] = new], UNCHANGED <<plan, events>>
  PROVE  Keeps /\ prediction' \in [Pairs -> PredictionRow \cup {NoRow}] /\ SameRows
<1>1. /\ prediction \in [Pairs -> PredictionRow \cup {NoRow}] /\ Len(events) \in Nat
      /\ new # NoRow /\ p \in Pairs
  BY DEF IInv, Shape, Fits
<1>2. /\ prediction' \in [Pairs -> PredictionRow \cup {NoRow}] /\ prediction'[p] = new
      /\ \A q \in Pairs \ {p} : prediction'[q] = prediction[q]
  BY <1>1
<1>3. Keeps
  BY <1>1, <1>2 DEF Keeps, Fits
<1>4. SameRows
  BY <1>1, <1>2 DEF SameRows, Fits
<1>5. QED
  BY <1>2, <1>3, <1>4

LEMMA NoteReadInv == ASSUME IInv, NEW r \in Requests, NoteRead(r) PROVE IInv'
<1> DEFINE p == Pair(r, 1)
           new == [request[r] EXCEPT !.pc = "writing", !.copy = prediction[p]]
<1>1. Quiet /\ UNCHANGED <<plan, prediction>>
  BY DEF NoteRead, Quiet, IInv, TypeOK, tables, chain
<1>2. CASE Finish(r, "rejected")
  BY <1>1, <1>2, QuietFinish DEF Results
<1>3. CASE p \in Rows /\ request' = [request EXCEPT ![r].pc = "writing", ![r].copy = prediction[p]]
  <2>1. plan[r].kind = "note" /\ request[r].pc = "new"
        /\ request[r] \in RequestState /\ request \in [Requests -> RequestState]
        /\ request[r].sent = {}
    BY BeforeSending DEF NoteRead, At, IInv, Shape
  <2>2. request' = [request EXCEPT ![r] = new]
    BY <1>3, <2>1
  <2>3. Fits(prediction, prediction[p], p) /\ prediction[p] \in PredictionRow
    BY <1>3, RowFits DEF Fits
  <2>4. new \in RequestState
    BY <2>1, <2>3 DEF RequestState, Positions
  <2>5. new.pc = "writing" /\ new.copy = prediction[p] /\ new.sent = {}
        /\ new.result = request[r].result
    BY <2>1 DEF RequestState
  <2> HIDE DEF new
  <2>6. request'[r] = new
    BY <2>1, <2>2
  <2>7. SubmissionFits(r)'
    BY <2>5, <2>6 DEF SubmissionFits
  <2>8. ClaimFits(r)'
    BY <1>1, <2>1, <2>3, <2>5, <2>6 DEF ClaimFits, Pair, Items
  <2>9. QED
    BY <1>1, <2>1, <2>2, <2>4, <2>5, <2>7, <2>8, UpdateMoves, QuietStep DEF Quiet
<1>4. QED
  BY <1>2, <1>3 DEF NoteRead

LEMMA NoteSaveRows ==
  ASSUME IInv, NEW r \in Requests, NoteSave(r)
  PROVE  Keeps /\ prediction' \in [Pairs -> PredictionRow \cup {NoRow}] /\ SameRows
<1> DEFINE p == Pair(r, 1)
           copy == request[r].copy
           new == [copy EXCEPT !.note = TRUE]
<1>1. /\ request[r].pc = "writing" /\ prediction' = [prediction EXCEPT ![p] = new]
      /\ Finish(r, "ok")
      /\ UNCHANGED <<plan, market, account, phase, holders, paid, events, listener, failures, missed>>
  BY DEF NoteSave, At, chain
<1>2. Fits(prediction, copy, p)
  BY <1>1 DEF IInv, RequestsFit, ClaimFits
<1>3. copy \in PredictionRow
  BY <1>2 DEF Fits
<1> HIDE DEF copy, p
<1>4. /\ new \in PredictionRow /\ new.chosen_outcome = copy.chosen_outcome
      /\ new.stake = copy.stake /\ new.clientIdempotencyKey = copy.clientIdempotencyKey
  BY <1>3 DEF PredictionRow
<1> HIDE DEF new
<1>5. QED
  BY <1>1, <1>2, <1>3, <1>4, RowReplaced

LEMMA NoteSaveInv == ASSUME IInv, NEW r \in Requests, NoteSave(r) PROVE IInv'
<1>1. /\ Finish(r, "ok")
      /\ UNCHANGED <<plan, market, account, phase, holders, paid, events, listener, failures, missed>>
  BY DEF NoteSave, chain
<1>2. Moved(r)
  BY <1>1, FinishMoves DEF Results
<1>3. Columns'
  BY <1>1 DEF IInv, TypeOK, Columns
<1>4. EventsFit' /\ events' \in Seq(Event)
  BY <1>1 DEF IInv, EventsFit, Shape, Paying
<1>5. QED
  BY <1>1, <1>2, <1>3, <1>4, NoteSaveRows, RequestStep

LEMMA ClaimListInv == ASSUME IInv, NEW r \in Requests, ClaimList(r) PROVE IInv'
<1> DEFINE mine == {m \in Markets : Won(<<plan[r].user, m>>)
                                     /\ ~prediction[<<plan[r].user, m>>].payout_claimed}
           todo == IF plan[r].kind = "claim" THEN {Items(r)[1].market} ELSE mine
           new == [request[r] EXCEPT !.pc = "claiming", !.todo = todo]
<1>1. Quiet /\ plan' = plan
  BY DEF ClaimList, Quiet, IInv, TypeOK
<1>2. CASE Finish(r, "rejected")
  BY <1>1, <1>2, QuietFinish DEF Results
<1>3. CASE todo # {} /\ request' = [request EXCEPT ![r].pc = "claiming", ![r].todo = todo]
  <2>1. plan[r].kind \in {"claim", "claimAll"} /\ request[r].pc = "new"
        /\ request[r] \in RequestState /\ request \in [Requests -> RequestState]
        /\ request[r].sent = {}
    BY BeforeSending DEF ClaimList, IInv, Shape
  <2>2. request' = [request EXCEPT ![r] = new]
    BY <1>3, <2>1
  <2>3. todo \subseteq Markets
    BY <2>1, PlanTypes
  <2> HIDE DEF todo, mine
  <2>4. new \in RequestState
    BY <2>1, <2>3 DEF RequestState, Positions
  <2>5. new.pc = "claiming" /\ new.todo = todo /\ new.sent = {}
        /\ new.result = request[r].result
    BY <2>1 DEF RequestState
  <2> HIDE DEF new
  <2>6. request'[r] = new
    BY <2>1, <2>2
  <2>7. SubmissionFits(r)'
    BY <2>5, <2>6 DEF SubmissionFits
  <2>8. ClaimFits(r)'
    BY <1>1, <1>3, <2>1, <2>5, <2>6 DEF ClaimFits
  <2>9. QED
    BY <1>1, <2>1, <2>2, <2>4, <2>5, <2>7, <2>8, UpdateMoves, QuietStep DEF Quiet
<1>4. QED
  BY <1>2, <1>3 DEF ClaimList

\* The claim a request is at.
LEMMA ClaimTarget ==
  ASSUME IInv, NEW r \in Requests, request[r].pc \in {"claiming", "paying", "recording"}
  PROVE  /\ Target(r) \in Pairs /\ Target(r)[2] \in Markets
         /\ Target(r)[2] = CHOOSE x \in request[r].todo : TRUE
<1> DEFINE m == CHOOSE x \in request[r].todo : TRUE
<1>1. request[r] \in RequestState /\ request[r].todo # {}
  BY DEF IInv, Shape, RequestsFit, ClaimFits
<1>2. m \in Markets
  BY <1>1 DEF RequestState
<1>3. plan[r].user \in Users
  BY PlanTypes
<1>4. Target(r) = <<plan[r].user, m>>
  BY DEF Target
<1> HIDE DEF m
<1>5. Target(r) \in Pairs /\ Target(r)[2] = m
  BY <1>2, <1>3, <1>4 DEF Pairs
<1>6. QED
  BY <1>2, <1>5 DEF m

LEMMA NextClaimMoves ==
  ASSUME IInv, NEW r \in Requests, request[r].pc \in {"claiming", "paying", "recording"},
         plan' = plan, NEW m, NextClaim(r, m)
  PROVE  Moved(r)
<1> DEFINE new == [request[r] EXCEPT !.pc = "claiming", !.todo = @ \ {m}, !.copy = NoRow]
<1>1. CASE Finish(r, "ok")
  BY <1>1, FinishMoves DEF Results
<1>2. CASE /\ request[r].todo # {m}
           /\ request' = [request EXCEPT ![r].pc = "claiming", ![r].todo = @ \ {m},
                                        ![r].copy = NoRow]
  <2>1. /\ plan[r].kind \in {"claim", "claimAll"} /\ request[r].todo # {}
        /\ request[r] \in RequestState /\ request \in [Requests -> RequestState]
        /\ request[r].sent \cap request[r].failed = {}
    BY DEF IInv, Shape, TypeOK, RequestsFit, ClaimFits
  <2>2. request' = [request EXCEPT ![r] = new]
    BY <1>2, <2>1
  <2>3. request[r].todo \ {m} # {} /\ request[r].todo \ {m} \in SUBSET Markets
    BY <1>2, <2>1 DEF RequestState
  <2>4. new \in RequestState
    BY <2>1, <2>3 DEF RequestState, Positions
  <2>5. new.pc = "claiming" /\ new.todo = request[r].todo \ {m} /\ new.sent = request[r].sent
        /\ new.failed = request[r].failed /\ new.result = request[r].result
    BY <2>1 DEF RequestState
  <2> HIDE DEF new
  <2>6. request'[r] = new
    BY <2>1, <2>2
  <2>7. SubmissionFits(r)'
    BY <2>5, <2>6 DEF SubmissionFits
  <2>8. ClaimFits(r)'
    BY <2>1, <2>3, <2>5, <2>6 DEF ClaimFits
  <2>9. QED
    BY <2>1, <2>2, <2>4, <2>5, <2>7, <2>8, UpdateMoves
<1>3. QED
  BY <1>1, <1>2 DEF NextClaim

LEMMA ClaimReadInv == ASSUME IInv, NEW r \in Requests, ClaimRead(r) PROVE IInv'
<1> DEFINE m == CHOOSE x \in request[r].todo : TRUE
           p == Target(r)
           new == [request[r] EXCEPT !.pc = "paying", !.copy = prediction[p]]
<1>1. Quiet /\ UNCHANGED <<plan, prediction>> /\ request[r].pc = "claiming"
  BY DEF ClaimRead, Quiet, IInv, TypeOK, tables, chain
<1>2. CASE NextClaim(r, m)
  BY <1>1, <1>2, NextClaimMoves, QuietStep DEF Quiet
<1>3. CASE Won(p) /\ request' = [request EXCEPT ![r].pc = "paying", ![r].copy = prediction[p]]
  <2>1. /\ plan[r].kind \in {"claim", "claimAll"} /\ request[r].todo # {}
        /\ request[r] \in RequestState /\ request \in [Requests -> RequestState]
        /\ request[r].sent \cap request[r].failed = {}
    BY <1>1 DEF IInv, Shape, TypeOK, RequestsFit, ClaimFits
  <2>2. request' = [request EXCEPT ![r] = new]
    BY <1>3, <2>1
  <2>3. p \in Rows
    BY <1>1, <1>3, ClaimTarget DEF Won, Rows
  <2>4. Fits(prediction, prediction[p], p) /\ prediction[p] \in PredictionRow
    BY <2>3, RowFits DEF Fits
  <2> HIDE DEF p
  <2>5. new \in RequestState
    BY <2>1, <2>4 DEF RequestState, Positions
  <2>6. new.pc = "paying" /\ new.todo = request[r].todo /\ new.sent = request[r].sent
        /\ new.failed = request[r].failed /\ new.result = request[r].result
        /\ new.copy = prediction[p]
    BY <2>1 DEF RequestState
  <2> HIDE DEF new
  <2>7. request'[r] = new
    BY <2>1, <2>2
  <2>8. SubmissionFits(r)'
    BY <2>6, <2>7 DEF SubmissionFits
  <2>9. Target(r)' = p
    BY <1>1, <2>6, <2>7 DEF Target, p
  <2>10. ClaimFits(r)'
    BY <1>1, <2>1, <2>4, <2>6, <2>7, <2>9 DEF ClaimFits
  <2>11. QED
    BY <1>1, <2>1, <2>2, <2>5, <2>6, <2>8, <2>10, UpdateMoves, QuietStep DEF Quiet
<1>4. QED
  BY <1>2, <1>3 DEF ClaimRead, Target

LEMMA ClaimPayInv == ASSUME IInv, NEW r \in Requests, ClaimPay(r) PROVE IInv'
<1>1. request[r].pc = "paying" /\ UNCHANGED <<plan, prediction>> /\ Quiet
  BY DEF ClaimPay, Quiet, tables, IInv, TypeOK
<1>2. CASE Goto(r, "recording")
  <2>1. Fits(prediction, request[r].copy, Target(r))
        /\ plan[r].kind \in {"claim", "claimAll"} /\ request[r].todo # {}
    BY <1>1 DEF IInv, RequestsFit, ClaimFits
  <2>2. request'[r].pc = "recording" /\ request'[r].copy = request[r].copy
        /\ request'[r].todo = request[r].todo
    BY <1>2, GotoSets DEF Positions
  <2>3. Target(r)' = Target(r)
    BY <1>1, <2>2 DEF Target
  <2>4. SubmissionFits(r)'
    BY <2>2 DEF SubmissionFits
  <2>5. ClaimFits(r)'
    BY <1>1, <2>1, <2>2, <2>3 DEF ClaimFits
  <2>6. Moved(r)
    BY <1>1, <1>2, <2>4, <2>5, GotoSets DEF Positions
  <2>7. QED
    BY <1>1, <2>6, QuietStep DEF Quiet
<1>3. CASE NextClaim(r, CHOOSE x \in request[r].todo : TRUE)
  BY <1>1, <1>3, NextClaimMoves, QuietStep DEF Quiet
<1>4. QED
  BY <1>2, <1>3 DEF ClaimPay

LEMMA ClaimSaveRows ==
  ASSUME IInv, NEW r \in Requests, ClaimSave(r)
  PROVE  Keeps /\ prediction' \in [Pairs -> PredictionRow \cup {NoRow}] /\ SameRows
<1> DEFINE p == Target(r)
           copy == request[r].copy
           new == [copy EXCEPT !.payout_claimed = TRUE]
<1>1. /\ request[r].pc = "recording" /\ prediction' = [prediction EXCEPT ![p] = new]
      /\ UNCHANGED <<plan, market, account, phase, holders, paid, events, listener, failures, missed>>
  BY DEF ClaimSave, chain, Target
<1>2. Fits(prediction, copy, p)
  BY <1>1 DEF IInv, RequestsFit, ClaimFits
<1>3. copy \in PredictionRow
  BY <1>2 DEF Fits
<1> HIDE DEF copy, p
<1>4. /\ new \in PredictionRow /\ new.chosen_outcome = copy.chosen_outcome
      /\ new.stake = copy.stake /\ new.clientIdempotencyKey = copy.clientIdempotencyKey
  BY <1>3 DEF PredictionRow
<1> HIDE DEF new
<1>5. QED
  BY <1>1, <1>2, <1>4, RowReplaced

LEMMA ClaimSaveInv == ASSUME IInv, NEW r \in Requests, ClaimSave(r) PROVE IInv'
<1>1. /\ request[r].pc = "recording" /\ NextClaim(r, CHOOSE x \in request[r].todo : TRUE)
      /\ UNCHANGED <<plan, market, account, phase, holders, paid, events, listener, failures, missed>>
  BY DEF ClaimSave, chain
<1>2. Moved(r)
  BY <1>1, NextClaimMoves
<1>3. Columns'
  BY <1>1 DEF IInv, TypeOK, Columns
<1>4. EventsFit' /\ events' \in Seq(Event)
  BY <1>1 DEF IInv, EventsFit, Shape, Paying
<1>5. QED
  BY <1>1, <1>2, <1>3, <1>4, ClaimSaveRows, RequestStep

LEMMA ResolveReadInv == ASSUME IInv, NEW r \in Requests, ResolveRead(r) PROVE IInv'
<1> DEFINE c == market[Items(r)[1].market]
           new == [request[r] EXCEPT !.pc = "resolving", !.copy = c]
<1>1. Quiet /\ plan' = plan
  BY DEF ResolveRead, Quiet, IInv, TypeOK
<1>2. CASE Finish(r, "rejected")
  BY <1>1, <1>2, QuietFinish DEF Results
<1>3. CASE /\ Items(r)[1].outcome \in Outcomes
           /\ request' = [request EXCEPT ![r].pc = "resolving", ![r].copy = c]
  <2>1. plan[r].kind = "resolve" /\ request[r].pc = "new"
        /\ request[r] \in RequestState /\ request \in [Requests -> RequestState]
        /\ request[r].sent = {}
    BY BeforeSending DEF ResolveRead, At, IInv, Shape
  <2>2. request' = [request EXCEPT ![r] = new]
    BY <1>3, <2>1
  <2>3. c \in MarketRow
    BY <2>1, PlanTypes DEF IInv, TypeOK
  <2> HIDE DEF c
  <2>4. new \in RequestState
    BY <2>1, <2>3 DEF RequestState, Positions
  <2>5. new.pc = "resolving" /\ new.copy = c /\ new.sent = {} /\ new.result = request[r].result
    BY <2>1 DEF RequestState
  <2> HIDE DEF new
  <2>6. request'[r] = new
    BY <2>1, <2>2
  <2>7. SubmissionFits(r)'
    BY <2>5, <2>6 DEF SubmissionFits
  <2>8. ClaimFits(r)'
    BY <1>1, <1>3, <2>1, <2>3, <2>5, <2>6 DEF ClaimFits, Items
  <2>9. QED
    BY <1>1, <2>1, <2>2, <2>4, <2>5, <2>7, <2>8, UpdateMoves, QuietStep DEF Quiet
<1>4. QED
  BY <1>2, <1>3 DEF ResolveRead

\* The market row that a resolution saves.
LEMMA ResolveSaveRow ==
  ASSUME IInv, NEW r \in Requests, ResolveSave(r)
  PROVE  \E new \in MarketRow :
           /\ Items(r)[1].market \in Markets /\ market' = [market EXCEPT ![Items(r)[1].market] = new]
           /\ new.participant_count = request[r].copy.participant_count
           /\ new.total_pool_stroops = request[r].copy.total_pool_stroops
<1> DEFINE m == Items(r)[1].market
           o == Items(r)[1].outcome
           copy == request[r].copy
           new == [copy EXCEPT !.is_resolved = TRUE, !.resolved_outcome = o]
<1>1. request[r].pc = "resolving" /\ market' = [market EXCEPT ![m] = new]
  BY DEF ResolveSave, At
<1>2. copy \in MarketRow /\ o \in Outcomes /\ plan[r].kind = "resolve"
  BY <1>1 DEF IInv, RequestsFit, ClaimFits
<1>3. m \in Markets
  BY <1>2, PlanTypes
<1> HIDE DEF m, o, copy
<1>4. /\ new \in MarketRow /\ new.participant_count = copy.participant_count
      /\ new.total_pool_stroops = copy.total_pool_stroops
  BY <1>2 DEF MarketRow
<1> HIDE DEF new
<1>5. QED
  BY <1>1, <1>3, <1>4 DEF m, copy

LEMMA ResolveSaveInv == ASSUME IInv, NEW r \in Requests, ResolveSave(r) PROVE IInv'
<1>1. /\ Finish(r, "ok")
      /\ UNCHANGED <<plan, prediction, account, phase, holders, paid, events, listener, failures, missed>>
  BY DEF ResolveSave, chain
<1>2. PICK new \in MarketRow : market' = [market EXCEPT ![Items(r)[1].market] = new]
  BY ResolveSaveRow
<1>3. market' \in [Markets -> MarketRow]
  BY <1>2 DEF IInv, TypeOK
<1>4. Moved(r)
  BY <1>1, FinishMoves DEF Results
<1>5. Columns'
  BY <1>1, <1>3 DEF IInv, TypeOK, Columns
<1>6. EventsFit' /\ events' \in Seq(Event) /\ prediction' \in [Pairs -> PredictionRow \cup {NoRow}]
  BY <1>1 DEF IInv, EventsFit, Shape, Paying
<1>7. Keeps
  BY <1>1, NothingChanges
<1>8. QED
  BY <1>1, <1>4, <1>5, <1>6, <1>7, RequestStep

-----------------------------------------------------------------------------
(* The contract. *)

\* An event is appended.
Emitted ==
  /\ events' \in Seq(Event) /\ Len(events') = Len(events) + 1
  /\ \A n \in 1..Len(events) : events'[n] = events[n]
  /\ Paying(events'[Len(events) + 1])

LEMMA EmitEmits ==
  ASSUME IInv, NEW type \in {"PredictionSubmitted", "MarketResolved", "PayoutClaimed", "other"},
         NEW p \in (Users \cup {"none"}) \X Markets, NEW o \in Outcomes \cup {NoOutcome},
         type = "PayoutClaimed" => p \in Pairs, Emit(type, p, o)
  PROVE  Emitted
<1> DEFINE e == [type |-> type, pair |-> p, outcome |-> o]
<1>1. events \in Seq(Event) /\ e \in Event /\ events' = Append(events, e)
  BY DEF IInv, Shape, Event, Emit
<1>2. Paying(e)
  BY DEF Paying
<1> HIDE DEF e
<1>3. QED
  BY <1>1, <1>2 DEF Emitted

\* What a step of the contract leaves alone, and the types of what it sets.
LEMMA ContractStep ==
  ASSUME IInv, UNCHANGED <<plan, tables, listener, request, failures, missed>>,
         phase' \in [Markets -> {"open", "ended", "resolved"}],
         holders' \subseteq Pairs, paid' \subseteq Pairs, Emitted \/ events' = events
  PROVE  IInv'
<1>1. UNCHANGED <<plan, market, prediction, account, listener, request, failures, missed>>
  BY DEF tables
<1>2. Len(events) \in Nat /\ events \in Seq(Event)
  BY DEF IInv, Shape
<1>3. Keeps
  BY <1>1, <1>2 DEF Keeps, Emitted
<1>4. EventsFit' /\ events' \in Seq(Event)
  <2>1. CASE Emitted
    <3>1. \A n \in (Len(events) + 1)..Len(events') : Paying(events'[n])
      BY <1>2, <2>1 DEF Emitted
    <3>2. QED
      BY <1>3, <2>1, <3>1, EventsKept DEF Emitted
  <2>2. CASE events' = events
    BY <2>2 DEF IInv, EventsFit, Shape, Paying
  <2>3. QED
    BY <2>1, <2>2
<1>5. Columns'
  BY <1>1 DEF IInv, TypeOK, Columns
<1>6. Shape'
  BY <1>1, <1>4 DEF IInv, Shape
<1>7. QED
  BY <1>1, <1>3, <1>4, <1>5, <1>6, ListenerStands, RequestsStand

LEMMA PositionInv ==
  ASSUME IInv, NEW p \in Pairs, TakePosition(p) \/ LeavePosition(p) \/ Pay(p)
  PROVE  IInv'
<1>1. /\ holders \subseteq Pairs /\ paid \subseteq Pairs
      /\ phase \in [Markets -> {"open", "ended", "resolved"}]
      /\ UNCHANGED <<plan, tables, listener, request, failures, missed, phase>>
  BY DEF IInv, TypeOK, TakePosition, LeavePosition, Pay
<1>2. p \in (Users \cup {"none"}) \X Markets /\ p[2] \in Markets
  BY DEF Pairs
<1>3. Emitted
  <2>1. PICK type \in {"PredictionSubmitted", "PayoutClaimed", "other"} : Emit(type, p, NoOutcome)
    BY DEF TakePosition, LeavePosition, Pay
  <2>2. QED
    BY <1>2, <2>1, EmitEmits
<1>4. holders' \subseteq Pairs /\ paid' \subseteq Pairs
  <2>1. \A u \in Users : <<u, p[2]>> \in Pairs
    BY <1>2 DEF Pairs
  <2>2. CASE TakePosition(p)
    BY <1>1, <2>2 DEF TakePosition
  <2>3. CASE LeavePosition(p)
    BY <1>1, <2>1, <2>3 DEF LeavePosition
  <2>4. CASE Pay(p)
    BY <1>1, <2>4 DEF Pay
  <2>5. QED
    BY <2>2, <2>3, <2>4
<1>5. QED
  BY <1>1, <1>3, <1>4, ContractStep

LEMMA MarketInv ==
  ASSUME IInv, NEW m \in Markets, End(m) \/ Resolve(m) \/ Reopen(m)
  PROVE  IInv'
<1>1. /\ holders \subseteq Pairs /\ paid \subseteq Pairs
      /\ phase \in [Markets -> {"open", "ended", "resolved"}]
      /\ UNCHANGED <<plan, tables, listener, request, failures, missed, holders, paid>>
  BY DEF IInv, TypeOK, End, Resolve, Reopen
<1>2. phase' \in [Markets -> {"open", "ended", "resolved"}]
  BY <1>1 DEF End, Resolve, Reopen
<1>3. <<"none", m>> \in (Users \cup {"none"}) \X Markets
  OBVIOUS
<1>4. CASE End(m)
  <2>1. events' = events
    BY <1>4 DEF End
  <2>2. QED
    BY <1>1, <1>2, <2>1, ContractStep
<1>5. CASE Resolve(m)
  <2>1. PICK o \in Outcomes : Emit("MarketResolved", <<"none", m>>, o)
    BY <1>5 DEF Resolve
  <2>2. QED
    BY <1>1, <1>2, <1>3, <2>1, EmitEmits, ContractStep
<1>6. CASE Reopen(m)
  <2>1. Emit("other", <<"none", m>>, NoOutcome)
    BY <1>6 DEF Reopen
  <2>2. QED
    BY <1>1, <1>2, <1>3, <2>1, EmitEmits, ContractStep
<1>7. QED
  BY <1>4, <1>5, <1>6

-----------------------------------------------------------------------------
(* The listener. *)

LEMMA ListenerTypes ==
  ASSUME IInv
  PROVE  /\ listener \in ListenerState /\ Len(events) \in Nat
         /\ listener.cursor \in 0..Len(events) /\ listener.upto \in 0..Len(events)
         /\ listener.pos \in Nat
         /\ listener.upto > 0 =>
              /\ listener.pos \in 1..listener.upto /\ Current \in Event
              /\ listener.latest \in listener.upto..Len(events)
              /\ Current.pair[2] \in Markets /\ Paying(Current)
<1>1. /\ listener \in ListenerState /\ events \in Seq(Event) /\ Len(events) \in Nat
      /\ listener.cursor \in 0..Len(events) /\ listener.upto \in 0..Len(events)
  BY DEF IInv, Shape, TypeOK
<1>2. listener.pos \in Nat
  BY <1>1 DEF ListenerState
<1>3. ASSUME listener.upto > 0
      PROVE  /\ listener.pos \in 1..listener.upto /\ Current \in Event
             /\ listener.latest \in listener.upto..Len(events)
             /\ Current.pair[2] \in Markets /\ Paying(Current)
  <2>1. listener.pos \in 1..listener.upto /\ listener.latest \in listener.upto..Len(events)
    BY <1>3 DEF IInv, ListenerFits
  <2>2. listener.pos \in 1..Len(events)
    BY <1>1, <2>1
  <2>3. Current \in Event /\ Paying(Current)
    BY <1>1, <2>2 DEF Current, IInv, EventsFit
  <2>4. Current.pair \in (Users \cup {"none"}) \X Markets
    BY <2>3 DEF Event
  <2>5. Current.pair[2] \in Markets
    BY <2>4
  <2>6. QED
    BY <2>1, <2>3, <2>5
<1>4. QED
  BY <1>1, <1>2, <1>3

\* What a step of the listener owes.
ListenerMoved ==
  /\ listener' \in ListenerState /\ ListenerFits'
  /\ listener'.cursor \in 0..Len(events') /\ listener'.upto \in 0..Len(events')
  /\ missed' \subseteq Pairs

LEMMA ListenerStep ==
  ASSUME IInv, Keeps, ListenerMoved, UNCHANGED <<request, chain>>, failures' \in 0..MaxFailures,
         prediction' \in [Pairs -> PredictionRow \cup {NoRow}],
         market' \in [Markets -> MarketRow], account' = account
  PROVE  IInv'
<1>1. UNCHANGED <<phase, holders, paid, events>>
  BY DEF chain
<1>2. Columns'
  BY <1>1 DEF IInv, TypeOK, Columns, ListenerMoved
<1>3. Shape'
  BY <1>1 DEF IInv, Shape, Keeps, ListenerMoved
<1>4. EventsFit'
  BY <1>1 DEF IInv, EventsFit, Paying
<1>5. QED
  BY <1>2, <1>3, <1>4, RequestsStand DEF ListenerMoved

\* A step of the listener that leaves the tables alone.
LEMMA ListenerQuiet ==
  ASSUME IInv, ListenerMoved, UNCHANGED <<plan, tables, chain, request>>, failures' \in 0..MaxFailures
  PROVE  IInv'
<1>1. UNCHANGED <<plan, market, prediction, account, events>>
  BY DEF tables, chain
<1>2. Keeps
  BY <1>1, NothingChanges
<1>3. prediction' \in [Pairs -> PredictionRow \cup {NoRow}] /\ market' \in [Markets -> MarketRow]
  BY <1>1 DEF IInv, Shape, TypeOK
<1>4. QED
  BY <1>1, <1>2, <1>3, ListenerStep

LEMMA PollOverMoves ==
  ASSUME IInv, events' = events, NEW c \in 0..Len(events), missed' \subseteq Pairs,
         listener' = [PollOver EXCEPT !.cursor = c]
  PROVE  ListenerMoved
<1>1. listener \in ListenerState /\ Len(events) \in Nat
  BY ListenerTypes
<1>2. PollOver \in ListenerState /\ PollOver.copy = NoRow /\ PollOver.upto = 0
  BY <1>1 DEF ListenerState, PollOver
<1>3. listener' \in ListenerState /\ listener'.copy = NoRow /\ listener'.upto = 0
      /\ listener'.cursor = c
  BY <1>1, <1>2 DEF ListenerState
<1>4. ListenerFits'
  BY <1>3 DEF ListenerFits
<1>5. QED
  BY <1>1, <1>3, <1>4 DEF ListenerMoved

\* The poll ends with an error.
LEMMA PollGivenUp ==
  ASSUME IInv, listener' = PollOver, UNCHANGED <<plan, tables, chain, request, missed>>,
         failures' \in 0..MaxFailures
  PROVE  IInv'
<1>1. listener \in ListenerState /\ listener.cursor \in 0..Len(events) /\ missed \subseteq Pairs
  BY ListenerTypes DEF IInv, TypeOK
<1>2. PollOver = [PollOver EXCEPT !.cursor = listener.cursor]
  BY <1>1 DEF ListenerState, PollOver
<1>3. events' = events
  BY DEF chain
<1>4. QED
  BY <1>1, <1>2, <1>3, PollOverMoves, ListenerQuiet

LEMMA PollNextMoves ==
  ASSUME IInv, events' = events, listener.upto > 0, NEW skipped, skipped \subseteq Pairs,
         PollNext(skipped)
  PROVE  ListenerMoved
<1>1. /\ listener \in ListenerState /\ Len(events) \in Nat /\ missed \subseteq Pairs
      /\ listener.cursor \in 0..Len(events) /\ listener.upto \in 0..Len(events)
      /\ listener.pos \in 1..listener.upto /\ listener.latest \in listener.upto..Len(events)
  BY ListenerTypes DEF IInv, TypeOK
<1>2. CASE listener.pos = listener.upto
  <2>1. PayoutsIn(listener.upto + 1 .. listener.latest) \subseteq Pairs
    <3>1. listener.upto + 1 .. listener.latest \subseteq 1..Len(events)
      BY <1>1
    <3>2. QED
      BY <3>1 DEF PayoutsIn, IInv, EventsFit, Paying
  <2>2. missed' \subseteq Pairs /\ listener' = [PollOver EXCEPT !.cursor = listener.latest]
    BY <1>1, <1>2, <2>1 DEF PollNext
  <2>3. listener.latest \in 0..Len(events)
    BY <1>1
  <2>4. QED
    BY <2>2, <2>3, PollOverMoves
<1>3. CASE listener.pos # listener.upto
  <2> DEFINE q == listener.pos + 1
  <2>1. listener' = [listener EXCEPT !.pos = q, !.copy = NoRow] /\ missed' \subseteq Pairs
    BY <1>1, <1>3 DEF PollNext
  <2>2. q \in 1..listener.upto /\ q \in Nat
    BY <1>1, <1>3
  <2> HIDE DEF q
  <2>3. /\ listener' \in ListenerState /\ listener'.copy = NoRow /\ listener'.pos = q
        /\ listener'.upto = listener.upto /\ listener'.cursor = listener.cursor
        /\ listener'.latest = listener.latest
    BY <1>1, <2>1, <2>2 DEF ListenerState
  <2>4. ListenerFits'
    BY <1>1, <2>2, <2>3 DEF ListenerFits
  <2>5. QED
    BY <1>1, <2>1, <2>3, <2>4 DEF ListenerMoved
<1>4. QED
  BY <1>2, <1>3

LEMMA PollFetchInv == ASSUME IInv, PollFetch PROVE IInv'
<1> DEFINE q == listener.cursor + 1
           n == Len(events)
           last == listener.cursor + PAGE
           u == IF last < n THEN last ELSE n
<1>1. /\ listener \in ListenerState /\ Len(events) \in Nat /\ listener.cursor \in 0..Len(events)
      /\ listener.cursor < Len(events) /\ listener.upto = 0 /\ events' = events
      /\ UNCHANGED <<plan, tables, chain, request, failures, missed>>
  BY ListenerTypes DEF PollFetch, chain
<1>2. listener.copy = NoRow /\ missed \subseteq Pairs /\ failures \in 0..MaxFailures
  BY <1>1 DEF IInv, ListenerFits, TypeOK
<1>3. q \in 1..u /\ q \in Nat /\ n \in Nat /\ u \in 0..n /\ u \in Nat /\ n \in u..n
  BY <1>1
<1>4. listener' = [listener EXCEPT !.pos = q, !.latest = n, !.upto = u]
  BY DEF PollFetch
<1> HIDE DEF q, n, u
<1>5. /\ listener' \in ListenerState /\ listener'.copy = NoRow /\ listener'.pos = q
      /\ listener'.upto = u /\ listener'.latest = n /\ listener'.cursor = listener.cursor
  BY <1>1, <1>2, <1>3, <1>4 DEF ListenerState
<1>6. ListenerFits'
  BY <1>1, <1>3, <1>5 DEF ListenerFits, n
<1>7. ListenerMoved
  BY <1>1, <1>2, <1>3, <1>5, <1>6 DEF ListenerMoved, n
<1>8. QED
  BY <1>1, <1>2, <1>7, ListenerQuiet

LEMMA HandlePredictionSubmittedInv == ASSUME IInv, HandlePredictionSubmitted PROVE IInv'
<1>1. /\ UNCHANGED <<plan, tables, chain, request>> /\ events' = events
      /\ failures' \in 0..MaxFailures /\ listener.upto > 0
  BY DEF HandlePredictionSubmitted, chain, Handling, IInv, TypeOK
<1>2. CASE PollNext({})
  BY <1>1, <1>2, PollNextMoves, ListenerQuiet
<1>3. CASE listener' = PollOver /\ UNCHANGED missed
  BY <1>1, <1>3, PollGivenUp
<1>4. QED
  BY <1>2, <1>3 DEF HandlePredictionSubmitted

LEMMA HandleOtherInv == ASSUME IInv, HandleOther PROVE IInv'
<1>1. /\ UNCHANGED <<plan, tables, chain, request>> /\ events' = events /\ PollNext({})
      /\ failures' \in 0..MaxFailures /\ listener.upto > 0
  BY DEF HandleOther, chain, Handling, IInv, TypeOK
<1>2. QED
  BY <1>1, PollNextMoves, ListenerQuiet

LEMMA PollFailsInv == ASSUME IInv, PollFails PROVE IInv'
<1>1. /\ listener' = PollOver /\ UNCHANGED <<plan, tables, chain, request, missed>>
      /\ failures' \in 0..MaxFailures
  BY DEF PollFails, IInv, TypeOK
<1>2. QED
  BY <1>1, PollGivenUp

LEMMA HandleReadInv == ASSUME IInv, HandleRead PROVE IInv'
<1>1. /\ UNCHANGED <<plan, tables, chain, request>>
      /\ UNCHANGED <<market, prediction, account, phase, holders, paid, events>>
      /\ failures' \in 0..MaxFailures /\ listener.upto > 0 /\ missed \subseteq Pairs
  BY DEF HandleRead, chain, tables, Handling, IInv, TypeOK
<1>2. /\ listener \in ListenerState /\ Len(events) \in Nat
      /\ listener.cursor \in 0..Len(events) /\ listener.upto \in 0..Len(events)
      /\ listener.pos \in 1..listener.upto /\ Current.pair[2] \in Markets
      /\ listener.latest \in listener.upto..Len(events) /\ Paying(Current)
  BY <1>1, ListenerTypes
<1>3. ASSUME NEW c \in MarketRow \cup PredictionRow, listener' = [listener EXCEPT !.copy = c], missed' = missed,
             Current.type = "MarketResolved" => c \in MarketRow,
             Current.type = "PayoutClaimed" => Fits(prediction, c, Current.pair)
      PROVE  ListenerMoved
  <2>1. /\ listener' \in ListenerState /\ listener'.copy = c /\ listener'.pos = listener.pos
        /\ listener'.latest = listener.latest /\ listener'.upto = listener.upto /\ listener'.cursor = listener.cursor
    BY <1>2, <1>3 DEF ListenerState
  <2>2. Current' = Current
    BY <1>1, <2>1 DEF Current
  <2>3. ListenerFits'
    BY <1>1, <1>2, <1>3, <2>1, <2>2 DEF ListenerFits
  <2>4. QED
    BY <1>1, <1>2, <1>3, <2>1, <2>3 DEF ListenerMoved
<1>4. CASE /\ Handling("MarketResolved") /\ missed' = missed
           /\ listener' = [listener EXCEPT !.copy = market[Current.pair[2]]]
  <2>1. market[Current.pair[2]] \in MarketRow /\ Current.type = "MarketResolved"
    BY <1>2, <1>4 DEF IInv, TypeOK, Handling
  <2>2. QED
    BY <1>1, <1>3, <1>4, <2>1, ListenerQuiet
<1>5. CASE /\ Handling("PayoutClaimed") /\ Current.pair \in Rows /\ missed' = missed
           /\ listener' = [listener EXCEPT !.copy = prediction[Current.pair]]
  <2>1. Fits(prediction, prediction[Current.pair], Current.pair)
        /\ Current.type = "PayoutClaimed"
    BY <1>5, RowFits DEF Handling
  <2>2. prediction[Current.pair] \in PredictionRow
    BY <2>1 DEF Fits
  <2>3. QED
    BY <1>1, <1>3, <1>5, <2>1, <2>2, ListenerQuiet
<1>6. CASE Handling("PayoutClaimed") /\ PollNext({Current.pair})
  <2>1. {Current.pair} \subseteq Pairs
    BY <1>2, <1>6 DEF Paying, Handling
  <2>2. QED
    BY <1>1, <1>6, <2>1, PollNextMoves, ListenerQuiet
<1>7. QED
  BY <1>4, <1>5, <1>6 DEF HandleRead

LEMMA HandleMarketResolvedInv == ASSUME IInv, HandleMarketResolved PROVE IInv'
<1> DEFINE m == Current.pair[2]
           w == Current.outcome
           new == [listener.copy EXCEPT !.is_resolved = TRUE, !.resolved_outcome = w]
<1>1. /\ listener.copy \in MarketRow /\ listener.upto > 0
      /\ market' = [market EXCEPT ![m] = new] /\ PollNext({})
      /\ UNCHANGED <<plan, prediction, account, events, request, failures>>
      /\ UNCHANGED chain
  BY DEF HandleMarketResolved, chain, IInv, ListenerFits
<1>2. m \in Markets /\ w \in Outcomes \cup {NoOutcome}
  BY <1>1, ListenerTypes DEF Event
<1>3. market \in [Markets -> MarketRow] /\ failures' \in 0..MaxFailures
  BY <1>1 DEF IInv, TypeOK
<1> HIDE DEF m, w
<1>4. new \in MarketRow
  BY <1>1, <1>2 DEF MarketRow
<1> HIDE DEF new
<1>5. market' \in [Markets -> MarketRow]
  BY <1>1, <1>2, <1>3, <1>4
<1>6. Keeps
  BY <1>1, NothingChanges
<1>7. prediction' \in [Pairs -> PredictionRow \cup {NoRow}]
  BY <1>1 DEF IInv, Shape
<1>8. ListenerMoved
  BY <1>1, PollNextMoves
<1>9. QED
  BY <1>1, <1>3, <1>5, <1>6, <1>7, <1>8, ListenerStep

LEMMA HandlePayoutClaimedRows ==
  ASSUME IInv, HandlePayoutClaimed
  PROVE  Keeps /\ prediction' \in [Pairs -> PredictionRow \cup {NoRow}] /\ SameRows
<1> DEFINE p == Current.pair
           copy == listener.copy
           new == [copy EXCEPT !.payout_claimed = TRUE]
<1>1. /\ Fits(prediction, copy, p) /\ listener.upto > 0 /\ Current.type = "PayoutClaimed"
      /\ prediction' = [prediction EXCEPT ![p] = new]
      /\ UNCHANGED <<plan, events>>
  BY DEF HandlePayoutClaimed, chain, IInv, ListenerFits
<1>2. copy \in PredictionRow
  BY <1>1 DEF Fits
<1> HIDE DEF p, copy
<1>3. /\ new \in PredictionRow /\ new.chosen_outcome = copy.chosen_outcome
      /\ new.stake = copy.stake /\ new.clientIdempotencyKey = copy.clientIdempotencyKey
  BY <1>2 DEF PredictionRow
<1> HIDE DEF new
<1>4. QED
  BY <1>1, <1>2, <1>3, RowReplaced

LEMMA HandlePayoutClaimedInv == ASSUME IInv, HandlePayoutClaimed PROVE IInv'
<1>1. /\ listener.upto > 0 /\ PollNext({}) /\ UNCHANGED <<market, account, request, chain>>
      /\ events' = events /\ failures' \in 0..MaxFailures
  BY DEF HandlePayoutClaimed, chain, IInv, ListenerFits, TypeOK
<1>2. ListenerMoved
  BY <1>1, PollNextMoves
<1>3. market' \in [Markets -> MarketRow]
  BY <1>1 DEF IInv, TypeOK
<1>4. QED
  BY <1>1, <1>2, <1>3, HandlePayoutClaimedRows, ListenerStep

-----------------------------------------------------------------------------
(* The invariant holds. *)

LEMMA InvInit == Init => IInv
<1> SUFFICES ASSUME Init PROVE IInv
  OBVIOUS
<1>1. Rows = {} /\ prediction \in [Pairs -> PredictionRow \cup {NoRow}]
  BY DEF Init, Rows
<1>2. NewRequest \in RequestState
  BY DEF NewRequest, RequestState, Results, Positions
<1>3. /\ NewRequest.pc = "new" /\ NewRequest.sent = {} /\ NewRequest.failed = {}
      /\ NewRequest.i = 1 /\ NewRequest.result = "none"
  BY DEF NewRequest
<1>4. request = [r \in Requests |-> NewRequest]
  BY DEF Init
<1>5. NewMarket \in MarketRow
  BY DEF NewMarket, MarketRow
<1>6. /\ listener = [cursor |-> 0, pos |-> 0, upto |-> 0, latest |-> 0, copy |-> NoRow]
      /\ events = <<>>
      /\ Len(events) = 0
  BY DEF Init
<1>7. market \in [Markets -> MarketRow]
  BY <1>5 DEF Init
<1>8. \A r \in Requests :
        /\ request[r].sent \cap request[r].failed = {}
        /\ request[r].result \in Results
  BY <1>3, <1>4 DEF Results
<1>9. TypeOK
  BY <1>1, <1>6, <1>7, <1>8 DEF Init, TypeOK, Results
<1>10. Shape
  <2>1. request \in [Requests -> RequestState]
    BY <1>2, <1>4
  <2>2. listener \in ListenerState /\ events \in Seq(Event)
    BY <1>6 DEF ListenerState
  <2>3. QED
    BY <1>1, <2>1, <2>2 DEF Init, Shape
<1>11. RequestsFit
  BY <1>3, <1>4 DEF RequestsFit, SubmissionFits, ClaimFits
<1>12. ListenerFits /\ EventsFit
  BY <1>6 DEF ListenerFits, EventsFit
<1>13. QED
  BY <1>9, <1>10, <1>11, <1>12 DEF IInv

LEMMA InvStutter == ASSUME IInv, UNCHANGED vars PROVE IInv'
<1>1. UNCHANGED <<plan, market, prediction, account, phase, holders, paid, events, listener,
                  request, failures, missed>>
  BY DEF vars
<1>2. Keeps
  BY <1>1, NothingChanges
<1>3. Columns' /\ Shape' /\ EventsFit'
  BY <1>1 DEF IInv, TypeOK, Columns, Shape, EventsFit, Paying
<1>4. QED
  BY <1>1, <1>2, <1>3, ListenerStands, RequestsStand

LEMMA InvNext == IInv /\ [Next]_vars => IInv'
<1> SUFFICES ASSUME IInv, [Next]_vars PROVE IInv'
  OBVIOUS
<1>1. ASSUME NEW r \in Requests, Submission(r) PROVE IInv'
  BY <1>1, SubmitLoadInv, SubmitByKeyInv, SubmitByMarketInv, SlipLoadInv, SlipExistingInv,
     SlipValidateInv, ChainSubmitInv, ChainFailsInv, SkipFailedInv, SaveInv DEF Submission
<1>2. ASSUME NEW r \in Requests, Claiming(r) PROVE IInv'
  BY <1>2, NoteReadInv, NoteSaveInv, ClaimListInv, ClaimReadInv, ClaimPayInv, ClaimSaveInv,
     ResolveReadInv, ResolveSaveInv DEF Claiming
<1>3. ASSUME NEW r \in Requests, Stop(r) PROVE IInv'
  BY <1>3, StopInv
<1>4. CASE Contract
  BY <1>4, PositionInv, MarketInv DEF Contract
<1>5. CASE Listen \/ PollFails
  BY <1>5, PollFetchInv, HandlePredictionSubmittedInv, HandleOtherInv, HandleReadInv,
     HandleMarketResolvedInv, HandlePayoutClaimedInv, PollFailsInv DEF Listen
<1>6. CASE UNCHANGED vars
  BY <1>6, InvStutter
<1>7. QED
  BY <1>1, <1>2, <1>3, <1>4, <1>5, <1>6 DEF Next

LEMMA InvHolds == Spec => []IInv
BY InvInit, InvNext, PTL DEF Spec

-----------------------------------------------------------------------------
(* What follows from it. *)

\* Rows, totals, requests and the listener keep their types.
THEOREM TypeCorrect == Spec => []TypeOK
<1>1. IInv => TypeOK
  BY DEF IInv
<1>2. QED
  BY <1>1, InvHolds, PTL

-----------------------------------------------------------------------------
(* The totals. *)

Total(rows, ps) == SumFunction([p \in ps |-> rows[p].stake])

\* The rows are finitely many, and counted.
TInv == IsFiniteSet(Rows) /\ TotalsMatch

\* A step but Save keeps the rows, and every total that it does not lose.
SameTotals ==
  /\ SameRows /\ account' = account /\ lost \subseteq lost'
  /\ \A m \in Markets \ lost' :
       /\ market'[m].participant_count = market[m].participant_count
       /\ market'[m].total_pool_stroops = market[m].total_pool_stroops

LEMMA ResolvedTotals == ASSUME IInv, HandleMarketResolved PROVE SameTotals
<1> DEFINE m == Current.pair[2]
           w == Current.outcome
           new == [listener.copy EXCEPT !.is_resolved = TRUE, !.resolved_outcome = w]
<1>1. /\ listener.copy \in MarketRow /\ listener.upto > 0
      /\ market' = [market EXCEPT ![m] = new]
      /\ lost' = lost \cup Stale(m, listener.copy, market[m])
      /\ UNCHANGED <<prediction, account>>
  BY DEF HandleMarketResolved, IInv, ListenerFits
<1>2. market \in [Markets -> MarketRow]
  BY DEF IInv, TypeOK
<1> HIDE DEF m, w
<1>3. /\ new.participant_count = listener.copy.participant_count
      /\ new.total_pool_stroops = listener.copy.total_pool_stroops
  BY <1>1 DEF MarketRow
<1>4. m \notin lost' => listener.copy = market[m]
  BY <1>1 DEF Stale
<1> HIDE DEF new
<1>5. \A x \in Markets : market'[x] = IF x = m THEN new ELSE market[x]
  BY <1>1, <1>2
<1>6. SameRows
  BY <1>1 DEF SameRows
<1>7. QED
  BY <1>1, <1>3, <1>4, <1>5, <1>6 DEF SameTotals

LEMMA AdminTotals == ASSUME IInv, NEW r \in Requests, ResolveSave(r) PROVE SameTotals
<1> DEFINE m == Items(r)[1].market
<1>1. PICK new \in MarketRow :
        /\ m \in Markets /\ market' = [market EXCEPT ![m] = new]
        /\ new.participant_count = request[r].copy.participant_count
        /\ new.total_pool_stroops = request[r].copy.total_pool_stroops
  BY ResolveSaveRow
<1>2. lost' = lost \cup Stale(m, request[r].copy, market[m]) /\ UNCHANGED <<prediction, account>>
  BY DEF ResolveSave
<1> HIDE DEF m
<1>3. m \notin lost' => request[r].copy = market[m]
  BY <1>2 DEF Stale
<1>4. \A x \in Markets : market'[x] = IF x = m THEN new ELSE market[x]
  BY <1>1 DEF IInv, TypeOK
<1>5. SameRows
  BY <1>2 DEF SameRows
<1>6. QED
  BY <1>1, <1>2, <1>3, <1>4, <1>5 DEF SameTotals

LEMMA StepTotals ==
  ASSUME IInv, [Next]_vars
  PROVE  SameTotals \/ \E r \in Requests : Save(r) /\ Persistable(r)
<1>1. UNCHANGED <<prediction, market, account, lost>> => SameTotals
  BY DEF SameTotals, SameRows
<1>2. SameRows /\ UNCHANGED <<market, account>> /\ lost \subseteq lost' => SameTotals
  BY DEF SameTotals
<1>3. ASSUME NEW r \in Requests, Submission(r)
      PROVE  SameTotals \/ (Save(r) /\ Persistable(r))
  BY <1>1, <1>3 DEF Submission, SubmitLoad, SubmitByKey, SubmitByMarket, SlipLoad, SlipExisting,
     SlipValidate, ChainSubmit, ChainFails, SkipFailed, Save, tables
<1>4. ASSUME NEW r \in Requests, Claiming(r) PROVE SameTotals
  <2>1. CASE NoteSave(r)
    BY <1>2, <2>1, NoteSaveRows DEF NoteSave
  <2>2. CASE ClaimSave(r)
    BY <1>2, <2>2, ClaimSaveRows DEF ClaimSave
  <2>3. CASE ResolveSave(r)
    BY <2>3, AdminTotals
  <2>4. QED
    BY <1>1, <1>4, <2>1, <2>2, <2>3 DEF Claiming, NoteRead, ClaimList, ClaimRead, ClaimPay,
       ResolveRead, tables
<1>5. ASSUME NEW r \in Requests, Stop(r) PROVE SameTotals
  BY <1>1, <1>5 DEF Stop, tables
<1>6. CASE Contract
  BY <1>1, <1>6 DEF Contract, TakePosition, LeavePosition, Pay, End, Resolve, Reopen, tables
<1>7. CASE Listen \/ PollFails
  <2>1. CASE HandleMarketResolved
    BY <2>1, ResolvedTotals
  <2>2. CASE HandlePayoutClaimed
    BY <1>2, <2>2, HandlePayoutClaimedRows DEF HandlePayoutClaimed
  <2>3. QED
    BY <1>1, <1>7, <2>1, <2>2 DEF Listen, PollFetch, HandlePredictionSubmitted,
       HandleOther, HandleRead, PollFails, tables
<1>8. CASE UNCHANGED vars
  BY <1>1, <1>8 DEF vars
<1>9. QED
  BY <1>3, <1>4, <1>5, <1>6, <1>7, <1>8 DEF Next

LEMMA SameTotalsKept == ASSUME IInv, TInv, SameTotals PROVE TInv'
<1>1. Rows' = Rows
  BY DEF SameTotals, SameRows, Rows
<1>2. \A ps : ps \subseteq Rows => Total(prediction', ps) = Total(prediction, ps)
  <2> SUFFICES ASSUME NEW ps, ps \subseteq Rows
               PROVE  Total(prediction', ps) = Total(prediction, ps)
    OBVIOUS
  <2>1. \A p \in ps : prediction'[p].stake = prediction[p].stake
    BY DEF SameTotals, SameRows, Rows
  <2>2. [p \in ps |-> prediction'[p].stake] = [p \in ps |-> prediction[p].stake]
    BY <2>1
  <2>3. QED
    BY <2>2 DEF Total
<1>3. /\ \A m : Total(prediction', {p \in Rows : p[2] = m}) = Total(prediction, {p \in Rows : p[2] = m})
      /\ \A u : Total(prediction', {p \in Rows : p[1] = u}) = Total(prediction, {p \in Rows : p[1] = u})
  BY <1>2
<1>4. TotalsMatch'
  <2>1. ASSUME NEW m \in Markets, m \notin lost'
        PROVE  /\ market'[m].participant_count = Cardinality({p \in Rows' : p[2] = m})
               /\ market'[m].total_pool_stroops = Total(prediction', {p \in Rows' : p[2] = m})
    <3>1. /\ market[m].participant_count = Cardinality({p \in Rows : p[2] = m})
          /\ market[m].total_pool_stroops = Total(prediction, {p \in Rows : p[2] = m})
      BY <2>1 DEF TInv, TotalsMatch, Total, SameTotals
    <3>2. QED
      BY <1>1, <1>3, <2>1, <3>1 DEF SameTotals
  <2>2. ASSUME NEW u \in Users
        PROVE  /\ account'[u].total_predictions = Cardinality({p \in Rows' : p[1] = u})
               /\ account'[u].total_staked_stroops = Total(prediction', {p \in Rows' : p[1] = u})
    <3>1. /\ account[u].total_predictions = Cardinality({p \in Rows : p[1] = u})
          /\ account[u].total_staked_stroops = Total(prediction, {p \in Rows : p[1] = u})
      BY DEF TInv, TotalsMatch, Total
    <3>2. QED
      BY <1>1, <1>3, <3>1 DEF SameTotals
  <2>3. QED
    BY <2>1, <2>2 DEF TotalsMatch, Total
<1>5. QED
  BY <1>1, <1>4 DEF TInv

\* The pairs of some items.
PairsOf(r, ks) == {Pair(r, k) : k \in ks}

\* Save stores every sent item.
LEMMA SavedRow ==
  ASSUME IInv, NEW r \in Requests, Save(r), Persistable(r)
  PROVE  /\ \A j, k \in request[r].sent : Pair(r, j) = Pair(r, k) => j = k
         /\ \A k \in request[r].sent : prediction'[Pair(r, k)] = NewPrediction(Items(r)[k])
<1>1. OtherMarkets(r, request[r].failed) /\ request[r].sent \cap request[r].failed = {}
  BY DEF Save, IInv, TypeOK, RequestsFit, SubmissionFits
<1>2. \A j, k \in request[r].sent : Pair(r, j) = Pair(r, k) => j = k
  <2> SUFFICES ASSUME NEW j \in request[r].sent, NEW k \in request[r].sent,
                      Pair(r, j) = Pair(r, k), j # k
               PROVE  FALSE
    OBVIOUS
  <2>1. j \in Indices(r) \ request[r].failed /\ k \in Indices(r) \ request[r].failed
    BY <1>1, SaveRows
  <2>2. Items(r)[j].market = Items(r)[k].market
    BY DEF Pair
  <2>3. QED
    BY <1>1, <2>1, <2>2 DEF OtherMarkets
<1>3. ASSUME NEW k \in request[r].sent PROVE prediction'[Pair(r, k)] = NewPrediction(Items(r)[k])
  <2>1. Pair(r, k) \in Pairs
    BY SaveRows
  <2>2. PICK j \in request[r].sent :
          Pair(r, j) = Pair(r, k) /\ prediction'[Pair(r, k)] = NewPrediction(Items(r)[j])
    BY <2>1, SaveRows
  <2>3. QED
    BY <1>2, <2>2
<1>4. QED
  BY <1>2, <1>3

\* The rows that Save adds for some of the sent items: as many as the items,
\* with their stakes.
LEMMA SavedItems ==
  ASSUME IInv, NEW r \in Requests, Save(r), Persistable(r), NEW ks, ks \subseteq request[r].sent
  PROVE  LET ps == PairsOf(r, ks) IN
           /\ IsFiniteSet(ps) /\ Cardinality(ps) = Cardinality(ks) /\ ps \subseteq Pairs
           /\ ps \cap Rows = {}
           /\ [p \in ps |-> prediction'[p].stake] \in [ps -> Nat]
           /\ Total(prediction', ps) = Stakes(r, ks)
<1> DEFINE ps == PairsOf(r, ks)
           h == [k \in ks |-> Pair(r, k)]
           f1 == [k \in ks |-> Items(r)[k].stake]
           f2 == [p \in ps |-> prediction'[p].stake]
<1>1. \A k \in ks : /\ k \in Indices(r) /\ Pair(r, k) \in Pairs /\ prediction[Pair(r, k)] = NoRow
                    /\ Items(r)[k].stake \in Nat
  BY SaveRows, PlanTypes
<1>2. ASSUME NEW k \in ks PROVE prediction'[Pair(r, k)].stake = Items(r)[k].stake
  <2>1. prediction'[Pair(r, k)] = NewPrediction(Items(r)[k])
    BY SavedRow
  <2>2. QED
    BY <2>1 DEF NewPrediction
<1>3. IsFiniteSet(ks)
  BY <1>1, StakesNat
<1>4. h \in [ks -> ps] /\ \A k \in ks : h[k] = Pair(r, k)
  BY DEF PairsOf
<1>5. (\A p \in ps : \E k \in ks : p = h[k]) /\ \A j, k \in ks : h[j] = h[k] => j = k
  BY SavedRow DEF PairsOf
<1>6. ps \subseteq Pairs /\ ps \cap Rows = {}
  BY <1>1 DEF PairsOf, Rows
<1>7. f1 \in [ks -> Nat] /\ f2 \in [ps -> Nat] /\ \A k \in ks : f2[h[k]] = f1[k]
  BY <1>1, <1>2 DEF PairsOf
<1>8. Total(prediction', ps) = SumFunction(f2) /\ Stakes(r, ks) = SumFunction(f1)
  BY DEF Total, Stakes
<1> HIDE DEF h, f1, f2
<1>9. ps = {h[k] : k \in ks}
  BY <1>4, <1>5
<1>10. h \in Bijection(ks, ps)
  BY <1>4, <1>5 DEF Bijection, Injection, IsInjective, Surjection
<1>11. IsFiniteSet(ps) /\ Cardinality(ps) = Cardinality(ks)
  BY <1>3, <1>10, FS_Bijection DEF ExistsBijection
<1>12. Reindexes(h, ks, ps, f1, f2)
  BY <1>4, <1>5, <1>7, <1>9 DEF Reindexes
<1>13. f1 \in [ks -> Int] /\ f2 \in [ps -> Int]
  BY <1>7
<1> HIDE DEF ps
<1>14. SumFunction(f2) = SumFunction(f1)
  BY <1>3, <1>11, <1>12, <1>13, SumReindex
<1>15. QED
  BY <1>6, <1>7, <1>8, <1>11, <1>14 DEF ps, f2

\* Some of the rows before Save together with those of some sent items.
LEMMA SavedTotal ==
  ASSUME IInv, TInv, NEW r \in Requests, Save(r), Persistable(r),
         NEW ks, ks \subseteq request[r].sent, NEW old, old \subseteq Rows
  PROVE  LET ps == old \cup PairsOf(r, ks) IN
           /\ Cardinality(ps) = Cardinality(old) + Cardinality(ks)
           /\ Total(prediction', ps) = Total(prediction, old) + Stakes(r, ks)
<1> DEFINE new == PairsOf(r, ks)
           fo == [p \in old |-> prediction[p].stake]
           fn == [p \in new |-> prediction'[p].stake]
           f == [p \in old \cup new |-> prediction'[p].stake]
<1>1. IsFiniteSet(old) /\ Cardinality(old) \in Nat
  BY FS_Subset, FS_CardinalityType DEF TInv
<1>2. /\ IsFiniteSet(new) /\ Cardinality(new) = Cardinality(ks) /\ new \cap Rows = {}
      /\ fn \in [new -> Nat] /\ SumFunction(fn) = Stakes(r, ks)
  BY SavedItems DEF Total
<1>3. Cardinality(new) \in Nat /\ old \cap new = {}
  BY <1>2, FS_CardinalityType
<1>4. Cardinality(old \cup new) = Cardinality(old) + Cardinality(new)
  <2>1. Cardinality(old \cup new)
          = Cardinality(old) + Cardinality(new) - Cardinality(old \cap new)
    BY <1>1, <1>2, FS_Union
  <2>2. Cardinality(old \cap new) = 0
    BY <1>3, FS_EmptySet
  <2>3. QED
    BY <1>1, <1>3, <2>1, <2>2
<1>5. \A p \in old : prediction'[p] = prediction[p] /\ prediction[p].stake \in Nat
  <2> SUFFICES ASSUME NEW p \in old
               PROVE  prediction'[p] = prediction[p] /\ prediction[p].stake \in Nat
    OBVIOUS
  <2>1. p \in Pairs /\ prediction[p] # NoRow /\ prediction[p] \in PredictionRow
    BY DEF Rows, IInv, Shape
  <2>2. prediction'[p] = prediction[p]
    BY <2>1, SaveRows
  <2>3. QED
    BY <2>1, <2>2 DEF PredictionRow
<1>6. fo \in [old -> Int] /\ fn \in [new -> Int]
  BY <1>2, <1>5
<1>7. /\ f \in [old \cup new -> Int]
      /\ (\A p \in old : fo[p] = f[p]) /\ (\A p \in new : fn[p] = f[p])
  <2>1. \A p \in old \cup new : prediction'[p].stake \in Int
    <3>1. \A p \in new : fn[p] = prediction'[p].stake /\ fn[p] \in Int
      BY <1>6
    <3>2. QED
      BY <1>5, <3>1
  <2>2. QED
    BY <1>5, <2>1
<1> HIDE DEF new, fo, fn, f
<1>8. SumFunction(f) = SumFunction(fo) + SumFunction(fn)
  <2>1. Splits(old, new, f, fo, fn)
    BY <1>3, <1>6, <1>7 DEF Splits
  <2>2. QED
    BY <1>1, <1>2, <2>1, SumUnion
<1>9. Total(prediction', old \cup new) = SumFunction(f) /\ Total(prediction, old) = SumFunction(fo)
  BY DEF Total, f, fo
<1>10. QED
  BY <1>2, <1>4, <1>8, <1>9 DEF new

LEMMA SaveCounts ==
  ASSUME IInv, TInv, NEW r \in Requests, Save(r), Persistable(r)
  PROVE  TInv'
<1> DEFINE S == request[r].sent
           In(m) == {k \in S : Items(r)[k].market = m}
           OnMarket(rows, m) == {p \in rows : p[2] = m}
           OfUser(rows, u) == {p \in rows : p[1] = u}
           user == plan[r].user
<1>1. Rows' = Rows \cup PairsOf(r, S)
  <2>1. ASSUME NEW p \in Pairs
        PROVE  prediction'[p] # NoRow <=> prediction[p] # NoRow \/ \E k \in S : Pair(r, k) = p
    <3>1. CASE prediction'[p] = prediction[p] /\ \A k \in S : Pair(r, k) # p
      BY <3>1
    <3>2. CASE \E k \in S : Pair(r, k) = p /\ prediction'[p] = NewPrediction(Items(r)[k])
      <4>1. PICK k \in S : Pair(r, k) = p /\ prediction'[p] = NewPrediction(Items(r)[k])
        BY <3>2
      <4>2. Items(r)[k].outcome \in Outcomes /\ Items(r)[k].stake \in Nat /\ Items(r)[k].key \in Keys
        BY SaveRows, PlanTypes
      <4>3. NewPrediction(Items(r)[k]) \in PredictionRow
        BY <4>2 DEF NewPrediction, PredictionRow
      <4>4. QED
        BY <4>1, <4>3
    <3>3. QED
      BY <3>1, <3>2, SaveRows
  <2>2. \A k \in S : Pair(r, k) \in Pairs
    BY SaveRows
  <2>3. QED
    BY <2>1, <2>2 DEF Rows, PairsOf
<1>2. IsFiniteSet(Rows')
  BY <1>1, SavedItems, FS_Union DEF TInv
<1>3. S \subseteq Indices(r)
  BY SaveRows
<1>4. /\ market' = [m \in Markets |-> [market[m] EXCEPT
           !.participant_count = @ + Cardinality(In(m)),
           !.total_pool_stroops = @ + Stakes(r, In(m))]]
      /\ account' = [account EXCEPT
           ![user].total_predictions = @ + Cardinality(S),
           ![user].total_staked_stroops = @ + Stakes(r, S)]
      /\ lost' = lost
  BY DEF Save, Saved, Counted
<1>5. ASSUME NEW m \in Markets, m \notin lost
      PROVE  /\ market'[m].participant_count = Cardinality(OnMarket(Rows', m))
             /\ market'[m].total_pool_stroops = Total(prediction', OnMarket(Rows', m))
  <2>1. OnMarket(Rows', m) = OnMarket(Rows, m) \cup PairsOf(r, In(m))
    <3>1. \A k : Pair(r, k)[2] = Items(r)[k].market
      BY DEF Pair
    <3>2. QED
      BY <1>1, <3>1 DEF PairsOf
  <2>2. /\ market[m].participant_count = Cardinality(OnMarket(Rows, m))
        /\ market[m].total_pool_stroops = Total(prediction, OnMarket(Rows, m))
    BY <1>5 DEF TInv, TotalsMatch, Total
  <2>3. /\ Cardinality(OnMarket(Rows', m)) = Cardinality(OnMarket(Rows, m)) + Cardinality(In(m))
        /\ Total(prediction', OnMarket(Rows', m))
             = Total(prediction, OnMarket(Rows, m)) + Stakes(r, In(m))
    <3>1. In(m) \subseteq request[r].sent /\ OnMarket(Rows, m) \subseteq Rows
      OBVIOUS
    <3> HIDE DEF In, OnMarket
    <3>2. QED
      BY <2>1, <3>1, SavedTotal
  <2> HIDE DEF In, OnMarket
  <2>4. /\ market'[m].participant_count = market[m].participant_count + Cardinality(In(m))
        /\ market'[m].total_pool_stroops = market[m].total_pool_stroops + Stakes(r, In(m))
    <3>1. market[m] \in MarketRow
      BY DEF IInv, TypeOK
    <3>2. QED
      BY <1>4, <3>1 DEF MarketRow
  <2>5. QED
    BY <2>2, <2>3, <2>4
<1>6. ASSUME NEW u \in Users
      PROVE  /\ account'[u].total_predictions = Cardinality(OfUser(Rows', u))
             /\ account'[u].total_staked_stroops = Total(prediction', OfUser(Rows', u))
  <2>1. \A k : Pair(r, k)[1] = user
    BY DEF Pair
  <2>2. /\ account[u].total_predictions = Cardinality(OfUser(Rows, u))
        /\ account[u].total_staked_stroops = Total(prediction, OfUser(Rows, u))
    BY DEF TInv, TotalsMatch, Total
  <2>3. account \in [Users -> [total_predictions : Nat, total_staked_stroops : Nat]] /\ user \in Users
    BY PlanTypes DEF IInv, TypeOK
  <2>4. CASE u = user
    <3>1. OfUser(Rows', u) = OfUser(Rows, u) \cup PairsOf(r, S)
      BY <1>1, <2>1, <2>4 DEF PairsOf
    <3>2. S \subseteq request[r].sent /\ OfUser(Rows, u) \subseteq Rows
      OBVIOUS
    <3> HIDE DEF OfUser, S
    <3>3. /\ Cardinality(OfUser(Rows', u)) = Cardinality(OfUser(Rows, u)) + Cardinality(S)
          /\ Total(prediction', OfUser(Rows', u)) = Total(prediction, OfUser(Rows, u)) + Stakes(r, S)
      BY <3>1, <3>2, SavedTotal
    <3>4. /\ account'[u].total_predictions = account[u].total_predictions + Cardinality(S)
          /\ account'[u].total_staked_stroops = account[u].total_staked_stroops + Stakes(r, S)
      BY <1>4, <2>3, <2>4
    <3>5. QED
      BY <2>2, <3>3, <3>4
  <2>5. CASE u # user
    <3>1. OfUser(Rows', u) = OfUser(Rows, u)
      BY <1>1, <2>1, <2>5 DEF PairsOf
    <3>2. PairsOf(r, {}) = {} /\ {} \subseteq request[r].sent /\ OfUser(Rows, u) \subseteq Rows
      BY DEF PairsOf
    <3>3. account'[u] = account[u]
      BY <1>4, <2>3, <2>5
    <3>4. \A p \in OfUser(Rows, u) : prediction'[p].stake = prediction[p].stake
      BY SaveRows DEF Rows
    <3> HIDE DEF OfUser
    <3>5. [p \in OfUser(Rows, u) |-> prediction'[p].stake] = [p \in OfUser(Rows, u) |-> prediction[p].stake]
      BY <3>4
    <3>6. Total(prediction', OfUser(Rows, u)) = Total(prediction, OfUser(Rows, u))
      BY <3>5 DEF Total
    <3>7. QED
      BY <2>2, <3>1, <3>3, <3>6
  <2>6. QED
    BY <2>4, <2>5
<1>7. TotalsMatch'
  <2>1. TotalsMatch' <=>
          /\ \A m \in Markets \ lost' :
               /\ market'[m].participant_count = Cardinality(OnMarket(Rows', m))
               /\ market'[m].total_pool_stroops = Total(prediction', OnMarket(Rows', m))
          /\ \A u \in Users :
               /\ account'[u].total_predictions = Cardinality(OfUser(Rows', u))
               /\ account'[u].total_staked_stroops = Total(prediction', OfUser(Rows', u))
    BY DEF TotalsMatch, Total
  <2> HIDE DEF OnMarket, OfUser
  <2>2. QED
    BY <1>4, <1>5, <1>6, <2>1
<1>8. QED
  BY <1>2, <1>7 DEF TInv

LEMMA TotalsInit == Init => TInv
<1> SUFFICES ASSUME Init PROVE TInv
  OBVIOUS
<1>1. Rows = {}
  BY DEF Init, Rows
<1>2. IsFiniteSet({}) /\ Cardinality({}) = 0
  BY FS_EmptySet
<1>3. Total(prediction, {}) = 0
  <2> DEFINE f == [p \in {} |-> prediction[p].stake]
  <2>1. f \in [{} -> Int] /\ \A x \in {} : f[x] = 0
    OBVIOUS
  <2> HIDE DEF f
  <2>2. SumFunction(f) = 0
    BY <1>2, <2>1, SumZero
  <2>3. QED
    BY <2>2 DEF Total, f
<1>4. (\A m : {p \in Rows : p[2] = m} = {}) /\ (\A u : {p \in Rows : p[1] = u} = {})
  BY <1>1
<1>5. /\ \A m \in Markets : market[m].participant_count = 0 /\ market[m].total_pool_stroops = 0
      /\ \A u \in Users : account[u].total_predictions = 0 /\ account[u].total_staked_stroops = 0
  BY DEF Init, NewMarket
<1>6. TotalsMatch <=>
        /\ \A m \in Markets \ lost :
             /\ market[m].participant_count = Cardinality({p \in Rows : p[2] = m})
             /\ market[m].total_pool_stroops = Total(prediction, {p \in Rows : p[2] = m})
        /\ \A u \in Users :
             /\ account[u].total_predictions = Cardinality({p \in Rows : p[1] = u})
             /\ account[u].total_staked_stroops = Total(prediction, {p \in Rows : p[1] = u})
  BY DEF TotalsMatch, Total
<1>7. TotalsMatch
  BY <1>2, <1>3, <1>4, <1>5, <1>6
<1>8. QED
  BY <1>1, <1>2, <1>7 DEF TInv

\* The totals of markets and users count every stored prediction once, whatever
\* submissions and slips interleave; only handleMarketResolved and resolveMarket,
\* saving a stale copy of a market, can lose one.
THEOREM TotalsCount == Spec => []TotalsMatch
<1>1. IInv /\ TInv /\ [Next]_vars => TInv'
  BY StepTotals, SameTotalsKept, SaveCounts
<1>2. TInv => TotalsMatch
  BY DEF TInv
<1>3. QED
  BY <1>1, <1>2, InvHolds, TotalsInit, PTL DEF Spec

-----------------------------------------------------------------------------
(* Slips. *)

\* The clientIdempotencyKeys of a call.
KeysOf(call) == {call.items[k].key : k \in 1..Len(call.items)}

\* A call that stores predictions shares no key with an atomic slip, unless it is
\* the same atomic slip sent again.
KeysAreOfOneSlip ==
  \A p \in Plans, r, q \in Requests :
    r # q /\ p[r].kind = "slip" /\ p[r].atomic /\ p[q].kind \in {"submit", "slip"} =>
      \/ KeysOf(p[r]) \cap KeysOf(p[q]) = {}
      \/ KeysOf(p[r]) = KeysOf(p[q]) /\ p[q].kind = "slip" /\ p[q].atomic

AtomicSlip(r) == plan[r].kind = "slip" /\ plan[r].atomic

\* While an atomic slip is sent, no item has failed and all before i are sent.
Complete(r) ==
  request[r].pc = "sending" =>
    /\ request[r].failed = {} /\ request[r].sent = 1..(request[r].i - 1)
    /\ request[r].i <= Len(Items(r)) + 1

AllUsed(r) == \A k \in Indices(r) : KeyUsed(Items(r)[k].key)
NoneUsed(r) == \A k \in Indices(r) : ~KeyUsed(Items(r)[k].key)

SlipFits(r) ==
  /\ Complete(r) /\ (AllUsed(r) \/ NoneUsed(r))
  /\ request[r].result = "ok" => AllUsed(r)

SInv == \A r \in Requests : AtomicSlip(r) => SlipFits(r)

LEMMA FinishSets ==
  ASSUME IInv, NEW r \in Requests, NEW result, Finish(r, result)
  PROVE  request'[r].pc = "done" /\ request'[r].result = result
<1>1. request \in [Requests -> RequestState]
  BY DEF IInv, Shape
<1>2. request'[r] = [NewRequest EXCEPT !.pc = "done", !.sent = request[r].sent,
                                      !.failed = request[r].failed, !.result = result]
  BY <1>1 DEF Finish
<1>3. QED
  BY <1>2 DEF NewRequest

\* A request does not move another.
LEMMA OthersStand ==
  ASSUME IInv, NEW r \in Requests, NEW q \in Requests \ {r},
         Submission(q) \/ Claiming(q) \/ Stop(q)
  PROVE  request'[r] = request[r]
<1>1. request \in [Requests -> RequestState]
  BY DEF IInv, Shape
<1>2. ASSUME NEW result, Finish(q, result) PROVE request'[r] = request[r]
  BY <1>1, <1>2 DEF Finish
<1>3. ASSUME NEW pc, Goto(q, pc) PROVE request'[r] = request[r]
  BY <1>1, <1>3 DEF Goto
<1>4. ItemFailed(q) => request'[r] = request[r]
  BY <1>1, <1>2 DEF ItemFailed
<1>5. ItemSent(q) => request'[r] = request[r]
  BY <1>1 DEF ItemSent
<1>6. ASSUME NEW m, NextClaim(q, m) PROVE request'[r] = request[r]
  BY <1>1, <1>2, <1>6 DEF NextClaim
<1>7. ASSUME SubmitLoad(q) \/ SubmitByKey(q) \/ SubmitByMarket(q) \/ SlipExisting(q) \/ Save(q)
             \/ Stop(q)
      PROVE  request'[r] = request[r]
  BY <1>2, <1>3, <1>7 DEF SubmitLoad, SubmitByKey, SubmitByMarket, SlipExisting, Save, Stop
<1>8. SlipLoad(q) => request'[r] = request[r]
  BY <1>1 DEF SlipLoad
<1>9. SlipValidate(q) => request'[r] = request[r]
  BY <1>1, <1>2 DEF SlipValidate
<1>10. ChainSubmit(q) \/ ChainFails(q) => request'[r] = request[r]
  BY <1>4, <1>5 DEF ChainSubmit, ChainFails
<1>11. SkipFailed(q) => request'[r] = request[r]
  BY <1>1 DEF SkipFailed
<1>12. NoteRead(q) \/ NoteSave(q) => request'[r] = request[r]
  BY <1>1, <1>2 DEF NoteRead, NoteSave
<1>13. ClaimList(q) => request'[r] = request[r]
  BY <1>1, <1>2 DEF ClaimList
<1>14. ClaimRead(q) => request'[r] = request[r]
  BY <1>1, <1>6 DEF ClaimRead
<1>15. ClaimPay(q) \/ ClaimSave(q) => request'[r] = request[r]
  BY <1>3, <1>6 DEF ClaimPay, ClaimSave
<1>16. ResolveRead(q) \/ ResolveSave(q) => request'[r] = request[r]
  BY <1>1, <1>2 DEF ResolveRead, ResolveSave
<1>17. QED
  BY <1>7, <1>8, <1>9, <1>10, <1>11, <1>12, <1>13, <1>14, <1>15, <1>16 DEF Submission, Claiming

\* What a step makes of an atomic slip.
SlipMoved(r) ==
  /\ Complete(r)'
  /\ request'[r].result = "ok" => request[r].result = "ok" \/ (Save(r) /\ Persistable(r))

LEMMA SlipMoves ==
  ASSUME IInv, SInv, plan' = plan, NEW r \in Requests, AtomicSlip(r),
         Submission(r) \/ Claiming(r) \/ Stop(r)
  PROVE  SlipMoved(r)
<1>1. /\ request \in [Requests -> RequestState] /\ request[r] \in RequestState
      /\ SubmissionFits(r) /\ ClaimFits(r) /\ Complete(r)
      /\ plan[r].kind = "slip" /\ plan[r].atomic
  BY DEF IInv, Shape, RequestsFit, SInv, SlipFits, AtomicSlip
<1>2. request[r].i \in Nat /\ Len(Items(r)) \in Nat /\ Items(r)' = Items(r)
  BY <1>1, PlanTypes DEF RequestState, Items
<1>3. ASSUME NEW result, Finish(r, result), result # "ok" PROVE SlipMoved(r)
  BY <1>3, FinishSets DEF SlipMoved, Complete
<1>4. ASSUME ItemFailed(r) PROVE SlipMoved(r)
  BY <1>1, <1>3, <1>4 DEF ItemFailed
<1>5. CASE SlipLoad(r)
  <2>1. request'[r].pc = "existing" /\ request'[r].result = request[r].result
    BY <1>1, <1>5 DEF SlipLoad, RequestState
  <2>2. QED
    BY <2>1 DEF SlipMoved, Complete
<1>6. CASE SlipExisting(r)
  <2>1. CASE Goto(r, "byKey")
    <3>1. request'[r].pc = "byKey" /\ request'[r].result = request[r].result
      BY <2>1, GotoSets DEF Positions
    <3>2. QED
      BY <3>1 DEF SlipMoved, Complete
  <2>2. QED
    BY <1>3, <1>6, <2>1 DEF SlipExisting
<1>7. CASE SlipValidate(r)
  <2>1. CASE request' = [request EXCEPT ![r].pc = "sending", ![r].failed = {}]
    <3>1. request[r].sent = {} /\ request[r].i = 1
      BY <1>7, BeforeSending DEF SlipValidate, At
    <3>2. /\ request'[r].failed = {} /\ request'[r].sent = {} /\ request'[r].i = 1
          /\ request'[r].result = request[r].result
      BY <1>1, <2>1, <3>1 DEF RequestState
    <3>3. 1..(1 - 1) = {} /\ 1 <= Len(Items(r)) + 1
      BY <1>2
    <3>4. QED
      BY <1>2, <3>2, <3>3 DEF SlipMoved, Complete
  <2>2. QED
    BY <1>1, <1>3, <1>7, <2>1 DEF SlipValidate
<1>8. CASE ChainSubmit(r)
  <2>1. CASE ItemSent(r)
    <3> DEFINE k == request[r].i
    <3>1. /\ request'[r].pc = request[r].pc /\ request'[r].result = request[r].result
          /\ request'[r].failed = request[r].failed /\ request'[r].i = k + 1
          /\ request'[r].sent = request[r].sent \cup {k}
      BY <1>1, <2>1 DEF ItemSent, RequestState
    <3>2. request[r].failed = {} /\ request[r].sent = 1..(k - 1) /\ k \in 1..Len(Items(r))
      BY <1>1, <1>8 DEF ChainSubmit, Complete, Indices
    <3>3. (1..(k - 1)) \cup {k} = 1..((k + 1) - 1) /\ k + 1 <= Len(Items(r)) + 1
      BY <1>2, <3>2
    <3>4. QED
      BY <1>2, <3>1, <3>2, <3>3 DEF SlipMoved, Complete
  <2>2. QED
    BY <1>4, <1>8, <2>1 DEF ChainSubmit
<1>9. CASE ChainFails(r)
  BY <1>4, <1>9 DEF ChainFails
<1>10. CASE Save(r)
  <2>1. CASE Persistable(r)
    <3>1. request'[r].pc = "done"
      BY <1>10, <2>1, FinishSets DEF Save
    <3>2. QED
      BY <1>10, <2>1, <3>1 DEF SlipMoved, Complete
  <2>2. QED
    BY <1>3, <1>10, <2>1 DEF Save
<1>11. CASE Stop(r)
  BY <1>3, <1>11 DEF Stop
<1>12. ~SkipFailed(r)
  BY <1>1 DEF SkipFailed, Complete
<1>13. ~(SubmitLoad(r) \/ SubmitByKey(r) \/ SubmitByMarket(r) \/ Claiming(r))
  BY <1>1 DEF SubmitLoad, SubmitByKey, SubmitByMarket, Claiming, NoteRead, NoteSave, ClaimList,
     ClaimRead, ClaimPay, ClaimSave, ResolveRead, ResolveSave, At, ClaimFits
<1>14. QED
  BY <1>5, <1>6, <1>7, <1>8, <1>9, <1>10, <1>11, <1>12, <1>13 DEF Submission

LEMMA PlanStays == ASSUME [Next]_vars PROVE plan' = plan
<1>1. ASSUME NEW r \in Requests, Submission(r) PROVE plan' = plan
  BY <1>1 DEF Submission, SubmitLoad, SubmitByKey, SubmitByMarket, SlipLoad, SlipExisting,
     SlipValidate, ChainSubmit, ChainFails, SkipFailed, Save
<1>2. ASSUME NEW r \in Requests, Claiming(r) \/ Stop(r) PROVE plan' = plan
  BY <1>2 DEF Claiming, NoteRead, NoteSave, ClaimList, ClaimRead, ClaimPay, ClaimSave,
     ResolveRead, ResolveSave, Stop
<1>3. CASE Contract
  BY <1>3 DEF Contract, TakePosition, LeavePosition, Pay, End, Resolve, Reopen
<1>4. CASE Listen \/ PollFails
  BY <1>4 DEF Listen, PollFetch, HandlePredictionSubmitted, HandleOther, HandleRead,
     HandleMarketResolved, HandlePayoutClaimed, PollFails
<1>5. QED
  BY <1>1, <1>2, <1>3, <1>4 DEF Next, vars

LEMMA StepOfSlip ==
  ASSUME IInv, SInv, [Next]_vars, NEW r \in Requests, AtomicSlip(r)
  PROVE  SlipMoved(r)
<1>1. plan' = plan
  BY PlanStays
<1>2. CASE request'[r] = request[r]
  <2>1. Complete(r) /\ Items(r)' = Items(r)
    BY <1>1 DEF SInv, SlipFits, Items
  <2>2. QED
    BY <1>2, <2>1 DEF SlipMoved, Complete
<1>3. ASSUME NEW q \in Requests, Submission(q) \/ Claiming(q) \/ Stop(q) PROVE SlipMoved(r)
  BY <1>1, <1>2, <1>3, SlipMoves, OthersStand
<1>4. CASE Contract
  BY <1>2, <1>4 DEF Contract, TakePosition, LeavePosition, Pay, End, Resolve, Reopen
<1>5. CASE Listen \/ PollFails
  BY <1>2, <1>5 DEF Listen, PollFetch, HandlePredictionSubmitted, HandleOther, HandleRead,
     HandleMarketResolved, HandlePayoutClaimed, PollFails
<1>6. QED
  BY <1>2, <1>3, <1>4, <1>5 DEF Next, vars

\* The key is used after the step.
UsedThen(key) == \E p \in Rows' : prediction'[p].clientIdempotencyKey = key

LEMMA SameKeys ==
  ASSUME SameRows, NEW key
  PROVE  UsedThen(key) <=> KeyUsed(key)
<1>1. Rows' = Rows
  BY DEF SameRows, Rows
<1>2. \A p \in Rows : prediction'[p].clientIdempotencyKey = prediction[p].clientIdempotencyKey
  BY DEF SameRows, Rows
<1>3. QED
  BY <1>1, <1>2 DEF KeyUsed, UsedThen

LEMMA SaveKeys ==
  ASSUME IInv, NEW r \in Requests, Save(r), Persistable(r), NEW key
  PROVE  UsedThen(key) <=> KeyUsed(key) \/ \E k \in request[r].sent : Items(r)[k].key = key
<1>1. ASSUME NEW k \in request[r].sent
      PROVE  /\ Pair(r, k) \in Rows'
             /\ prediction'[Pair(r, k)].clientIdempotencyKey = Items(r)[k].key
  <2>1. /\ prediction'[Pair(r, k)] = NewPrediction(Items(r)[k]) /\ Pair(r, k) \in Pairs
        /\ Items(r)[k].outcome \in Outcomes /\ Items(r)[k].stake \in Nat /\ Items(r)[k].key \in Keys
    BY SavedRow, SaveRows, PlanTypes
  <2>2. NewPrediction(Items(r)[k]) \in PredictionRow
    BY <2>1 DEF NewPrediction, PredictionRow
  <2>3. Pair(r, k) \in Rows'
    BY <2>1, <2>2 DEF Rows
  <2>4. QED
    BY <2>1, <2>3 DEF NewPrediction
<1>2. ASSUME NEW p \in Rows PROVE p \in Rows' /\ prediction'[p] = prediction[p]
  BY SaveRows DEF Rows
<1>3. ASSUME NEW p \in Rows', p \notin Rows PROVE \E k \in request[r].sent : Pair(r, k) = p
  BY <1>3, SaveRows DEF Rows
<1>4. QED
  BY <1>1, <1>2, <1>3 DEF KeyUsed, UsedThen

\* Save of an atomic slip uses all of its keys, which were unused.
LEMMA SaveSlip ==
  ASSUME IInv, SInv, plan' = plan, NEW r \in Requests, AtomicSlip(r), Save(r), Persistable(r)
  PROVE  request[r].sent = Indices(r) /\ \A k \in Indices(r) : UsedThen(Items(r)[k].key)
<1>1. /\ Complete(r) /\ request[r].pc = "sending" /\ request[r].i > Len(Items(r))
      /\ request[r].i \in Nat /\ Len(Items(r)) \in Nat
  BY PlanTypes DEF SInv, SlipFits, Save, IInv, Shape, RequestState
<1>2. request[r].i = Len(Items(r)) + 1
  BY <1>1 DEF Complete
<1>3. request[r].sent = Indices(r)
  BY <1>1, <1>2 DEF Complete, Indices
<1>4. QED
  BY <1>3, SaveKeys

LEMMA SlipsStep ==
  ASSUME KeysAreOfOneSlip, IInv, SInv, [Next]_vars, NEW r \in Requests, AtomicSlip(r)
  PROVE  SlipFits(r)'
<1>1. plan' = plan /\ plan \in Plans /\ SlipMoved(r) /\ SlipFits(r)
  BY PlanStays, StepOfSlip DEF IInv, Shape, SInv
<1>2. Items(r)' = Items(r) /\ Indices(r)' = Indices(r)
  BY <1>1 DEF Items, Indices
<1>3. /\ AllUsed(r)' <=> \A k \in Indices(r) : UsedThen(Items(r)[k].key)
      /\ NoneUsed(r)' <=> \A k \in Indices(r) : ~UsedThen(Items(r)[k].key)
  BY <1>2 DEF AllUsed, NoneUsed, KeyUsed, UsedThen
<1>4. SlipFits(r)' <=> /\ Complete(r)' /\ (AllUsed(r)' \/ NoneUsed(r)')
                       /\ request'[r].result = "ok" => AllUsed(r)'
  BY DEF SlipFits
<1>5. CASE Save(r) /\ Persistable(r)
  BY <1>1, <1>3, <1>4, <1>5, SaveSlip DEF SlipMoved
<1>6. ASSUME NEW q \in Requests \ {r}, Save(q), Persistable(q) PROVE SlipFits(r)'
  <2>1. request'[r] = request[r]
    BY <1>6, OthersStand DEF Submission
  <2>2. plan[q].kind \in {"submit", "slip"} /\ request[q].sent \subseteq Indices(q)
    BY <1>6, SaveRows DEF Save, IInv, RequestsFit, SubmissionFits
  <2>3. /\ \A k \in Indices(r) : Items(r)[k].key \in KeysOf(plan[r])
        /\ \A k \in Indices(q) : Items(q)[k].key \in KeysOf(plan[q])
        /\ \A key \in KeysOf(plan[q]) : \E k \in Indices(q) : Items(q)[k].key = key
    BY DEF KeysOf, Indices, Items
  <2>4. CASE KeysOf(plan[r]) \cap KeysOf(plan[q]) = {}
    <3>1. \A k \in Indices(r) : UsedThen(Items(r)[k].key) <=> KeyUsed(Items(r)[k].key)
      BY <1>6, <2>2, <2>3, <2>4, SaveKeys
    <3>2. QED
      BY <1>1, <1>3, <1>4, <2>1, <3>1 DEF SlipMoved, SlipFits, AllUsed, NoneUsed
  <2>5. CASE KeysOf(plan[r]) = KeysOf(plan[q]) /\ AtomicSlip(q)
    <3>1. \A k \in Indices(q) : UsedThen(Items(q)[k].key)
      BY <1>1, <1>6, <2>5, SaveSlip
    <3>2. \A k \in Indices(r) : UsedThen(Items(r)[k].key)
      BY <2>3, <2>5, <3>1
    <3>3. QED
      BY <1>1, <1>3, <1>4, <3>2 DEF SlipMoved
  <2>6. QED
    <3>1. \/ KeysOf(plan[r]) \cap KeysOf(plan[q]) = {}
          \/ KeysOf(plan[r]) = KeysOf(plan[q]) /\ AtomicSlip(q)
      BY <1>1, <2>2 DEF KeysAreOfOneSlip, AtomicSlip
    <3>2. QED
      BY <2>4, <2>5, <3>1
<1>7. CASE SameTotals /\ ~(Save(r) /\ Persistable(r))
  <2>1. \A k \in Indices(r) : UsedThen(Items(r)[k].key) <=> KeyUsed(Items(r)[k].key)
    BY <1>7, SameKeys DEF SameTotals
  <2>2. QED
    BY <1>1, <1>3, <1>4, <1>7, <2>1 DEF SlipMoved, SlipFits, AllUsed, NoneUsed
<1>8. QED
  BY <1>5, <1>6, <1>7, StepTotals

LEMMA SlipsInit == Init => SInv
<1> SUFFICES ASSUME Init, NEW r \in Requests PROVE SlipFits(r)
  BY DEF SInv
<1>1. request[r].pc = "new" /\ request[r].result = "none"
  BY DEF Init, NewRequest
<1>2. Rows = {}
  BY DEF Init, Rows
<1>3. NoneUsed(r)
  BY <1>2 DEF NoneUsed, KeyUsed
<1>4. QED
  BY <1>1, <1>3 DEF SlipFits, Complete

\* Whatever fails and in whatever order, the database holds every item of an
\* atomic slip or none (submitBatch, "all-or-nothing"): for plans in which the
\* keys of an atomic slip belong to it, or to the same slip sent again.
THEOREM SlipsAreAtomic == ASSUME KeysAreOfOneSlip PROVE Spec => []AllOrNothing
<1>1. IInv /\ SInv /\ [Next]_vars => SInv'
  <2> SUFFICES ASSUME IInv, SInv, [Next]_vars, NEW r \in Requests, AtomicSlip(r)'
               PROVE  SlipFits(r)'
    BY DEF SInv
  <2>1. AtomicSlip(r)
    BY PlanStays DEF AtomicSlip
  <2>2. QED
    BY <2>1, SlipsStep
<1>2. SInv => AllOrNothing
  BY DEF SInv, SlipFits, AllUsed, NoneUsed, AllOrNothing, AtomicSlip
<1>3. QED
  BY <1>1, <1>2, InvHolds, SlipsInit, PTL DEF Spec
=============================================================================
