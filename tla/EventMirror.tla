---------------------------- MODULE EventMirror ----------------------------
(***************************************************************************)
(* What the handlers of backend/src/indexer/indexer.service.ts, and        *)
(* submitResult of backend/src/matches/matches.service.ts, write to the    *)
(* tables that mirror the creator-event contract.                          *)
(*                                                                         *)
(* A handler reads first and then writes one statement after another; any  *)
(* of them may fail, and another worker may write in between.  Todo is the *)
(* list of writes a handler decides on from what it read, Applied what one *)
(* of them does.  repository.save replaces the row by the copy read before.*)
(***************************************************************************)
EXTENDS Integers, Sequences, FiniteSets

CONSTANTS
  EventIds, MatchIds, Users,   \* on-chain ids; addresses that have a user row
  ENTRY_FEE,
  Overlapping                  \* pairs of events of one creator whose windows meet

NoScore == <<>>

NoEvent == [exists |-> FALSE, match_count |-> 0, participant_count |-> 0, prize_pool |-> 0,
            total_entry_fees |-> 0, is_finalized |-> FALSE, is_cancelled |-> FALSE]
NoMatch == [exists |-> FALSE, winning_team |-> "null", score |-> NoScore, points_multiplier |-> 1]
NoPrediction == [exists |-> FALSE, outcome |-> "null", score |-> NoScore,
                 is_correct |-> "null", points_earned |-> 0]

EmptyMirror ==
  [event |-> [e \in EventIds |-> NoEvent], match |-> [m \in MatchIds |-> NoMatch],
   prediction |-> [p \in MatchIds \X Users |-> NoPrediction],
   entries |-> {}, payouts |-> {}, reputation |-> [u \in Users |-> 0], fee_history |-> 0]

\* The outcome a predicted scoreline stands for.
Winner(score) ==
  IF score[1] > score[2] THEN "TEAM_A" ELSE IF score[1] < score[2] THEN "TEAM_B" ELSE "DRAW"

hasOverlappingCampaign(ev, mr) ==
  \E f \in EventIds : /\ <<ev.event, f>> \in Overlapping
                      /\ mr.event[f].exists /\ ~mr.event[f].is_cancelled

-----------------------------------------------------------------------------
(* processEventByType: the writes each handler decides on, <<>> after one of *)
(* its early returns.                                                         *)

EventCreated(ev, mr) ==
  IF mr.event[ev.event].exists \/ hasOverlappingCampaign(ev, mr) THEN <<>>
  ELSE <<<<"event">>, <<"notify">>>>

\* Mutant: the match is counted before it is inserted.
MatchAdded_CountFirst(ev, mr) ==
  IF mr.match[ev.match].exists \/ ~mr.event[ev.event].exists THEN <<>>
  ELSE <<<<"match_count">>, <<"match">>, <<"notify">>>>

MatchAdded(ev, mr) ==
  IF mr.match[ev.match].exists \/ ~mr.event[ev.event].exists THEN <<>>
  ELSE <<<<"match">>, <<"match_count">>, <<"notify">>>>

UserJoinedEvent(ev, mr) == IF mr.event[ev.event].exists THEN <<<<"join">>, <<"notify">>>> ELSE <<>>

PredictionSubmitted(ev, mr) ==
  IF \/ ~mr.match[ev.match].exists \/ ev.user \notin Users
     \/ mr.prediction[<<ev.match, ev.user>>].exists THEN <<>>
  ELSE <<<<"prediction">>, <<"notify">>>>

\* Mutant: the predictions are graded before the result is saved.
MatchResultSubmitted_GradeFirst(ev, mr) ==
  IF ~mr.match[ev.match].exists \/ mr.match[ev.match].winning_team # "null" THEN <<>>
  ELSE <<<<"grade">>, <<"result">>, <<"notify">>>>

\* Mutant: a result with a score is not graded.
MatchResultSubmitted_Ungraded(ev, mr) ==
  IF ~mr.match[ev.match].exists \/ mr.match[ev.match].winning_team # "null" THEN <<>>
  ELSE <<<<"result">>, <<"notify">>>>

MatchResultSubmitted(ev, mr) ==
  IF ~mr.match[ev.match].exists \/ mr.match[ev.match].winning_team # "null" THEN <<>>
  ELSE <<<<"result">>, <<"grade">>, <<"notify">>>>

\* Any payout row of the event counts as "already processed".
EventFinalized(ev, mr) ==
  IF ~mr.event[ev.event].exists \/ (\E p \in mr.payouts : p[1] = ev.event) THEN <<>>
  ELSE (IF mr.event[ev.event].is_finalized THEN <<>> ELSE <<<<"finalize">>>>)
       \o <<<<"fees">>>> \o [i \in 1..Len(ev.board) |-> <<"payout", ev.board[i]>>]

EventCancelled(ev, mr) == IF mr.event[ev.event].exists THEN <<<<"cancel">>, <<"notify">>>> ELSE <<>>

FeeUpdated == <<<<"fee">>>>

AddressVerified(ev, mr) == IF ev.user \in Users THEN <<<<"verify">>>> ELSE <<>>

\* Mutant: the reputation has no floor.
AddressUnverified_NoFloor(ev, mr) == IF ev.user \in Users THEN <<<<"unverify">>>> ELSE <<>>

AddressUnverified(ev, mr) ==
  IF ev.user \in Users /\ mr.reputation[ev.user] > 0 THEN <<<<"unverify">>>> ELSE <<>>

\* matches.service submitResult: refused when a result is there.
SubmitResult(ev, mr) ==
  IF ~mr.match[ev.match].exists \/ mr.match[ev.match].winning_team # "null" THEN <<>>
  ELSE <<<<"result">>, <<"score">>>>

\* WinnersVerified only notifies, and nobody waits for it.
Todo(ev, mr) ==
  CASE ev.type = "EventCreated"         -> EventCreated(ev, mr)
    [] ev.type = "MatchAdded"           -> MatchAdded(ev, mr)
    [] ev.type = "UserJoinedEvent"      -> UserJoinedEvent(ev, mr)
    [] ev.type = "PredictionSubmitted"  -> PredictionSubmitted(ev, mr)
    [] ev.type = "MatchResultSubmitted" -> MatchResultSubmitted(ev, mr)
    [] ev.type = "EventFinalized"       -> EventFinalized(ev, mr)
    [] ev.type = "EventCancelled"       -> EventCancelled(ev, mr)
    [] ev.type = "FeeUpdated"           -> FeeUpdated
    [] ev.type = "AddressVerified"      -> AddressVerified(ev, mr)
    [] ev.type = "AddressUnverified"    -> AddressUnverified(ev, mr)
    [] ev.type = "submitResult"         -> SubmitResult(ev, mr)
    [] OTHER                            -> <<>>

-----------------------------------------------------------------------------
(* The writes. *)

\* gradePredictions, with four points for the exact score and three for the
\* goal difference.
Graded(p, mt) ==
  LET correct == p.outcome = mt.winning_team
      scored  == mt.score # NoScore /\ p.score # NoScore
      points  == IF ~correct THEN 0
                 ELSE IF scored /\ p.score = mt.score THEN 4
                 ELSE IF scored /\ p.score[1] - p.score[2] = mt.score[1] - mt.score[2] THEN 3
                 ELSE 1
  IN  [p EXCEPT !.is_correct = IF correct THEN "true" ELSE "false",
                !.points_earned = points * mt.points_multiplier]

\* scorePredictions: one point whatever the score.
Scored(p, mt) ==
  LET correct == p.outcome = mt.winning_team
  IN  [p EXCEPT !.is_correct = IF correct THEN "true" ELSE "false",
                !.points_earned = IF correct THEN mt.points_multiplier ELSE 0]

\* The match as the handler of a result holds it in memory.
Resolved(ev, rd) == [rd.match[ev.match] EXCEPT !.winning_team = ev.outcome, !.score = ev.score]

EachPrediction(mi, ev, G(_)) ==
  [mi EXCEPT !.prediction = [k \in DOMAIN @ |->
     IF k[1] = ev.match /\ @[k].exists THEN G(@[k]) ELSE @[k]]]

\* Inserts that a unique index refuses: they throw.
Refused(write, ev, mi) ==
  \/ write[1] = "event" /\ mi.event[ev.event].exists
  \/ write[1] = "match" /\ mi.match[ev.match].exists
  \/ write[1] = "prediction" /\ mi.prediction[<<ev.match, ev.user>>].exists
  \/ write[1] = "payout" /\ <<ev.event, write[2]>> \in mi.payouts

\* recomputeEntryFeeTotals: from the counted participants.
FeesRecomputed(e, mi) ==
  [mi EXCEPT !.event[e].total_entry_fees = ENTRY_FEE * mi.event[e].participant_count]

\* processLeaderboardEntry: the entry is upserted, the payout inserted.
Paid(e, u, mi) == [mi EXCEPT !.entries = @ \cup {<<e, u>>}, !.payouts = @ \cup {<<e, u>>}]

\* The mirror mi after a write of the handler of ev, which had read rd.
Applied(write, ev, rd, mi) ==
  CASE write[1] = "event"       -> [mi EXCEPT !.event[ev.event] = [NoEvent EXCEPT !.exists = TRUE]]
    [] write[1] = "match"       -> [mi EXCEPT !.match[ev.match] =
                                   [NoMatch EXCEPT !.exists = TRUE, !.points_multiplier = ev.multiplier]]
    [] write[1] = "match_count" -> [mi EXCEPT !.event[ev.event] =
                                   [rd.event[ev.event] EXCEPT !.match_count = @ + 1]]
    [] write[1] = "join"        -> [mi EXCEPT !.event[ev.event].participant_count = @ + 1,
                                           !.event[ev.event].prize_pool = @ + ENTRY_FEE,
                                           !.event[ev.event].total_entry_fees = @ + ENTRY_FEE]
    [] write[1] = "prediction"  -> [mi EXCEPT !.prediction[<<ev.match, ev.user>>] =
                                   [NoPrediction EXCEPT !.exists = TRUE, !.score = ev.score,
                                      !.outcome = IF ev.score = NoScore THEN ev.outcome ELSE Winner(ev.score)]]
    [] write[1] = "result"      -> [mi EXCEPT !.match[ev.match] = Resolved(ev, rd)]
    [] write[1] = "grade"       -> EachPrediction(mi, ev, LAMBDA p : Graded(p, Resolved(ev, rd)))
    [] write[1] = "score"       -> EachPrediction(mi, ev, LAMBDA p : Scored(p, Resolved(ev, rd)))
    [] write[1] = "finalize"    -> [mi EXCEPT !.event[ev.event] =
                                   [rd.event[ev.event] EXCEPT !.is_finalized = TRUE]]
    [] write[1] = "fees"        -> FeesRecomputed(ev.event, mi)
    [] write[1] = "cancel"      -> [mi EXCEPT !.event[ev.event] =
                                   [rd.event[ev.event] EXCEPT !.is_cancelled = TRUE]]
    [] write[1] = "fee"         -> [mi EXCEPT !.fee_history = @ + 1]
    [] write[1] = "verify"      -> [mi EXCEPT !.reputation[ev.user] = rd.reputation[ev.user] + 1]
    [] write[1] = "unverify"    -> [mi EXCEPT !.reputation[ev.user] = rd.reputation[ev.user] - 1]
    [] write[1] = "notify"      -> mi
    [] write[1] = "payout"      -> Paid(ev.event, write[2], mi)
=============================================================================
