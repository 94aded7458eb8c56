----------------------------- MODULE OpenMarket -----------------------------
(***************************************************************************)
(* The prediction markets of the open-market contract                      *)
(* (contracts/open-market/src): market.rs (life cycle), prediction.rs      *)
(* (stakes and payouts), escrow.rs (the one token balance all markets      *)
(* share) and the part of dispute.rs that can reopen a resolved market.    *)
(*                                                                         *)
(* A contract call is one transaction: an error reverts it, so a failing   *)
(* call is a step that is not taken.  Addresses outside the contract can   *)
(* always pay what they offer.  Markets are public and unconditional.      *)
(* Profiles, reputation, season points, volume and indices are written by  *)
(* these entry points but read by none of them, and are left out.          *)
(***************************************************************************)
EXTENDS I128, FiniteSets, Functions

CONSTANTS
  Markets, Users, Outcomes,
  NoOutcome,             \* resolved_outcome = None
  Amounts,               \* amounts a call may carry
  MarketParams,          \* end_time, resolution_time, creator_fee_bps, bond
  EndTimes,              \* times a market may be extended to
  Committers,            \* users who use the commit-reveal path
  DisputeBonds,          \* bonds a dispute may be raised with
  ProtocolFees,          \* rates update_protocol_fee may be called with
  CreatorFees,           \* rates update_creator_fee may be called with
  ExitFees,              \* rates set_early_exit_fee_bps may be called with
  BPS,                   \* 10_000
  MAX_CREATOR_FEE_BPS,   \* Config.max_creator_fee_bps
  MIN_STAKE, MAX_STAKE,  \* resolve_stake_bounds
  MAX_BATCH_PAYOUTS,
  DISPUTE_WINDOW,
  REVEAL_DELAY,          \* 60 seconds
  INSURANCE_SHARE_BPS,
  ORACLE_STAKE, ORACLE_REWARD_BPS,
  MaxTime                \* bound: last ledger timestamp

ASSUME SetsAssumption ==
  /\ IsFiniteSet(Markets) /\ IsFiniteSet(Users)
  /\ NoOutcome \notin Outcomes
  /\ Committers \subseteq Users

ASSUME AmountsAssumption ==
  /\ Amounts \subseteq Int
  /\ DisputeBonds \subseteq Int
  /\ ORACLE_STAKE \in Nat \ {0}

ASSUME RatesAssumption ==
  /\ BPS \in Nat \ {0}
  /\ MAX_CREATOR_FEE_BPS \in 0..BPS
  /\ INSURANCE_SHARE_BPS \in 0..BPS
  /\ ORACLE_REWARD_BPS \in 0..BPS
  /\ ProtocolFees \subseteq Nat /\ CreatorFees \subseteq Nat /\ ExitFees \subseteq Nat
  /\ MarketParams \subseteq [end_time : Nat, resolution_time : Nat,
                             creator_fee_bps : Nat, bond : Nat]

ASSUME LimitsAssumption ==
  /\ MIN_STAKE \in Nat \ {0} /\ MAX_STAKE \in Nat
  /\ MAX_BATCH_PAYOUTS \in Nat \ {0}
  /\ DISPUTE_WINDOW \in Nat /\ REVEAL_DELAY \in Nat
  /\ EndTimes \subseteq Nat /\ MaxTime \in Nat

VARIABLES
  config,      \* the part of Config the entry points below read
  market,      \* DataKey::Market(id), and the creator's bond of that market
  prediction,  \* DataKey::Prediction(id, user), in either kind of storage
  listed,      \* how often DataKey::PredictorList(id) holds a user
  commitment,  \* DataKey::CommitmentPrediction(id, user)
  dispute,     \* bond of DataKey::Dispute(id), 0 when there is none
  submission,  \* state of the staked oracle submission
  escrow,      \* token balance of the contract
  treasury,    \* DataKey::Treasury
  insurance,   \* Config.insurance_pool_balance
  now,         \* ledger timestamp
  paid,        \* history: tokens paid for a market, fees included
  settled,     \* history: users whose stake was paid out or refunded
  dust,        \* history: early-exit fees credited to nobody
  anomaly      \* history: events that void the accounts of a market

vars == <<config, market, prediction, listed, commitment, dispute, submission,
          escrow, treasury, insurance, now, paid, settled, dust, anomaly>>

history == <<paid, settled, dust, anomaly>>
funds == <<escrow, treasury, insurance>>

-----------------------------------------------------------------------------
(* Types and initial state. *)

Config == [protocol_fee_bps : 0..BPS, early_exit_fee_bps : 0..BPS, is_paused : BOOLEAN]

Market ==
  [exists : BOOLEAN, end_time : Nat, resolution_time : Nat,
   is_closed : BOOLEAN, is_resolved : BOOLEAN, is_cancelled : BOOLEAN,
   resolved_outcome : Outcomes \cup {NoOutcome}, resolved_at : Nat,
   total_pool : Int, participant_count : Int,
   creator_fee_bps : 0..MAX_CREATOR_FEE_BPS, bond : Nat]

Prediction ==
  [store : {"none", "persistent", "temporary"},
   chosen_outcome : Outcomes \cup {NoOutcome}, stake_amount : Int]

Commitment ==
  [status : {"none", "committed", "revealed"}, committed_at : Nat,
   chosen_outcome : Outcomes \cup {NoOutcome}, stake_amount : Int]

Anomalies == {"overwritten", "expired", "reopened", "overcharged"}

NoMarket ==
  [exists |-> FALSE, end_time |-> 0, resolution_time |-> 0,
   is_closed |-> FALSE, is_resolved |-> FALSE, is_cancelled |-> FALSE,
   resolved_outcome |-> NoOutcome, resolved_at |-> 0,
   total_pool |-> 0, participant_count |-> 0, creator_fee_bps |-> 0, bond |-> 0]

NoPrediction == [store |-> "none", chosen_outcome |-> NoOutcome, stake_amount |-> 0]

NewPrediction(outcome, stake) ==
  [store |-> "persistent", chosen_outcome |-> outcome, stake_amount |-> stake]

NoCommitment ==
  [status |-> "none", committed_at |-> 0, chosen_outcome |-> NoOutcome, stake_amount |-> 0]

Init ==
  /\ config \in [protocol_fee_bps : ProtocolFees \cap 0..BPS,
                 early_exit_fee_bps : ExitFees \cap 0..BPS, is_paused : {FALSE}]
  /\ market = [m \in Markets |-> NoMarket]
  /\ prediction = [m \in Markets |-> [u \in Users |-> NoPrediction]]
  /\ listed = [m \in Markets |-> [u \in Users |-> 0]]
  /\ commitment = [m \in Markets |-> [u \in Users |-> NoCommitment]]
  /\ dispute = [m \in Markets |-> 0]
  /\ submission = [m \in Markets |-> "none"]
  /\ escrow = 0 /\ treasury = 0 /\ insurance = 0
  /\ now = 0
  /\ paid = [m \in Markets |-> 0]
  /\ settled = [m \in Markets |-> {}]
  /\ dust = [m \in Markets |-> 0]
  /\ anomaly = [m \in Markets |-> {}]
-----------------------------------------------------------------------------
(* Guards and payout arithmetic. *)

NotPaused == ~config.is_paused

\* The guards shared by every way of staking on a market; they do not look at
\* is_resolved.
AcceptsStakes(m) ==
  NotPaused /\ market[m].exists /\ ~market[m].is_cancelled /\ now < market[m].end_time

\* transfer_prediction and withdraw_position also refuse a resolved market.
Tradable(m) == AcceptsStakes(m) /\ ~market[m].is_resolved

StakeInBounds(stake) == MIN_STAKE <= stake /\ stake <= MAX_STAKE

HasPosition(m, u) == prediction[m][u].store = "persistent"

Wins(m, u) == prediction[m][u].chosen_outcome = market[m].resolved_outcome

Unpaid(m) == {u \in Users : HasPosition(m, u) /\ Wins(m, u)}

\* claim_payout walks PredictorList and adds the stake behind every entry.
ClaimWinningPool(m) ==
  SumFunction([u \in Users |->
    IF Wins(m, u) THEN listed[m][u] * prediction[m][u].stake_amount ELSE 0])

\* batch_distribute_payouts counts every address once.
BatchWinningPool(m) ==
  SumFunction([u \in Users |->
    IF Wins(m, u) /\ listed[m][u] > 0 THEN prediction[m][u].stake_amount ELSE 0])

\* Mutant: a winner is paid from the whole pool on top of the stake.
WinnerShare_OfTotalPool(stake, winning_pool, total_pool) ==
  TruncDiv(stake * total_pool, winning_pool)
WinnerShare(stake, winning_pool, total_pool) ==
  TruncDiv(stake * (total_pool - winning_pool), winning_pool)

\* compute_payout_breakdown.
GrossPayout(m, u, winning_pool) ==
  LET stake == prediction[m][u].stake_amount
  IN  stake + WinnerShare(stake, winning_pool, market[m].total_pool)
ProtocolFee(gross) == Bps(gross, config.protocol_fee_bps, BPS)
CreatorFee(m, gross) == Bps(gross, market[m].creator_fee_bps, BPS)
\* Mutant: the protocol's fee is not withheld from the winner.
NetPayout_ProtocolFeePaid(m, gross) == gross - CreatorFee(m, gross)
NetPayout(m, gross) == gross - ProtocolFee(gross) - CreatorFee(m, gross)

\* Tokens that leave escrow for one winner: a net payout that is not positive
\* is not transferred, the creator's fee is.
Outflow(m, gross) ==
  (IF NetPayout(m, gross) > 0 THEN NetPayout(m, gross) ELSE 0) + CreatorFee(m, gross)

\* Mutant: the claimed record stays in persistent storage.
Tombstone_KeptPersistent(p) == p
\* A claimed or refunded record moves to temporary storage.
Tombstone(p) == [p EXCEPT !.store = "temporary"]

\* Mutant: the participant is listed but not counted.
Joined_NotCounted(mk, stake) == [mk EXCEPT !.total_pool = @ + stake]
\* Market record after one more participant staked.
Joined(mk, stake) ==
  [mk EXCEPT !.total_pool = @ + stake, !.participant_count = @ + 1]

\* Stake of a participant after the early-exit fee was credited once for each
\* of its n entries in PredictorList.
Credited(stake, n, fee, remaining_pool) ==
  LET after[i \in Nat] ==
        IF i = 0 THEN stake
        ELSE after[i - 1] + TruncDiv(fee * after[i - 1], remaining_pool)
  IN  after[n]

InsuranceShare(amount) == Bps(amount, INSURANCE_SHARE_BPS, BPS)
MinOf(a, b) == IF a <= b THEN a ELSE b

-----------------------------------------------------------------------------
(* market.rs: life cycle. *)

CreateMarket(m, p) ==
  /\ NotPaused
  /\ ~market[m].exists
  /\ now < p.end_time
  /\ p.end_time <= p.resolution_time
  /\ p.creator_fee_bps <= MAX_CREATOR_FEE_BPS
  /\ market' = [market EXCEPT ![m] =
       [NoMarket EXCEPT !.exists = TRUE, !.end_time = p.end_time,
                        !.resolution_time = p.resolution_time,
                        !.creator_fee_bps = p.creator_fee_bps, !.bond = p.bond]]
  /\ escrow' = escrow + p.bond
  /\ UNCHANGED <<config, prediction, listed, commitment, dispute, submission,
                 treasury, insurance, now, history>>

CloseMarket(m) ==
  /\ NotPaused
  /\ market[m].exists
  /\ now >= market[m].end_time
  /\ ~market[m].is_resolved
  /\ market' = [market EXCEPT ![m].is_closed = TRUE]
  /\ UNCHANGED <<config, prediction, listed, commitment, dispute, submission,
                 funds, now, history>>

UpdateCreatorFee(m, bps) ==
  /\ Tradable(m)
  /\ bps <= MAX_CREATOR_FEE_BPS
  /\ market' = [market EXCEPT ![m].creator_fee_bps = bps]
  /\ UNCHANGED <<config, prediction, listed, commitment, dispute, submission,
                 funds, now, history>>

\* Mutant: the resolution time stays where it was.
ExtendMarketEndTime_KeepsResolution(m, t) ==
  /\ Tradable(m)
  /\ ~market[m].is_closed
  /\ t > market[m].end_time
  /\ market' = [market EXCEPT ![m].end_time = t]
  /\ UNCHANGED <<config, prediction, listed, commitment, dispute, submission,
                 funds, now, history>>

ExtendMarketEndTime(m, t) ==
  /\ Tradable(m)
  /\ ~market[m].is_closed
  /\ t > market[m].end_time
  /\ market' = [market EXCEPT ![m].end_time = t,
                              ![m].resolution_time = IF @ < t THEN t ELSE @]
  /\ UNCHANGED <<config, prediction, listed, commitment, dispute, submission,
                 funds, now, history>>

\* The creator's bond is forfeited to the treasury.
CancelMarket(m) ==
  /\ NotPaused
  /\ market[m].exists
  /\ ~market[m].is_resolved /\ ~market[m].is_cancelled
  /\ market' = [market EXCEPT ![m].is_cancelled = TRUE, ![m].bond = 0]
  /\ treasury' = treasury + market[m].bond
  /\ UNCHANGED <<config, prediction, listed, commitment, dispute, submission,
                 escrow, insurance, now, history>>

\* market::resolve_market with `balance` tokens in escrow.  The bond goes back
\* to the creator; a refund that escrow cannot cover is ignored and the bond
\* stays recorded.
Resolve(m, outcome, balance) ==
  LET refunded == IF market[m].bond <= balance THEN market[m].bond ELSE 0
  IN  /\ NotPaused
      /\ market[m].exists
      /\ now >= market[m].resolution_time
      /\ ~market[m].is_resolved /\ ~market[m].is_cancelled
      /\ market' = [market EXCEPT ![m].is_resolved = TRUE,
                                  ![m].resolved_outcome = outcome,
                                  ![m].resolved_at = now,
                                  ![m].bond = @ - refunded]
      /\ escrow' = balance - refunded
      /\ UNCHANGED <<config, prediction, listed, commitment, dispute,
                     treasury, insurance, now, history>>

ResolveMarket(m, outcome) ==
  Resolve(m, outcome, escrow) /\ UNCHANGED submission

\* dispute::submit_resolution_with_stake.
SubmitResolutionWithStake(m, outcome) ==
  /\ submission[m] # "pending"
  /\ Resolve(m, outcome, escrow + ORACLE_STAKE)
  /\ submission' = [submission EXCEPT ![m] = "pending"]

-----------------------------------------------------------------------------
(* prediction.rs: taking, moving and leaving positions. *)

SubmitPrediction(m, u, outcome, stake) ==
  /\ AcceptsStakes(m)
  /\ StakeInBounds(stake)
  /\ ~HasPosition(m, u)
  /\ prediction' = [prediction EXCEPT ![m][u] = NewPrediction(outcome, stake)]
  /\ listed' = [listed EXCEPT ![m][u] = @ + 1]
  /\ market' = [market EXCEPT ![m] = Joined(@, stake)]
  /\ escrow' = escrow + stake
  /\ UNCHANGED <<config, commitment, dispute, submission, treasury, insurance,
                 now, history>>

\* requests maps some markets to an outcome and a stake: the total is locked
\* first, then every request is submitted or the whole call reverts.
SubmitPredictionsBatch(u, requests) ==
  /\ \A m \in DOMAIN requests :
       AcceptsStakes(m) /\ StakeInBounds(requests[m].stake) /\ ~HasPosition(m, u)
  /\ prediction' = [m \in Markets |->
       IF m \in DOMAIN requests
       THEN [prediction[m] EXCEPT ![u] =
               NewPrediction(requests[m].outcome, requests[m].stake)]
       ELSE prediction[m]]
  /\ listed' = [m \in Markets |->
       IF m \in DOMAIN requests THEN [listed[m] EXCEPT ![u] = @ + 1] ELSE listed[m]]
  /\ market' = [m \in Markets |->
       IF m \in DOMAIN requests THEN Joined(market[m], requests[m].stake)
       ELSE market[m]]
  /\ escrow' = escrow + SumFunction([m \in DOMAIN requests |-> requests[m].stake])
  /\ UNCHANGED <<config, commitment, dispute, submission, treasury, insurance,
                 now, history>>

\* Neither the outcome nor the stake behind the hash is looked at.
CommitPrediction(m, u, outcome, stake) ==
  /\ AcceptsStakes(m)
  /\ commitment[m][u].status = "none"
  /\ commitment' = [commitment EXCEPT ![m][u] =
       [status |-> "committed", committed_at |-> now,
        chosen_outcome |-> outcome, stake_amount |-> stake]]
  /\ UNCHANGED <<config, market, prediction, listed, dispute, submission,
                 funds, now, history>>

\* The revealed values are the committed ones.  A record the user already has
\* in this market is replaced.
RevealPrediction(m, u) ==
  LET c == commitment[m][u]
  IN  /\ AcceptsStakes(m)
      /\ StakeInBounds(c.stake_amount)
      /\ c.status = "committed"
      /\ now >= c.committed_at + REVEAL_DELAY
      /\ commitment' = [commitment EXCEPT ![m][u].status = "revealed"]
      /\ prediction' = [prediction EXCEPT ![m][u] =
                          NewPrediction(c.chosen_outcome, c.stake_amount)]
      /\ listed' = [listed EXCEPT ![m][u] = @ + 1]
      /\ market' = [market EXCEPT ![m] = Joined(@, c.stake_amount)]
      /\ escrow' = escrow + c.stake_amount
      /\ anomaly' = [anomaly EXCEPT ![m] =
                       @ \cup IF HasPosition(m, u) THEN {"overwritten"} ELSE {}]
      /\ UNCHANGED <<config, dispute, submission, treasury, insurance, now,
                     paid, settled, dust>>

\* Sender and recipient of a transfer, in this order: a sender left without
\* stake loses the record and one list entry, a recipient without a record
\* gets both.
Moved(m, from, to, shares) ==
  LET left == prediction[m][from].stake_amount - shares
      got  == (IF HasPosition(m, to) THEN prediction[m][to].stake_amount ELSE 0) + shares
  IN  [prediction[m] EXCEPT
         ![from] = IF left = 0 THEN NoPrediction ELSE [@ EXCEPT !.stake_amount = left],
         ![to]   = NewPrediction(prediction[m][from].chosen_outcome, got)]

TransferPrediction(m, from, to, shares) ==
  LET leaves == prediction[m][from].stake_amount = shares
      joins  == ~HasPosition(m, to)
      Flag(b) == IF b THEN 1 ELSE 0
  IN  /\ Tradable(m)
      /\ from # to
      /\ shares > 0
      /\ HasPosition(m, from)
      /\ shares <= prediction[m][from].stake_amount
      /\ HasPosition(m, to) =>
           prediction[m][to].chosen_outcome = prediction[m][from].chosen_outcome
      /\ prediction' = [prediction EXCEPT ![m] = Moved(m, from, to, shares)]
      /\ listed' = [listed EXCEPT ![m][from] = @ - Flag(leaves),
                                  ![m][to] = @ + Flag(joins)]
      /\ market' = [market EXCEPT ![m].participant_count = @ + Flag(joins) - Flag(leaves)]
      /\ UNCHANGED <<config, commitment, dispute, submission, funds, now, history>>

\* Mutant: the fee is credited to the others but not added to total_pool.
PoolAfterExit_FeeForgotten(pool, withdrawn, credited) == pool - withdrawn
PoolAfterExit(pool, withdrawn, credited) == pool - withdrawn + credited

\* withdraw_position: a part of the withdrawal is kept and credited, as extra
\* stake and rounded down, to the other participants.
WithdrawPosition(m, u, amount) ==
  LET mine      == prediction[m][u].stake_amount
      fee       == Bps(amount, config.early_exit_fee_bps, BPS)
      remaining == mine - amount
      others    == market[m].total_pool - amount - remaining
      shared    == fee > 0 /\ others > 0
      StakeOf(v) == IF v # u /\ HasPosition(m, v) /\ shared
                    THEN Credited(prediction[m][v].stake_amount, listed[m][v], fee, others)
                    ELSE prediction[m][v].stake_amount
      credited  == SumFunction([v \in Users |->
                     StakeOf(v) - prediction[m][v].stake_amount])
  IN  /\ Tradable(m)
      /\ amount > 0
      /\ HasPosition(m, u)
      /\ amount <= mine
      /\ amount - fee <= escrow
      /\ prediction' = [prediction EXCEPT ![m] = [v \in Users |->
           IF v # u THEN [prediction[m][v] EXCEPT !.stake_amount = StakeOf(v)]
           ELSE IF remaining = 0 THEN NoPrediction
           ELSE [prediction[m][u] EXCEPT !.stake_amount = remaining]]]
      /\ listed' = [listed EXCEPT ![m][u] = IF remaining = 0 THEN @ - 1 ELSE @]
      /\ market' = [market EXCEPT
           ![m].total_pool = PoolAfterExit(@, amount, credited),
           ![m].participant_count = IF remaining = 0 THEN @ - 1 ELSE @]
      /\ escrow' = escrow - (amount - fee)
      /\ dust' = [dust EXCEPT ![m] = @ + fee - credited]
      /\ UNCHANGED <<config, commitment, dispute, submission, treasury, insurance,
                     now, paid, settled, anomaly>>

-----------------------------------------------------------------------------
(* prediction.rs: payouts and refunds. *)

\* Both payout paths for the winners W: mark the records, transfer, credit the
\* protocol fee.
PayWinners(m, W, winning_pool) ==
  LET gross == [u \in W |-> GrossPayout(m, u, winning_pool)]
      out   == SumFunction([u \in W |-> Outflow(m, gross[u])])
  IN  /\ winning_pool > 0
      /\ out <= escrow
      /\ prediction' = [prediction EXCEPT ![m] = [u \in Users |->
           IF u \in W THEN Tombstone(prediction[m][u]) ELSE prediction[m][u]]]
      /\ escrow' = escrow - out
      /\ treasury' = treasury + SumFunction([u \in W |-> ProtocolFee(gross[u])])
      /\ paid' = [paid EXCEPT ![m] = @ + SumFunction(gross)]
      /\ settled' = [settled EXCEPT ![m] = @ \cup W]
      /\ anomaly' = [anomaly EXCEPT ![m] =
           @ \cup IF \E u \in W : NetPayout(m, gross[u]) < 0 THEN {"overcharged"} ELSE {}]
      /\ UNCHANGED <<config, market, listed, commitment, dispute, submission,
                     insurance, now, dust>>

ClaimPayout(m, u) ==
  /\ NotPaused
  /\ market[m].is_resolved
  /\ u \in Unpaid(m)
  /\ PayWinners(m, {u}, ClaimWinningPool(m))

\* Stakes assert_escrow_solvent adds up: list entries of markets that are
\* neither resolved nor cancelled.
OpenStakes ==
  SumFunction([m \in {n \in Markets : ~market[n].is_resolved /\ ~market[n].is_cancelled} |->
    SumFunction([u \in Users |->
      IF HasPosition(m, u) THEN listed[m][u] * prediction[m][u].stake_amount ELSE 0])])

\* The winners reached first in list order, up to the batch limit; the whole
\* call reverts when escrow no longer covers the open stakes.
BatchDistributePayouts(m, W) ==
  /\ NotPaused
  /\ market[m].is_resolved
  /\ W \subseteq Unpaid(m)
  /\ Cardinality(W) = MinOf(MAX_BATCH_PAYOUTS, Cardinality(Unpaid(m)))
  /\ PayWinners(m, W, BatchWinningPool(m))
  /\ escrow' >= OpenStakes

ClaimCancelRefund(m, u) ==
  LET stake == prediction[m][u].stake_amount
  IN  /\ NotPaused
      /\ market[m].is_cancelled
      /\ HasPosition(m, u)
      /\ stake > 0
      /\ stake <= escrow
      /\ prediction' = [prediction EXCEPT ![m][u] = Tombstone(@)]
      /\ escrow' = escrow - stake
      /\ paid' = [paid EXCEPT ![m] = @ + stake]
      /\ settled' = [settled EXCEPT ![m] = @ \cup {u}]
      /\ UNCHANGED <<config, market, listed, commitment, dispute, submission,
                     treasury, insurance, now, dust, anomaly>>

\* The host deletes a temporary entry once its TTL (config.rs:
\* LEDGER_BUMP_PREDICTION_CLAIMED ledgers after the claim) has run out.  Steps
\* have no fixed length, so it may go at any later step.
ExpireTombstone(m, u) ==
  /\ prediction[m][u].store = "temporary"
  /\ prediction' = [prediction EXCEPT ![m][u] = NoPrediction]
  /\ anomaly' = [anomaly EXCEPT ![m] =
       @ \cup IF market[m].is_cancelled THEN {} ELSE {"expired"}]
  /\ UNCHANGED <<config, market, listed, commitment, dispute, submission, funds,
                 now, paid, settled, dust>>

-----------------------------------------------------------------------------
(* dispute.rs: disputes decided by the admin and the oracle's stake. *)

RaiseDispute(m, bond) ==
  /\ NotPaused
  /\ bond > 0
  /\ market[m].is_resolved
  /\ dispute[m] = 0
  /\ now <= market[m].resolved_at + DISPUTE_WINDOW
  /\ dispute' = [dispute EXCEPT ![m] = bond]
  /\ escrow' = escrow + bond
  /\ UNCHANGED <<config, market, prediction, listed, commitment, submission,
                 treasury, insurance, now, history>>

Staked(m) == IF submission[m] = "pending" THEN ORACLE_STAKE ELSE 0

Settled(m) == IF submission[m] = "pending" THEN "settled" ELSE submission[m]

\* settle_oracle_submission when the resolution stands: the stake and a reward
\* out of the `available` treasury.
OracleReward(m, available) == MinOf(Bps(Staked(m), ORACLE_REWARD_BPS, BPS), available)

Reopened(mk) ==
  [mk EXCEPT !.is_resolved = FALSE, !.resolved_outcome = NoOutcome, !.resolved_at = 0]

\* The disputer gets the bond back, the market is reopened, the oracle slashed.
UpholdDispute(m) ==
  /\ NotPaused
  /\ dispute[m] > 0
  /\ dispute[m] <= escrow
  /\ escrow' = escrow - dispute[m]
  /\ market' = [market EXCEPT ![m] = Reopened(@)]
  /\ insurance' = insurance + InsuranceShare(Staked(m))
  /\ treasury' = treasury + Staked(m) - InsuranceShare(Staked(m))
  /\ submission' = [submission EXCEPT ![m] = Settled(m)]
  /\ dispute' = [dispute EXCEPT ![m] = 0]
  /\ anomaly' = [anomaly EXCEPT ![m] =
       @ \cup IF paid[m] > 0 THEN {"reopened"} ELSE {}]
  /\ UNCHANGED <<config, prediction, listed, commitment, now, paid, settled, dust>>

\* The bond is slashed; the oracle gets its stake and a reward.
RejectDispute(m) ==
  LET credited == treasury + dispute[m] - InsuranceShare(dispute[m])
      reward   == OracleReward(m, credited)
  IN  /\ NotPaused
      /\ dispute[m] > 0
      /\ Staked(m) + reward <= escrow
      /\ escrow' = escrow - Staked(m) - reward
      /\ insurance' = insurance + InsuranceShare(dispute[m])
      /\ treasury' = credited - reward
      /\ submission' = [submission EXCEPT ![m] = Settled(m)]
      /\ dispute' = [dispute EXCEPT ![m] = 0]
      /\ UNCHANGED <<config, market, prediction, listed, commitment, now, history>>

ClaimOracleStake(m) ==
  LET reward == OracleReward(m, treasury)
  IN  /\ NotPaused
      /\ submission[m] = "pending"
      /\ dispute[m] = 0
      /\ market[m].is_resolved
      /\ now > market[m].resolved_at + DISPUTE_WINDOW
      /\ Staked(m) + reward <= escrow
      /\ escrow' = escrow - Staked(m) - reward
      /\ treasury' = treasury - reward
      /\ submission' = [submission EXCEPT ![m] = "settled"]
      /\ UNCHANGED <<config, market, prediction, listed, commitment, dispute,
                     insurance, now, history>>

-----------------------------------------------------------------------------
(* escrow.rs and config.rs: administration. *)

\* Mutant: only the token balance limits the withdrawal.
WithdrawTreasury_FromEscrow(amount) ==
  /\ NotPaused
  /\ amount > 0
  /\ amount <= escrow
  /\ treasury' = treasury - amount
  /\ escrow' = escrow - amount
  /\ UNCHANGED <<config, market, prediction, listed, commitment, dispute,
                 submission, insurance, now, history>>

WithdrawTreasury(amount) ==
  /\ NotPaused
  /\ amount > 0
  /\ amount <= treasury /\ amount <= escrow
  /\ treasury' = treasury - amount
  /\ escrow' = escrow - amount
  /\ UNCHANGED <<config, market, prediction, listed, commitment, dispute,
                 submission, insurance, now, history>>

DrawInsurancePool(amount) ==
  /\ NotPaused
  /\ amount > 0
  /\ amount <= insurance /\ amount <= escrow
  /\ insurance' = insurance - amount
  /\ escrow' = escrow - amount
  /\ UNCHANGED <<config, market, prediction, listed, commitment, dispute,
                 submission, treasury, now, history>>

UpdateProtocolFee(bps) ==
  /\ NotPaused
  /\ bps <= BPS      \* MAX_PROTOCOL_FEE_BPS
  /\ config' = [config EXCEPT !.protocol_fee_bps = bps]
  /\ UNCHANGED <<market, prediction, listed, commitment, dispute, submission,
                 funds, now, history>>

SetEarlyExitFeeBps(bps) ==
  /\ NotPaused
  /\ bps <= BPS      \* MAX_EARLY_EXIT_FEE_BPS
  /\ config' = [config EXCEPT !.early_exit_fee_bps = bps]
  /\ UNCHANGED <<market, prediction, listed, commitment, dispute, submission,
                 funds, now, history>>

SetPaused(flag) ==
  /\ config' = [config EXCEPT !.is_paused = flag]
  /\ UNCHANGED <<market, prediction, listed, commitment, dispute, submission,
                 funds, now, history>>

\* The ledger closes: environment.
Tick ==
  /\ now < MaxTime
  /\ now' = now + 1
  /\ UNCHANGED <<config, market, prediction, listed, commitment, dispute,
                 submission, funds, history>>

-----------------------------------------------------------------------------
Requests ==
  UNION {[S -> [outcome : Outcomes, stake : Amounts]] : S \in SUBSET Markets}

LifeCycle(m) ==
  \/ \E p \in MarketParams : CreateMarket(m, p)
  \/ CloseMarket(m)
  \/ \E bps \in CreatorFees : UpdateCreatorFee(m, bps)
  \/ \E t \in EndTimes : ExtendMarketEndTime(m, t)
  \/ CancelMarket(m)
  \/ \E o \in Outcomes : ResolveMarket(m, o)
  \/ \E o \in Outcomes : SubmitResolutionWithStake(m, o)

Trading(m) ==
  \/ \E u \in Users, o \in Outcomes, a \in Amounts : SubmitPrediction(m, u, o, a)
  \/ \E u \in Committers, o \in Outcomes, a \in Amounts : CommitPrediction(m, u, o, a)
  \/ \E u \in Users : RevealPrediction(m, u)
  \/ \E u, v \in Users, a \in Amounts : TransferPrediction(m, u, v, a)
  \/ \E u \in Users, a \in Amounts : WithdrawPosition(m, u, a)

Settlement(m) ==
  \/ \E u \in Users : ClaimPayout(m, u)
  \/ \E W \in SUBSET Users : BatchDistributePayouts(m, W)
  \/ \E u \in Users : ClaimCancelRefund(m, u)
  \/ \E u \in Users : ExpireTombstone(m, u)
  \/ \E b \in DisputeBonds : RaiseDispute(m, b)
  \/ UpholdDispute(m)
  \/ RejectDispute(m)
  \/ ClaimOracleStake(m)

Administration ==
  \/ \E a \in Amounts : WithdrawTreasury(a)
  \/ \E a \in Amounts : DrawInsurancePool(a)
  \/ \E bps \in ProtocolFees : UpdateProtocolFee(bps)
  \/ \E bps \in ExitFees : SetEarlyExitFeeBps(bps)
  \/ \E flag \in BOOLEAN : SetPaused(flag)
  \/ Tick

Next ==
  \/ \E m \in Markets : LifeCycle(m) \/ Trading(m) \/ Settlement(m)
  \/ \E u \in Users, r \in Requests : SubmitPredictionsBatch(u, r)
  \/ Administration

Spec == Init /\ [][Next]_vars

-----------------------------------------------------------------------------
(* Properties. *)

\* Every variable has the type the contract stores it with; balances are never
\* negative.
TypeOK ==
  /\ config \in Config
  /\ market \in [Markets -> Market]
  /\ prediction \in [Markets -> [Users -> Prediction]]
  /\ listed \in [Markets -> [Users -> Int]]
  /\ commitment \in [Markets -> [Users -> Commitment]]
  /\ dispute \in [Markets -> Nat]
  /\ submission \in [Markets -> {"none", "pending", "settled"}]
  /\ escrow \in Nat /\ treasury \in Nat /\ insurance \in Nat
  /\ now \in 0..MaxTime
  /\ paid \in [Markets -> Int]
  /\ settled \in [Markets -> SUBSET Users]
  /\ dust \in [Markets -> Int]
  /\ anomaly \in [Markets -> SUBSET Anomalies]

\* What a market still owes: the gross payouts of the unpaid winners once it is
\* resolved, the stakes before that and after a cancellation.
Outstanding(m) ==
  SumFunction([u \in Users |->
    IF ~HasPosition(m, u) THEN 0
    ELSE IF ~market[m].is_resolved THEN prediction[m][u].stake_amount
    ELSE IF Wins(m, u) THEN GrossPayout(m, u, ClaimWinningPool(m)) ELSE 0])

\* paid + owed = total_pool, and after a resolution at most one unit less for
\* each winner.
Conserved(m) ==
  LET total   == paid[m] + Outstanding(m)
      winners == {u \in Users : Wins(m, u)}
  IN  IF ~market[m].is_resolved THEN total = market[m].total_pool
      ELSE /\ total <= market[m].total_pool
           /\ winners # {} => total >= market[m].total_pool - Cardinality(winners)

\* Tokens the contract holds for somebody: the treasury, the insurance pool,
\* creators' bonds, dispute bonds and the oracle's stakes.
Held ==
  treasury + insurance +
  SumFunction([m \in Markets |-> market[m].bond + dispute[m] + Staked(m)])

Unharmed(m) == anomaly[m] = {}

\* Value conservation (compute_payout_breakdown, claim_payout,
\* batch_distribute_payouts, claim_cancel_refund, withdraw_position): as long
\* as no record was overwritten, expired or paid before a reopening, what a
\* market paid and still owes is its pool, up to one unit per winner, in
\* whatever order and through whichever path the claims arrive.
PayoutsConserved == \A m \in Markets : Unharmed(m) => Conserved(m)

\* escrow.rs keeps one balance for all markets: it is exactly the held amounts,
\* what is left of the pools and the fees credited to nobody.
EscrowMatchesBooks ==
  (\A m \in Markets : "overcharged" \notin anomaly[m]) =>
    escrow = Held + SumFunction([m \in Markets |->
                      market[m].total_pool - paid[m] + dust[m]])

\* The escrow covers every holding and every outstanding stake or payout when
\* the only anomalies are the allowed ones.
CoversDespite(allowed) ==
  (\A m \in Markets : anomaly[m] \subseteq allowed) =>
    escrow >= Held + SumFunction([m \in Markets |-> Outstanding(m)])

\* Without anomalies every claim, refund and fee can be paid: no order of
\* stakes, exits, disputes and fee changes makes the contract insolvent.
EscrowSolvent == CoversDespite({})

\* PredictorList, which the payout paths walk, has participant_count entries
\* and, until a reveal overwrites a record, exactly one for each holder and
\* each paid user.
PredictorsListed ==
  \A m \in Markets :
    /\ market[m].participant_count = SumFunction(listed[m])
    /\ "overwritten" \notin anomaly[m] =>
         \A u \in Users :
           listed[m][u] = IF HasPosition(m, u) \/ u \in settled[m] THEN 1 ELSE 0

\* A user who was paid or refunded never again holds a payable record in that
\* market, whether the tombstone expired or the market was reopened.
NoSecondPayout ==
  \A m \in Markets : \A u \in settled[m] : ~HasPosition(m, u)

\* Submissions and reveals do not look at is_resolved: that nobody joins or
\* leaves a pool once it is resolved, reopened or cancelled rests on
\* end_time <= resolution_time.
PoolFrozen ==
  [][\A m \in Markets :
       market[m].is_resolved \/ market[m].is_cancelled \/ settled[m] # {}
         => /\ market'[m].total_pool = market[m].total_pool
            /\ listed'[m] = listed[m]]_vars

\* batch_distribute_payouts: "the winning pool is computed over every winning
\* stake [...] so entitlements do not depend on claim order".
ConservedAfterExpiry ==
  \A m \in Markets : anomaly[m] \subseteq {"expired"} => Conserved(m)
=============================================================================
