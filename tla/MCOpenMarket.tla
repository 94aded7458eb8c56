---------------------------- MODULE MCOpenMarket ----------------------------
(***************************************************************************)
(* Instances of OpenMarket for TLC.  Rates are larger than the deployed    *)
(* ones because stakes are a few units instead of millions of stroops.     *)
(***************************************************************************)
EXTENDS OpenMarket, TLC

CONSTANTS
  MaxTreasury,  \* bound: tokens explored in the treasury and the insurance pool
  MaxPool,      \* bound: tokens explored in one market's pool
  MaxPaid,      \* bound: tokens explored as paid by one market
  MaxDust       \* bound: uncredited early-exit fees explored

\* One market that closes at 1 and may be resolved from then on, one whose
\* resolution time precedes its end and is refused.
MCMarketParams ==
  {[end_time |-> 1, resolution_time |-> 1, creator_fee_bps |-> 2500, bond |-> 1],
   [end_time |-> 2, resolution_time |-> 1, creator_fee_bps |-> 2500, bond |-> 1]}

\* Users who hold or held something in the market.
Active(m) ==
  {u \in Users : \/ prediction[m][u] # NoPrediction \/ listed[m][u] > 0
                 \/ commitment[m][u] # NoCommitment \/ u \in settled[m]}

\* The market was extended, its creator's fee changed or a committer takes part.
Varied(m) ==
  /\ market[m].exists
  /\ \/ market[m].end_time \in EndTimes
     \/ market[m].creator_fee_bps \in CreatorFees
     \/ Active(m) \cap Committers # {}

\* While the contract is paused only the clock moves; what happened before and
\* after a pause is explored without it.  A varied market is explored with one
\* committer, one other user and no dispute or oracle stake.
Explored ==
  /\ ~config.is_paused
  /\ treasury + insurance <= MaxTreasury
  /\ \A m \in Markets :
       /\ market[m].total_pool <= MaxPool
       /\ paid[m] <= MaxPaid
       /\ dust[m] <= MaxDust
       /\ Varied(m) => /\ Cardinality(Active(m) \ Committers) <= 1
                       /\ dispute[m] = 0 /\ submission[m] = "none"
                       /\ treasury + insurance < MaxTreasury
                       /\ market[m].total_pool < MaxPool

Symmetry == Permutations(Users \ Committers) \cup Permutations(Committers)
=============================================================================
