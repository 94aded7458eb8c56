---------------------------- MODULE StakingVault ----------------------------
(***************************************************************************)
(* The staking-vault contract (contracts/staking-vault/src).  Stakers lock *)
(* tokens for boosted shares; protocol fees and early-exit penalties are   *)
(* folded into an accumulator-per-share reward pool (pool.rs); principal   *)
(* leaves through `unstake` or through `request_unlock` + `withdraw`       *)
(* (lib.rs).                                                               *)
(*                                                                         *)
(* A contract call is one transaction: an `Err` or a failing token         *)
(* transfer reverts it, so a call that fails is a step that is not taken.  *)
(* A position that does not exist behaves as the all-zero record `stake`   *)
(* starts from (every other entry point rejects both), so it is modelled   *)
(* by that record.  Amounts are far below the i128 range: the `Overflow`   *)
(* errors of the checked operations are left out, except division by zero. *)
(***************************************************************************)
EXTENDS I128, Sequences, FiniteSets, Functions

CONSTANTS
  Stakers,          \* addresses that may stake
  ACC_PRECISION,    \* pool.rs: fixed-point scale of acc_reward_per_share
  BPS_DENOMINATOR,  \* lock.rs: 10_000 = 1.0x
  TierConfigs,      \* lock-tier vectors `initialize` may be called with
  UnbondingConfigs, \* unbonding configurations it may be called with
  Amounts,          \* amounts a call may carry
  InitialWallet,    \* tokens each staker owns before the vault exists
  MaxFees,          \* bound: tokens the fee source ever deposits
  MaxTime           \* bound: last ledger timestamp

ASSUME StakersAssumption == IsFiniteSet(Stakers)

ASSUME PrecisionAssumption ==
  /\ ACC_PRECISION \in Nat \ {0}
  /\ BPS_DENOMINATOR \in Nat \ {0}

ASSUME ConfigAssumption ==
  /\ \A tiers \in TierConfigs :
       tiers \in Seq([duration : Nat, boost_bps : Nat])
  /\ UnbondingConfigs \subseteq [cooldown_period : Nat, penalty_bps : Nat]

ASSUME BoundsAssumption ==
  /\ Amounts \subseteq Int
  /\ InitialWallet \in Nat
  /\ MaxFees \in Nat
  /\ MaxTime \in Nat

VARIABLES
  config,      \* NotInitialized, or the lock tiers and the unbonding parameters
  paused,      \* DataKey::Paused
  pool,        \* DataKey::Pool
  position,    \* DataKey::Position(staker)
  accrued,     \* FeeLedger.accrued
  vault,       \* token balance of the contract
  wallet,      \* token balance of each staker
  now,         \* ledger timestamp
  rewardsIn,   \* history: fees deposited and penalties routed to the pool
  rewardsPaid, \* history: rewards transferred to stakers
  roundings,   \* history: divisions whose remainder the books may lose
  overdrawn    \* history: a withdrawal exceeded the staker's principal

vars == <<config, paused, pool, position, accrued, vault, wallet, now,
          rewardsIn, rewardsPaid, roundings, overdrawn>>

history == <<rewardsIn, rewardsPaid, roundings, overdrawn>>

-----------------------------------------------------------------------------
(* Types and initial state. *)

NotInitialized == [tiers |-> <<>>, cooldown_period |-> 0, penalty_bps |-> 0]

Initialized == config.tiers # <<>>

PoolState ==
  [total_shares : Int, acc_reward_per_share : Int, pending_rewards : Int]

Position ==
  [amount : Int, shares : Int, unlock_at : Nat, reward_debt : Int,
   unlock_requested_at : Nat, pending_unlock_amount : Int]

\* The record `stake` starts from when the staker has no position.
EmptyPosition ==
  [amount |-> 0, shares |-> 0, unlock_at |-> 0, reward_debt |-> 0,
   unlock_requested_at |-> 0, pending_unlock_amount |-> 0]

EmptyPool ==
  [total_shares |-> 0, acc_reward_per_share |-> 0, pending_rewards |-> 0]

Init ==
  /\ config = NotInitialized
  /\ paused = FALSE
  /\ pool = EmptyPool
  /\ position = [s \in Stakers |-> EmptyPosition]
  /\ accrued = 0
  /\ vault = 0
  /\ wallet = [s \in Stakers |-> InitialWallet]
  /\ now = 0
  /\ rewardsIn = 0 /\ rewardsPaid = 0 /\ roundings = 0
  /\ overdrawn = FALSE

-----------------------------------------------------------------------------
(* lock.rs and pool.rs: pure helpers. *)

\* validate_tiers: non-empty, strictly ascending durations.
ValidTiers(tiers) ==
  /\ tiers # <<>>
  /\ \A i \in 1..(Len(tiers) - 1) : tiers[i].duration < tiers[i+1].duration

Tiers == {config.tiers[i] : i \in 1..Len(config.tiers)}

BoostedShares(amount, boost_bps) ==
  IF boost_bps = 0 THEN amount ELSE (amount * boost_bps) \div BPS_DENOMINATOR

LockElapsed(pos) == now >= pos.unlock_at

CalculatePenalty(amount, penalty_bps) ==
  (amount * penalty_bps) \div BPS_DENOMINATOR

Checkpoint(p, pos) ==
  TruncDiv(pos.shares * p.acc_reward_per_share, ACC_PRECISION)

\* pool::pending: a checkpoint at or below the debt is worth zero.
Pending(p, pos) ==
  LET earned == Checkpoint(p, pos)
  IN  IF earned <= pos.reward_debt THEN 0 ELSE earned - pos.reward_debt

\* Mutant: the debt keeps its old checkpoint.
SettleDebt_Forgotten(p, pos) == pos
SettleDebt(p, pos) == [pos EXCEPT !.reward_debt = Checkpoint(p, pos)]

\* Mutant: the accumulator is replaced instead of advanced.
Distribute_Overwrites(p, amount) ==
  IF p.total_shares = 0
  THEN [p EXCEPT !.pending_rewards = @ + amount]
  ELSE [p EXCEPT !.acc_reward_per_share =
                   TruncDiv(amount * ACC_PRECISION, p.total_shares)]

\* pool::distribute: park the amount when nobody holds shares, otherwise fold
\* it and the parked amount into the accumulator and park the remainder.
Distribute(p, amount) ==
  IF p.total_shares = 0
  THEN [p EXCEPT !.pending_rewards = @ + amount]
  ELSE LET total     == amount + p.pending_rewards
           increment == TruncDiv(total * ACC_PRECISION, p.total_shares)
           accounted == TruncDiv(increment * p.total_shares, ACC_PRECISION)
       IN  [p EXCEPT !.pending_rewards = total - accounted,
                     !.acc_reward_per_share = @ + increment]

\* The shares `unstake` and `withdraw` burn for `amount` of the principal.
SharesToBurn(pos, amount) ==
  IF amount = pos.amount THEN pos.shares
  ELSE TruncDiv(pos.shares * amount, pos.amount)

\* The InsufficientStake check of request_unlock and unstake.
WithinStake(pos, amount) == amount <= pos.amount

\* Mutant: the penalty is recorded but still paid out.
TotalOut_PenaltyPaid(amount, penalty, owed) == amount + owed
\* What `withdraw` transfers to the staker.
TotalOut(amount, penalty, owed) == amount - penalty + owed

\* The position after `amount` and `n` shares were added, locked until `until`.
Enlarge(pos, amount, n, until) ==
  [pos EXCEPT !.amount = @ + amount, !.shares = @ + n, !.unlock_at = until]

\* The position and the pool after `amount` of principal has left.
Reduce(pos, amount) ==
  [pos EXCEPT !.amount = @ - amount, !.shares = @ - SharesToBurn(pos, amount)]

\* Mutant: the pool keeps counting shares that were burnt.
BurnShares_Skipped(p, n) == p
BurnShares(p, n) == [p EXCEPT !.total_shares = @ - n]

-----------------------------------------------------------------------------
(* Entry points of the contract. *)

\* Mutant: a penalty above 100 % is accepted.
Initialize_NoPenaltyCap(tiers, unbonding) ==
  /\ ~Initialized
  /\ ValidTiers(tiers)
  /\ config' = [tiers |-> tiers, cooldown_period |-> unbonding.cooldown_period,
                penalty_bps |-> unbonding.penalty_bps]
  /\ paused' = FALSE
  /\ pool' = EmptyPool
  /\ UNCHANGED <<position, accrued, vault, wallet, now, history>>

Initialize(tiers, unbonding) ==
  /\ ~Initialized
  /\ unbonding.penalty_bps <= BPS_DENOMINATOR
  /\ ValidTiers(tiers)
  /\ config' = [tiers |-> tiers, cooldown_period |-> unbonding.cooldown_period,
                penalty_bps |-> unbonding.penalty_bps]
  /\ paused' = FALSE
  /\ pool' = EmptyPool
  /\ UNCHANGED <<position, accrued, vault, wallet, now, history>>

Stake(s, amount, tier) ==
  LET pos  == position[s]
      owed == IF pos.shares > 0 THEN Pending(pool, pos) ELSE 0
      new  == BoostedShares(amount, tier.boost_bps)
      grown == Enlarge(pos, amount, new, now + tier.duration)
  IN  /\ Initialized /\ ~paused
      /\ amount > 0
      /\ owed <= vault
      /\ amount <= wallet[s] + owed
      /\ vault' = vault - owed + amount
      /\ wallet' = [wallet EXCEPT ![s] = @ + owed - amount]
      /\ position' = [position EXCEPT ![s] = SettleDebt(pool, grown)]
      /\ pool' = [pool EXCEPT !.total_shares = @ + new]
      /\ rewardsPaid' = rewardsPaid + owed
      /\ roundings' = roundings + 1
      /\ UNCHANGED <<config, paused, accrued, now, rewardsIn, overdrawn>>

RequestUnlock(s, amount) ==
  LET pos == position[s]
  IN  /\ Initialized /\ ~paused
      /\ amount > 0
      /\ WithinStake(pos, amount)
      /\ LockElapsed(pos)
      /\ position' = [position EXCEPT ![s].unlock_requested_at = now,
                                      ![s].pending_unlock_amount = amount]
      /\ UNCHANGED <<config, paused, pool, accrued, vault, wallet, now, history>>

Withdraw(s) ==
  LET pos     == position[s]
      amount  == pos.pending_unlock_amount
      early   == now < pos.unlock_requested_at + config.cooldown_period
      penalty == IF early THEN CalculatePenalty(amount, config.penalty_bps) ELSE 0
      owed    == Pending(pool, pos)
      burnt   == BurnShares(pool, SharesToBurn(pos, amount))
      out     == TotalOut(amount, penalty, owed)
  IN  /\ Initialized /\ ~paused
      /\ amount > 0
      /\ LockElapsed(pos)
      /\ pos.amount # 0        \* otherwise the share division fails
      /\ out <= vault
      /\ position' = [position EXCEPT ![s] =
                        SettleDebt(burnt,
                          [Reduce(pos, amount) EXCEPT !.pending_unlock_amount = 0,
                                                      !.unlock_requested_at = 0])]
      /\ pool' = IF penalty > 0 THEN Distribute(burnt, penalty) ELSE burnt
      /\ vault' = vault - out
      /\ wallet' = [wallet EXCEPT ![s] = @ + out]
      /\ rewardsIn' = rewardsIn + penalty
      /\ rewardsPaid' = rewardsPaid + owed
      /\ roundings' = roundings + (IF penalty > 0 THEN 2 ELSE 1)
      /\ overdrawn' = (overdrawn \/ amount > pos.amount)
      /\ UNCHANGED <<config, paused, accrued, now>>

Unstake(s, amount) ==
  LET pos   == position[s]
      owed  == Pending(pool, pos)
      burnt == BurnShares(pool, SharesToBurn(pos, amount))
  IN  /\ Initialized /\ ~paused
      /\ amount > 0
      /\ WithinStake(pos, amount)
      /\ LockElapsed(pos)
      /\ amount + owed <= vault
      /\ position' = [position EXCEPT ![s] = SettleDebt(burnt, Reduce(pos, amount))]
      /\ pool' = burnt
      /\ vault' = vault - amount - owed
      /\ wallet' = [wallet EXCEPT ![s] = @ + amount + owed]
      /\ rewardsPaid' = rewardsPaid + owed
      /\ roundings' = roundings + 1
      /\ UNCHANGED <<config, paused, accrued, now, rewardsIn, overdrawn>>

ClaimRewards(s) ==
  LET owed == Pending(pool, position[s])
  IN  /\ Initialized /\ ~paused
      /\ owed > 0
      /\ owed <= vault
      /\ position' = [position EXCEPT ![s] = SettleDebt(pool, @)]
      /\ vault' = vault - owed
      /\ wallet' = [wallet EXCEPT ![s] = @ + owed]
      /\ rewardsPaid' = rewardsPaid + owed
      /\ UNCHANGED <<config, paused, pool, accrued, now, rewardsIn, roundings,
                     overdrawn>>

\* Only the fee source gets past the authorization check.
DepositFees(amount) ==
  /\ Initialized /\ ~paused
  /\ amount > 0
  /\ accrued + amount <= MaxFees
  /\ pool' = Distribute(pool, amount)
  /\ accrued' = accrued + amount
  /\ vault' = vault + amount
  /\ rewardsIn' = rewardsIn + amount
  /\ roundings' = roundings + (IF pool.total_shares = 0 THEN 0 ELSE 1)
  /\ UNCHANGED <<config, paused, position, wallet, now, rewardsPaid, overdrawn>>

SetPaused(flag) ==
  /\ Initialized
  /\ paused' = flag
  /\ UNCHANGED <<config, pool, position, accrued, vault, wallet, now, history>>

\* The ledger closes: environment.
Tick ==
  /\ now < MaxTime
  /\ now' = now + 1
  /\ UNCHANGED <<config, paused, pool, position, accrued, vault, wallet, history>>

Next ==
  \/ \E tiers \in TierConfigs, u \in UnbondingConfigs : Initialize(tiers, u)
  \/ \E s \in Stakers, a \in Amounts, t \in Tiers : Stake(s, a, t)
  \/ \E s \in Stakers, a \in Amounts : RequestUnlock(s, a)
  \/ \E s \in Stakers : Withdraw(s)
  \/ \E s \in Stakers, a \in Amounts : Unstake(s, a)
  \/ \E s \in Stakers : ClaimRewards(s)
  \/ \E a \in Amounts : DepositFees(a)
  \/ \E flag \in BOOLEAN : SetPaused(flag)
  \/ Tick

Spec == Init /\ [][Next]_vars

-----------------------------------------------------------------------------
(* Properties. *)

TotalShares  == SumFunction([s \in Stakers |-> position[s].shares])
TotalStaked  == SumFunction([s \in Stakers |-> position[s].amount])
TotalPending == SumFunction([s \in Stakers |-> Pending(pool, position[s])])

\* Every variable has the type the contract stores it with.
TypeOK ==
  /\ config \in [tiers : Seq([duration : Nat, boost_bps : Nat]),
                 cooldown_period : Nat, penalty_bps : 0..BPS_DENOMINATOR]
  /\ paused \in BOOLEAN
  /\ pool \in PoolState
  /\ position \in [Stakers -> Position]
  /\ accrued \in 0..MaxFees
  /\ vault \in Nat
  /\ wallet \in [Stakers -> Nat]
  /\ now \in 0..MaxTime
  /\ rewardsIn \in Nat /\ rewardsPaid \in Nat /\ roundings \in Nat
  /\ overdrawn \in BOOLEAN

\* `total_shares`, which distribute divides by, is the sum of the shares of
\* the positions: stake, unstake and withdraw update the two together.
SharesConserved == pool.total_shares = TotalShares

\* The contract's token balance is exactly the staked principal plus the
\* rewards that came in and were not paid out: no path of stake, withdraw
\* (with or without penalty), unstake, claim_rewards or deposit_fees moves
\* tokens the books do not record.
VaultMatchesBooks == vault = TotalStaked + rewardsIn - rewardsPaid

\* pool.rs rounds the accumulator, the parked remainder and each reward_debt
\* separately, and every rounding may credit less than one unit twice: the
\* claimable and parked rewards exceed the rewards still in the vault by at
\* most one unit for each distribution and each change of a position's shares.
\* (A withdrawal beyond the principal voids the share books altogether.)
OverpaymentBounded ==
  ~overdrawn =>
    rewardsPaid + TotalPending + pool.pending_rewards <= rewardsIn + roundings

\* What another account or the fee source does never lowers the rewards a
\* staker can claim: only a step on the staker's own position may.
ClaimableNeverLost ==
  [][\A s \in Stakers :
       ~overdrawn' /\ position'[s] = position[s]
         => Pending(pool', position[s]) >= Pending(pool, position[s])]_vars
=============================================================================
