------------------------ MODULE StakingVaultProofs -------------------------
(***************************************************************************)
(* Theorems about StakingVault, for every set of stakers, configuration    *)
(* and precision.                                                          *)
(***************************************************************************)
EXTENDS StakingVault, SumLemmas

USE StakersAssumption, PrecisionAssumption

-----------------------------------------------------------------------------
(* Types of the pure helpers. *)

LEMMA DivNat ==
  ASSUME NEW a \in Nat, NEW b \in Nat \ {0}
  PROVE  a \div b \in Nat /\ b * (a \div b) <= a /\ a < b * (a \div b) + b
OBVIOUS

LEMMA TruncDivInt ==
  ASSUME NEW a \in Int, NEW b \in Int, b # 0
  PROVE  TruncDiv(a, b) \in Int
BY DEF TruncDiv

\* A penalty is never more than the amount it is taken from.
LEMMA PenaltyBounds ==
  ASSUME NEW amount \in Nat, NEW bps \in 0..BPS_DENOMINATOR
  PROVE  CalculatePenalty(amount, bps) \in 0..amount
<1>1. amount * bps \in Nat /\ amount * bps <= amount * BPS_DENOMINATOR
  OBVIOUS
<1> DEFINE q == (amount * bps) \div BPS_DENOMINATOR
<1>2. q \in Nat /\ BPS_DENOMINATOR * q <= amount * bps
  BY <1>1, DivNat
<1> HIDE DEF q
<1>3. BPS_DENOMINATOR * q <= BPS_DENOMINATOR * amount
  BY <1>1, <1>2
<1>4. q <= amount
  BY <1>2, <1>3
<1>5. QED
  BY <1>2, <1>4 DEF CalculatePenalty, q

LEMMA BoostedSharesNat ==
  ASSUME NEW amount \in Nat, NEW bps \in Nat
  PROVE  BoostedShares(amount, bps) \in Nat
<1>1. amount * bps \in Nat
  OBVIOUS
<1>2. QED
  BY <1>1, DivNat DEF BoostedShares

LEMMA CheckpointInt ==
  ASSUME NEW p \in PoolState, NEW pos \in Position
  PROVE  Checkpoint(p, pos) \in Int
<1>1. pos.shares \in Int /\ p.acc_reward_per_share \in Int
  BY DEF PoolState, Position
<1>2. pos.shares * p.acc_reward_per_share \in Int
  BY <1>1
<1>3. QED
  BY <1>2, TruncDivInt DEF Checkpoint

LEMMA PendingNat ==
  ASSUME NEW p \in PoolState, NEW pos \in Position
  PROVE  Pending(p, pos) \in Nat
<1>1. Checkpoint(p, pos) \in Int /\ pos.reward_debt \in Int
  BY CheckpointInt DEF Position
<1>2. QED
  BY <1>1 DEF Pending

LEMMA SettleDebtType ==
  ASSUME NEW p \in PoolState, NEW pos \in Position
  PROVE  /\ SettleDebt(p, pos) \in Position
         /\ SettleDebt(p, pos).amount = pos.amount
         /\ SettleDebt(p, pos).shares = pos.shares
         /\ SettleDebt(p, pos).reward_debt = Checkpoint(p, pos)
BY CheckpointInt DEF SettleDebt, Position

LEMMA DistributeType ==
  ASSUME NEW p \in PoolState, NEW amount \in Int
  PROVE  /\ Distribute(p, amount) \in PoolState
         /\ Distribute(p, amount).total_shares = p.total_shares
<1> DEFINE total     == amount + p.pending_rewards
           increment == TruncDiv(total * ACC_PRECISION, p.total_shares)
           accounted == TruncDiv(increment * p.total_shares, ACC_PRECISION)
<1>1. CASE p.total_shares = 0
  BY <1>1 DEF Distribute, PoolState
<1>2. CASE p.total_shares # 0
  <2>1. p.total_shares \in Int /\ total \in Int /\ p.acc_reward_per_share \in Int
    BY DEF PoolState
  <2>2. total * ACC_PRECISION \in Int
    BY <2>1
  <2>3. increment \in Int
    BY <1>2, <2>1, <2>2, TruncDivInt
  <2>4. increment * p.total_shares \in Int
    <3> HIDE DEF increment
    <3>1. QED
      BY <2>1, <2>3
  <2>5. accounted \in Int
    <3> HIDE DEF increment
    <3>1. ACC_PRECISION \in Int /\ ACC_PRECISION # 0
      OBVIOUS
    <3>2. QED
      BY <2>4, <3>1, TruncDivInt
  <2>6. Distribute(p, amount) =
          [p EXCEPT !.pending_rewards = total - accounted,
                    !.acc_reward_per_share = @ + increment]
    BY <1>2 DEF Distribute
  <2> HIDE DEF total, increment, accounted
  <2>7. Distribute(p, amount) =
          [total_shares |-> p.total_shares,
           acc_reward_per_share |-> p.acc_reward_per_share + increment,
           pending_rewards |-> total - accounted]
    BY <2>6 DEF PoolState
  <2>8. QED
    BY <2>1, <2>3, <2>5, <2>7 DEF PoolState
<1>3. QED
  BY <1>1, <1>2

LEMMA SharesToBurnInt ==
  ASSUME NEW pos \in Position, NEW amount \in Int, pos.amount # 0
  PROVE  SharesToBurn(pos, amount) \in Int
<1>1. pos.shares \in Int /\ pos.amount \in Int /\ pos.shares * amount \in Int
  BY DEF Position
<1>2. QED
  BY <1>1, TruncDivInt DEF SharesToBurn

-----------------------------------------------------------------------------
(* Type correctness: one step per entry point. *)

\* What a call does to the staker's position keeps it a position.
LEMMA ReducedPosition ==
  ASSUME NEW pos \in Position, NEW amount \in Int, pos.amount # 0
  PROVE  /\ Reduce(pos, amount) \in Position
         /\ Reduce(pos, amount).amount = pos.amount - amount
         /\ Reduce(pos, amount).shares = pos.shares - SharesToBurn(pos, amount)
<1> DEFINE burn == SharesToBurn(pos, amount)
<1>1. burn \in Int
  BY SharesToBurnInt
<1>2. Reduce(pos, amount) = [pos EXCEPT !.amount = @ - amount, !.shares = @ - burn]
  BY DEF Reduce
<1> HIDE DEF burn
<1>3. Reduce(pos, amount) =
        [amount |-> pos.amount - amount, shares |-> pos.shares - burn,
         unlock_at |-> pos.unlock_at, reward_debt |-> pos.reward_debt,
         unlock_requested_at |-> pos.unlock_requested_at,
         pending_unlock_amount |-> pos.pending_unlock_amount]
  BY <1>2 DEF Position
<1>4. QED
  BY <1>1, <1>3 DEF Position, burn

LEMMA GrownPosition ==
  ASSUME NEW pos \in Position, NEW a \in Int, NEW n \in Int, NEW u \in Nat
  PROVE  /\ Enlarge(pos, a, n, u) \in Position
         /\ Enlarge(pos, a, n, u).amount = pos.amount + a
         /\ Enlarge(pos, a, n, u).shares = pos.shares + n
         /\ Enlarge(pos, a, n, u).unlock_at = u
<1> DEFINE r == Enlarge(pos, a, n, u)
<1>1. r = [pos EXCEPT !.amount = @ + a, !.shares = @ + n, !.unlock_at = u]
  BY DEF Enlarge
<1> HIDE DEF r
<1>2. r = [amount |-> pos.amount + a, shares |-> pos.shares + n,
           unlock_at |-> u, reward_debt |-> pos.reward_debt,
           unlock_requested_at |-> pos.unlock_requested_at,
           pending_unlock_amount |-> pos.pending_unlock_amount]
  BY <1>1 DEF Position
<1>3. r \in Position /\ r.amount = pos.amount + a /\ r.shares = pos.shares + n
      /\ r.unlock_at = u
  BY <1>2 DEF Position
<1>4. QED
  BY <1>3 DEF r

LEMMA BurntPool ==
  ASSUME NEW p \in PoolState, NEW n \in Int
  PROVE  /\ BurnShares(p, n) \in PoolState
         /\ BurnShares(p, n).total_shares = p.total_shares - n
BY DEF BurnShares, PoolState

\* A step that touches only s's position moves the pool's share count and the
\* vault's balance exactly as the position and the reward flows say.
BooksBalance(s) ==
  /\ position' = [position EXCEPT ![s] = position'[s]]
  /\ pool'.total_shares = pool.total_shares + position'[s].shares - position[s].shares
  /\ vault' = vault + (position'[s].amount - position[s].amount)
                   + (rewardsIn' - rewardsIn) - (rewardsPaid' - rewardsPaid)

LEMMA InitType == Init => TypeOK
<1> SUFFICES ASSUME Init PROVE TypeOK
  OBVIOUS
<1>1. EmptyPosition \in Position /\ EmptyPool \in PoolState
  BY DEF EmptyPosition, EmptyPool, Position, PoolState
<1>2. NotInitialized \in [tiers : Seq([duration : Nat, boost_bps : Nat]),
                         cooldown_period : Nat, penalty_bps : 0..BPS_DENOMINATOR]
  BY DEF NotInitialized
<1>3. position \in [Stakers -> Position] /\ wallet \in [Stakers -> Nat]
  BY <1>1, BoundsAssumption DEF Init
<1>4. accrued \in 0..MaxFees /\ now \in 0..MaxTime
  BY BoundsAssumption DEF Init
<1>5. QED
  BY <1>1, <1>2, <1>3, <1>4 DEF Init, TypeOK

LEMMA StakeType ==
  ASSUME TypeOK, NEW s \in Stakers, NEW amount \in Amounts, NEW tier \in Tiers,
         Stake(s, amount, tier)
  PROVE  TypeOK' /\ BooksBalance(s)
<1> DEFINE pos   == position[s]
           owed  == IF pos.shares > 0 THEN Pending(pool, pos) ELSE 0
           new   == BoostedShares(amount, tier.boost_bps)
           grown == Enlarge(pos, amount, new, now + tier.duration)
<1>1. pos \in Position /\ pool \in PoolState /\ amount \in Nat
  BY BoundsAssumption DEF TypeOK, Stake
<1>2. tier.duration \in Nat /\ tier.boost_bps \in Nat
  <2>1. config.tiers \in Seq([duration : Nat, boost_bps : Nat])
    BY DEF TypeOK
  <2>2. PICK i \in 1..Len(config.tiers) : tier = config.tiers[i]
    BY DEF Tiers
  <2> DEFINE Tier == [duration : Nat, boost_bps : Nat]
  <2>3. tier \in Tier
    <3> HIDE DEF Tier
    <3>1. config.tiers \in Seq(Tier)
      BY <2>1 DEF Tier
    <3>2. QED
      BY <2>2, <3>1
  <2>4. QED
    BY <2>3
<1>3. owed \in Nat
  BY <1>1, PendingNat
<1>4. new \in Nat
  BY <1>1, <1>2, BoostedSharesNat
<1>5. /\ grown \in Position /\ grown.unlock_at \in Nat
      /\ grown.amount = pos.amount + amount /\ grown.shares = pos.shares + new
  <2> DEFINE until == now + tier.duration
  <2>1. until \in Nat
    BY <1>2, BoundsAssumption DEF TypeOK
  <2>2. amount \in Int /\ new \in Int
    BY <1>1, <1>4
  <2> HIDE DEF pos, new
  <2>3. QED
    BY <1>1, <2>1, <2>2, GrownPosition
<1>6. /\ SettleDebt(pool, grown) \in Position
      /\ SettleDebt(pool, grown).amount = pos.amount + amount
      /\ SettleDebt(pool, grown).shares = pos.shares + new
  <2> HIDE DEF grown
  <2>1. QED
    BY <1>1, <1>5, SettleDebtType
<1>7. /\ owed <= vault /\ amount <= wallet[s] + owed
      /\ vault' = vault - owed + amount
      /\ wallet' = [wallet EXCEPT ![s] = @ + owed - amount]
      /\ position' = [position EXCEPT ![s] = SettleDebt(pool, grown)]
      /\ pool' = [pool EXCEPT !.total_shares = @ + new]
      /\ rewardsPaid' = rewardsPaid + owed
      /\ roundings' = roundings + 1
      /\ UNCHANGED <<config, paused, accrued, now, rewardsIn, overdrawn>>
  BY DEF Stake
<1> HIDE DEF pos, owed, new, grown
<1>8. vault' \in Nat /\ wallet' \in [Stakers -> Nat] /\ rewardsPaid' \in Nat
  <2>1. vault \in Nat /\ wallet \in [Stakers -> Nat] /\ rewardsPaid \in Nat
    BY DEF TypeOK
  <2>2. wallet[s] + owed - amount \in Nat
    BY <1>1, <1>3, <1>7, <2>1
  <2>3. QED
    BY <1>1, <1>3, <1>7, <2>1, <2>2
<1>9. position' \in [Stakers -> Position] /\ pool' \in PoolState
  <2>1. position' \in [Stakers -> Position]
    BY <1>6, <1>7 DEF TypeOK
  <2>2. pool' \in PoolState
    BY <1>1, <1>4, <1>7 DEF PoolState
  <2>3. QED
    BY <2>1, <2>2
<1>10. roundings' \in Nat
  BY <1>5, <1>7 DEF TypeOK
<1>11. position'[s] = SettleDebt(pool, grown) /\ position[s] = pos
  BY <1>7 DEF TypeOK, pos
<1>12. pool'.total_shares = pool.total_shares + new
  BY <1>1, <1>7 DEF PoolState
<1>13. BooksBalance(s)
  <2>1. /\ pos.amount \in Int /\ pos.shares \in Int /\ pool.total_shares \in Int
        /\ vault \in Int /\ rewardsPaid \in Int /\ rewardsIn \in Int
    BY <1>1 DEF TypeOK, Position, PoolState
  <2>2. pool'.total_shares =
          pool.total_shares + position'[s].shares - position[s].shares
    BY <1>4, <1>6, <1>11, <1>12, <2>1
  <2>3. vault' = vault + (position'[s].amount - position[s].amount)
                     + (rewardsIn' - rewardsIn) - (rewardsPaid' - rewardsPaid)
    BY <1>1, <1>3, <1>6, <1>7, <1>11, <2>1
  <2>4. QED
    BY <1>7, <1>11, <2>2, <2>3 DEF BooksBalance
<1>14. QED
  BY <1>7, <1>8, <1>9, <1>10, <1>13 DEF TypeOK

LEMMA WithdrawType ==
  ASSUME TypeOK, NEW s \in Stakers, Withdraw(s)
  PROVE  TypeOK' /\ BooksBalance(s)
<1> DEFINE pos     == position[s]
           amount  == pos.pending_unlock_amount
           early   == now < pos.unlock_requested_at + config.cooldown_period
           penalty == IF early THEN CalculatePenalty(amount, config.penalty_bps)
                               ELSE 0
           owed    == Pending(pool, pos)
           burn    == SharesToBurn(pos, amount)
           burnt   == BurnShares(pool, burn)
           out     == TotalOut(amount, penalty, owed)
           left    == [Reduce(pos, amount) EXCEPT !.pending_unlock_amount = 0,
                                                  !.unlock_requested_at = 0]
<1>1. pos \in Position /\ pool \in PoolState /\ amount \in Int /\ amount > 0
      /\ pos.amount # 0
  BY DEF TypeOK, Withdraw, Position
<1>2. owed \in Nat
  BY <1>1, PendingNat
<1>3. penalty \in 0..amount
  <2>1. amount \in Nat /\ config.penalty_bps \in 0..BPS_DENOMINATOR
    BY <1>1 DEF TypeOK
  <2>2. QED
    <3>1. CalculatePenalty(amount, config.penalty_bps) \in 0..amount
      BY <2>1, PenaltyBounds
    <3> HIDE DEF amount
    <3>2. QED
      BY <2>1, <3>1
<1>4. out \in Nat
  <2> HIDE DEF penalty, owed
  <2>1. QED
    BY <1>1, <1>2, <1>3 DEF TotalOut
<1>5. /\ left \in Position
      /\ left.amount = pos.amount - amount /\ left.shares = pos.shares - burn
  <2>1. /\ Reduce(pos, amount) \in Position
        /\ Reduce(pos, amount).amount = pos.amount - amount
        /\ Reduce(pos, amount).shares = pos.shares - burn
    BY <1>1, ReducedPosition
  <2> DEFINE r == Reduce(pos, amount)
  <2>2. left = [r EXCEPT !.pending_unlock_amount = 0, !.unlock_requested_at = 0]
    OBVIOUS
  <2> HIDE DEF r, left
  <2>3. left = [amount |-> r.amount, shares |-> r.shares,
                unlock_at |-> r.unlock_at, reward_debt |-> r.reward_debt,
                unlock_requested_at |-> 0, pending_unlock_amount |-> 0]
    BY <2>1, <2>2 DEF Position, r
  <2>4. left \in Position /\ left.amount = r.amount /\ left.shares = r.shares
    BY <2>1, <2>3 DEF Position, r
  <2>5. QED
    BY <2>1, <2>4 DEF r
<1>6. /\ burn \in Int /\ burnt \in PoolState
      /\ burnt.total_shares = pool.total_shares - burn
  <2>1. burn \in Int
    BY <1>1, SharesToBurnInt
  <2> HIDE DEF burn
  <2>2. QED
    BY <1>1, <2>1, BurntPool
<1>7. /\ SettleDebt(burnt, left) \in Position
      /\ SettleDebt(burnt, left).amount = left.amount
      /\ SettleDebt(burnt, left).shares = left.shares
  <2> HIDE DEF burnt, left
  <2>1. QED
    BY <1>5, <1>6, SettleDebtType
<1>8. /\ Distribute(burnt, penalty) \in PoolState
      /\ Distribute(burnt, penalty).total_shares = burnt.total_shares
  <2> HIDE DEF burnt, penalty
  <2>1. QED
    BY <1>1, <1>3, <1>6, DistributeType
<1>9. /\ out <= vault /\ vault' = vault - out
      /\ wallet' = [wallet EXCEPT ![s] = @ + out]
      /\ position' = [position EXCEPT ![s] = SettleDebt(burnt, left)]
      /\ pool' = IF penalty > 0 THEN Distribute(burnt, penalty) ELSE burnt
      /\ rewardsIn' = rewardsIn + penalty
      /\ rewardsPaid' = rewardsPaid + owed
      /\ roundings' = roundings + (IF penalty > 0 THEN 2 ELSE 1)
      /\ overdrawn' = (overdrawn \/ amount > pos.amount)
      /\ UNCHANGED <<config, paused, accrued, now>>
  BY DEF Withdraw
<1>a. out = amount - penalty + owed
  BY DEF TotalOut
<1>b. position'[s] = SettleDebt(burnt, left) /\ position[s] = pos
  BY <1>9 DEF TypeOK
<1> HIDE DEF pos, amount, early, penalty, owed, burn, burnt, out, left
<1>10. vault' \in Nat /\ wallet' \in [Stakers -> Nat] /\ rewardsPaid' \in Nat
       /\ rewardsIn' \in Nat
  BY <1>1, <1>2, <1>3, <1>4, <1>9 DEF TypeOK
<1>11. position' \in [Stakers -> Position] /\ pool' \in PoolState
  BY <1>6, <1>7, <1>8, <1>9 DEF TypeOK
<1>12. roundings' \in Nat
       /\ overdrawn' \in BOOLEAN
  BY <1>1, <1>3, <1>9 DEF TypeOK
<1>13. BooksBalance(s)
  <2>1. /\ pos.amount \in Int /\ pos.shares \in Int /\ pool.total_shares \in Int
        /\ vault \in Int /\ rewardsPaid \in Int /\ rewardsIn \in Int
    BY <1>1 DEF TypeOK, Position, PoolState
  <2>2. pool'.total_shares = pool.total_shares - burn
    BY <1>6, <1>8, <1>9
  <2>3. pool'.total_shares =
          pool.total_shares + position'[s].shares - position[s].shares
    BY <1>5, <1>6, <1>7, <1>b, <2>1, <2>2
  <2>4. vault' = vault + (position'[s].amount - position[s].amount)
                     + (rewardsIn' - rewardsIn) - (rewardsPaid' - rewardsPaid)
    BY <1>1, <1>2, <1>3, <1>5, <1>7, <1>9, <1>a, <1>b, <2>1
  <2>5. QED
    BY <1>9, <1>b, <2>3, <2>4 DEF BooksBalance
<1>14. QED
  BY <1>9, <1>10, <1>11, <1>12, <1>13 DEF TypeOK

LEMMA UnstakeType ==
  ASSUME TypeOK, NEW s \in Stakers, NEW amount \in Amounts, Unstake(s, amount)
  PROVE  TypeOK' /\ BooksBalance(s)
<1> DEFINE pos   == position[s]
           owed  == Pending(pool, pos)
           burn  == SharesToBurn(pos, amount)
           burnt == BurnShares(pool, burn)
           left  == Reduce(pos, amount)
<1>1. pos \in Position /\ pool \in PoolState /\ amount \in Nat /\ pos.amount # 0
  BY BoundsAssumption DEF TypeOK, Unstake, WithinStake, Position
<1>2. owed \in Nat
  BY <1>1, PendingNat
<1>3. /\ left \in Position
      /\ left.amount = pos.amount - amount /\ left.shares = pos.shares - burn
  <2> HIDE DEF pos
  <2>1. amount \in Int
    BY <1>1
  <2>2. QED
    BY <1>1, <2>1, ReducedPosition
<1>4. /\ burn \in Int /\ burnt \in PoolState
      /\ burnt.total_shares = pool.total_shares - burn
  <2>1. burn \in Int
    <3> HIDE DEF pos
    <3>1. amount \in Int
      BY <1>1
    <3>2. QED
      BY <1>1, <3>1, SharesToBurnInt
  <2> HIDE DEF burn
  <2>2. QED
    BY <1>1, <2>1, BurntPool
<1>5. /\ SettleDebt(burnt, left) \in Position
      /\ SettleDebt(burnt, left).amount = left.amount
      /\ SettleDebt(burnt, left).shares = left.shares
  <2> HIDE DEF burnt, left
  <2>1. QED
    BY <1>3, <1>4, SettleDebtType
<1>6. /\ amount + owed <= vault /\ vault' = vault - amount - owed
      /\ wallet' = [wallet EXCEPT ![s] = @ + amount + owed]
      /\ position' = [position EXCEPT ![s] = SettleDebt(burnt, left)]
      /\ pool' = burnt
      /\ rewardsPaid' = rewardsPaid + owed
      /\ roundings' = roundings + 1
      /\ UNCHANGED <<config, paused, accrued, now, rewardsIn, overdrawn>>
  BY DEF Unstake
<1>a. position'[s] = SettleDebt(burnt, left) /\ position[s] = pos
  BY <1>6 DEF TypeOK
<1> HIDE DEF pos, owed, burn, burnt, left
<1>7. vault' \in Nat /\ wallet' \in [Stakers -> Nat] /\ rewardsPaid' \in Nat
      /\ roundings' \in Nat
  BY <1>1, <1>2, <1>6 DEF TypeOK
<1>8. position' \in [Stakers -> Position] /\ pool' \in PoolState
  BY <1>4, <1>5, <1>6 DEF TypeOK
<1>9. BooksBalance(s)
  <2>1. /\ pos.amount \in Int /\ pos.shares \in Int /\ pool.total_shares \in Int
        /\ vault \in Int /\ rewardsPaid \in Int /\ rewardsIn \in Int
    BY <1>1 DEF TypeOK, Position, PoolState
  <2>2. pool'.total_shares =
          pool.total_shares + position'[s].shares - position[s].shares
    BY <1>3, <1>4, <1>5, <1>6, <1>a, <2>1
  <2>3. vault' = vault + (position'[s].amount - position[s].amount)
                     + (rewardsIn' - rewardsIn) - (rewardsPaid' - rewardsPaid)
    BY <1>1, <1>2, <1>3, <1>5, <1>6, <1>a, <2>1
  <2>4. QED
    BY <1>6, <1>a, <2>2, <2>3 DEF BooksBalance
<1>10. QED
  BY <1>6, <1>7, <1>8, <1>9 DEF TypeOK

LEMMA RequestUnlockType ==
  ASSUME TypeOK, NEW s \in Stakers, NEW amount \in Amounts,
         RequestUnlock(s, amount)
  PROVE  TypeOK' /\ BooksBalance(s)
<1>1. position[s] \in Position /\ amount \in Int /\ now \in Nat
  BY BoundsAssumption DEF TypeOK
<1> DEFINE r == [position[s] EXCEPT !.unlock_requested_at = now,
                                    !.pending_unlock_amount = amount]
<1>2. position' = [position EXCEPT ![s] = r]
  BY DEF RequestUnlock, TypeOK
<1>a. r = [position[s] EXCEPT !.unlock_requested_at = now,
                             !.pending_unlock_amount = amount]
  OBVIOUS
<1> HIDE DEF r
<1>3. r = [amount |-> position[s].amount, shares |-> position[s].shares,
           unlock_at |-> position[s].unlock_at,
           reward_debt |-> position[s].reward_debt,
           unlock_requested_at |-> now, pending_unlock_amount |-> amount]
  BY <1>1, <1>a DEF Position
<1>4. r \in Position /\ r.amount = position[s].amount /\ r.shares = position[s].shares
  BY <1>1, <1>3 DEF Position
<1>5. position'[s] = r
  BY <1>2 DEF TypeOK
<1>6. BooksBalance(s)
  <2>1. UNCHANGED <<pool, vault, rewardsIn, rewardsPaid>>
    BY DEF RequestUnlock, history
  <2>2. /\ r.amount \in Int /\ r.shares \in Int /\ pool.total_shares \in Int
        /\ vault \in Int /\ rewardsPaid \in Int /\ rewardsIn \in Int
    <3>1. r.amount \in Int /\ r.shares \in Int
      BY <1>4 DEF Position
    <3>2. pool.total_shares \in Int
      BY DEF TypeOK, PoolState
    <3>3. QED
      BY <3>1, <3>2 DEF TypeOK
  <2>3. pool'.total_shares =
          pool.total_shares + position'[s].shares - position[s].shares
    BY <1>4, <1>5, <2>1, <2>2
  <2>4. vault' = vault + (position'[s].amount - position[s].amount)
                     + (rewardsIn' - rewardsIn) - (rewardsPaid' - rewardsPaid)
    BY <1>4, <1>5, <2>1, <2>2
  <2>5. QED
    BY <1>2, <1>5, <2>3, <2>4 DEF BooksBalance
<1>7. QED
  BY <1>2, <1>4, <1>6 DEF RequestUnlock, TypeOK, history

LEMMA ClaimRewardsType ==
  ASSUME TypeOK, NEW s \in Stakers, ClaimRewards(s)
  PROVE  TypeOK' /\ BooksBalance(s)
<1> DEFINE owed == Pending(pool, position[s])
<1>1. position[s] \in Position /\ pool \in PoolState
  BY DEF TypeOK
<1>2. owed \in Nat /\ SettleDebt(pool, position[s]) \in Position
  BY <1>1, PendingNat, SettleDebtType
<1>3. /\ owed <= vault /\ vault' = vault - owed
      /\ wallet' = [wallet EXCEPT ![s] = @ + owed]
      /\ position' = [position EXCEPT ![s] = SettleDebt(pool, position[s])]
      /\ rewardsPaid' = rewardsPaid + owed
      /\ UNCHANGED <<config, paused, pool, accrued, now, rewardsIn, roundings,
                     overdrawn>>
  BY DEF ClaimRewards
<1> HIDE DEF owed
<1>4. vault' \in Nat /\ wallet' \in [Stakers -> Nat] /\ rewardsPaid' \in Nat
  BY <1>2, <1>3 DEF TypeOK
<1>5. position' \in [Stakers -> Position]
  BY <1>2, <1>3 DEF TypeOK
<1>6. BooksBalance(s)
  <2> DEFINE r == SettleDebt(pool, position[s])
  <2>1. r.amount = position[s].amount /\ r.shares = position[s].shares
    BY <1>1, SettleDebtType
  <2>2. position' = [position EXCEPT ![s] = r] /\ position'[s] = r
    BY <1>3 DEF TypeOK
  <2>3. /\ position[s].amount \in Int /\ position[s].shares \in Int
        /\ pool.total_shares \in Int
        /\ vault \in Int /\ rewardsPaid \in Int /\ rewardsIn \in Int
    BY <1>1 DEF TypeOK, Position, PoolState
  <2> HIDE DEF r
  <2>4. pool'.total_shares =
          pool.total_shares + position'[s].shares - position[s].shares
    BY <1>3, <2>1, <2>2, <2>3
  <2>5. vault' = vault + (position'[s].amount - position[s].amount)
                     + (rewardsIn' - rewardsIn) - (rewardsPaid' - rewardsPaid)
    BY <1>2, <1>3, <2>1, <2>2, <2>3
  <2>6. QED
    BY <2>2, <2>4, <2>5 DEF BooksBalance
<1>7. QED
  BY <1>3, <1>4, <1>5, <1>6 DEF TypeOK

LEMMA DepositFeesType ==
  ASSUME TypeOK, NEW amount \in Amounts, DepositFees(amount)
  PROVE  TypeOK'
<1>1. amount \in Nat /\ accrued + amount \in 0..MaxFees
  BY BoundsAssumption DEF TypeOK, DepositFees
<1>2. Distribute(pool, amount) \in PoolState
  BY <1>1, DistributeType DEF TypeOK
<1>3. roundings' \in Nat /\ vault' \in Nat /\ rewardsIn' \in Nat
  BY <1>1 DEF TypeOK, DepositFees
<1>4. QED
  BY <1>1, <1>2, <1>3 DEF TypeOK, DepositFees

LEMMA InitializeType ==
  ASSUME TypeOK, NEW tiers \in TierConfigs, NEW u \in UnbondingConfigs,
         Initialize(tiers, u)
  PROVE  TypeOK'
<1>1. tiers \in Seq([duration : Nat, boost_bps : Nat]) /\ u.cooldown_period \in Nat
      /\ u.penalty_bps \in 0..BPS_DENOMINATOR
  BY ConfigAssumption DEF Initialize
<1>2. EmptyPool \in PoolState
  BY DEF EmptyPool, PoolState
<1>3. config' \in [tiers : Seq([duration : Nat, boost_bps : Nat]),
                  cooldown_period : Nat, penalty_bps : 0..BPS_DENOMINATOR]
  BY <1>1 DEF Initialize
<1>4. QED
  BY <1>2, <1>3 DEF TypeOK, Initialize, history

\* Every step of the vault keeps every variable in its type.
LEMMA StepType ==
  ASSUME TypeOK, [Next]_vars
  PROVE  TypeOK'
<1>1. ASSUME NEW tiers \in TierConfigs, NEW u \in UnbondingConfigs,
             Initialize(tiers, u)
      PROVE  TypeOK'
  BY <1>1, InitializeType
<1>2. ASSUME NEW s \in Stakers, NEW a \in Amounts, NEW t \in Tiers, Stake(s, a, t)
      PROVE  TypeOK'
  BY <1>2, StakeType
<1>3. ASSUME NEW s \in Stakers, NEW a \in Amounts, RequestUnlock(s, a)
      PROVE  TypeOK'
  BY <1>3, RequestUnlockType
<1>4. ASSUME NEW s \in Stakers, Withdraw(s)
      PROVE  TypeOK'
  BY <1>4, WithdrawType
<1>5. ASSUME NEW s \in Stakers, NEW a \in Amounts, Unstake(s, a)
      PROVE  TypeOK'
  BY <1>5, UnstakeType
<1>6. ASSUME NEW s \in Stakers, ClaimRewards(s)
      PROVE  TypeOK'
  BY <1>6, ClaimRewardsType
<1>7. ASSUME NEW a \in Amounts, DepositFees(a)
      PROVE  TypeOK'
  BY <1>7, DepositFeesType
<1>8. ASSUME NEW flag \in BOOLEAN, SetPaused(flag)
      PROVE  TypeOK'
  BY <1>8 DEF SetPaused, TypeOK, history
<1>9. CASE Tick
  BY <1>9, BoundsAssumption DEF Tick, TypeOK, history
<1>10. CASE UNCHANGED vars
  BY <1>10 DEF vars, TypeOK
<1>11. QED
  BY <1>1, <1>2, <1>3, <1>4, <1>5, <1>6, <1>7, <1>8, <1>9, <1>10 DEF Next

\* The vault's balance, the pool, every position and the configuration keep
\* their types whatever the stakers, the fee source and the admin call.
THEOREM TypeCorrect == Spec => []TypeOK
<1>1. Init => TypeOK
  BY InitType
<1>2. TypeOK /\ [Next]_vars => TypeOK'
  BY StepType
<1>3. QED
  BY <1>1, <1>2, PTL DEF Spec

-----------------------------------------------------------------------------
(* The share count and the token balance. *)

\* The totals are integers, and follow a change of one position.
LEMMA TotalsInt ==
  ASSUME position \in [Stakers -> Position]
  PROVE  TotalShares \in Int /\ TotalStaked \in Int
<1> DEFINE f == [s \in Stakers |-> position[s].shares]
           g == [s \in Stakers |-> position[s].amount]
<1>1. f \in [Stakers -> Int] /\ g \in [Stakers -> Int]
  BY DEF Position
<1> HIDE DEF f, g
<1>2. SumFunction(f) \in Int /\ SumFunction(g) \in Int
  BY <1>1, SumInt
<1>3. QED
  BY <1>2 DEF TotalShares, TotalStaked, f, g

LEMMA TotalsUpdate ==
  ASSUME position \in [Stakers -> Position], position' \in [Stakers -> Position],
         NEW s \in Stakers, position' = [position EXCEPT ![s] = position'[s]]
  PROVE  /\ TotalShares' = TotalShares - position[s].shares + position'[s].shares
         /\ TotalStaked' = TotalStaked - position[s].amount + position'[s].amount
<1> DEFINE f1 == [t \in Stakers |-> position[t].shares]
           f2 == [t \in Stakers |-> position'[t].shares]
           g1 == [t \in Stakers |-> position[t].amount]
           g2 == [t \in Stakers |-> position'[t].amount]
<1>1. f1 \in [Stakers -> Int] /\ f2 \in [Stakers -> Int]
      /\ g1 \in [Stakers -> Int] /\ g2 \in [Stakers -> Int]
  BY DEF Position
<1>2. \A t \in Stakers : t # s => f2[t] = f1[t] /\ g2[t] = g1[t]
  OBVIOUS
<1>3. /\ f1[s] = position[s].shares /\ f2[s] = position'[s].shares
      /\ g1[s] = position[s].amount /\ g2[s] = position'[s].amount
  OBVIOUS
<1>4. /\ TotalShares = SumFunction(f1) /\ TotalShares' = SumFunction(f2)
      /\ TotalStaked = SumFunction(g1) /\ TotalStaked' = SumFunction(g2)
  BY DEF TotalShares, TotalStaked
<1> HIDE DEF f1, f2, g1, g2
<1>5. SumFunction(f2) = SumFunction(f1) - f1[s] + f2[s]
  BY <1>1, <1>2, SumUpdate
<1>6. SumFunction(g2) = SumFunction(g1) - g1[s] + g2[s]
  BY <1>1, <1>2, SumUpdate
<1>7. QED
  BY <1>3, <1>4, <1>5, <1>6

\* `initialize` stores an empty pool: it may only ever replace an empty one.
EmptyBeforeInitialize == ~Initialized => pool.total_shares = 0

\* The inductive invariant.
Books == TypeOK /\ SharesConserved /\ VaultMatchesBooks /\ EmptyBeforeInitialize

LEMMA BooksStep ==
  ASSUME Books, TypeOK', EmptyBeforeInitialize', NEW s \in Stakers,
         BooksBalance(s)
  PROVE  Books'
<1>1. /\ TotalShares' = TotalShares - position[s].shares + position'[s].shares
      /\ TotalStaked' = TotalStaked - position[s].amount + position'[s].amount
  BY TotalsUpdate DEF Books, TypeOK, BooksBalance
<1>2. TotalShares \in Int /\ TotalStaked \in Int
  BY TotalsInt DEF Books, TypeOK
<1>3. /\ position[s].amount \in Int /\ position'[s].amount \in Int
      /\ position[s].shares \in Int /\ position'[s].shares \in Int
  BY DEF Books, TypeOK, Position
<1>4. /\ vault \in Int /\ rewardsIn \in Int /\ rewardsPaid \in Int
      /\ rewardsIn' \in Int /\ rewardsPaid' \in Int
  BY DEF Books, TypeOK
<1>5. SharesConserved'
  BY <1>1, <1>2, <1>3 DEF Books, SharesConserved, BooksBalance
<1>6. VaultMatchesBooks'
  BY <1>1, <1>2, <1>3, <1>4 DEF Books, VaultMatchesBooks, BooksBalance
<1>7. QED
  BY <1>5, <1>6 DEF Books

\* A step that leaves every position alone and adds to the vault exactly the
\* rewards it records keeps the books.
LEMMA BooksFrame ==
  ASSUME Books, TypeOK', EmptyBeforeInitialize', position' = position,
         pool'.total_shares = pool.total_shares, rewardsPaid' = rewardsPaid,
         vault' = vault + (rewardsIn' - rewardsIn)
  PROVE  Books'
<1>1. TotalShares' = TotalShares /\ TotalStaked' = TotalStaked
  BY DEF TotalShares, TotalStaked
<1>2. TotalShares \in Int /\ TotalStaked \in Int
  BY TotalsInt DEF Books, TypeOK
<1>3. /\ vault \in Int /\ vault' \in Int /\ rewardsPaid \in Int
      /\ rewardsIn \in Int /\ rewardsIn' \in Int
  BY DEF Books, TypeOK
<1>4. SharesConserved'
  BY <1>1 DEF Books, SharesConserved
<1>5. VaultMatchesBooks'
  <2>1. vault = TotalStaked + rewardsIn - rewardsPaid
    BY DEF Books, VaultMatchesBooks
  <2>2. vault' = TotalStaked + rewardsIn' - rewardsPaid
    BY <1>2, <1>3, <2>1
  <2>3. QED
    BY <1>1, <2>2 DEF VaultMatchesBooks
<1>6. QED
  BY <1>4, <1>5 DEF Books

LEMMA BooksInit == Init => Books
<1> SUFFICES ASSUME Init PROVE Books
  OBVIOUS
<1>1. TypeOK
  BY InitType
<1> DEFINE f == [s \in Stakers |-> position[s].shares]
           g == [s \in Stakers |-> position[s].amount]
<1>2. f \in [Stakers -> Int] /\ \A x \in Stakers : f[x] = 0
  BY DEF Init, EmptyPosition
<1>3. g \in [Stakers -> Int] /\ \A x \in Stakers : g[x] = 0
  BY DEF Init, EmptyPosition
<1>4. TotalShares = SumFunction(f) /\ TotalStaked = SumFunction(g)
  BY DEF TotalShares, TotalStaked
<1> HIDE DEF f, g
<1>5. SumFunction(f) = 0 /\ SumFunction(g) = 0
  BY <1>2, <1>3, SumZero
<1>6. pool.total_shares = 0 /\ vault = 0 /\ rewardsIn = 0 /\ rewardsPaid = 0
  BY DEF Init, EmptyPool
<1>7. QED
  BY <1>1, <1>4, <1>5, <1>6
     DEF Books, SharesConserved, VaultMatchesBooks, EmptyBeforeInitialize

LEMMA BooksPreserved ==
  ASSUME Books, [Next]_vars
  PROVE  Books'
<1>0. TypeOK /\ TypeOK' /\ EmptyBeforeInitialize
  BY StepType DEF Books
<1>1. ASSUME NEW tiers \in TierConfigs, NEW u \in UnbondingConfigs,
             Initialize(tiers, u)
      PROVE  Books'
  <2>1. pool'.total_shares = pool.total_shares /\ EmptyBeforeInitialize'
    BY <1>0, <1>1 DEF Initialize, EmptyBeforeInitialize, EmptyPool
  <2>2. UNCHANGED <<position, vault, rewardsIn, rewardsPaid>>
    BY <1>1 DEF Initialize, history
  <2>3. vault' = vault + (rewardsIn' - rewardsIn)
    BY <1>0, <2>2 DEF TypeOK
  <2>4. QED
    BY <1>0, <2>1, <2>2, <2>3, BooksFrame
<1>2. ASSUME NEW s \in Stakers, NEW a \in Amounts, NEW t \in Tiers, Stake(s, a, t)
      PROVE  Books'
  <2>1. EmptyBeforeInitialize'
    BY <1>2 DEF Stake, EmptyBeforeInitialize, Initialized
  <2>2. QED
    BY <1>0, <1>2, <2>1, StakeType, BooksStep
<1>3. ASSUME NEW s \in Stakers, NEW a \in Amounts, RequestUnlock(s, a)
      PROVE  Books'
  <2>1. EmptyBeforeInitialize'
    BY <1>3 DEF RequestUnlock, EmptyBeforeInitialize, Initialized
  <2>2. QED
    BY <1>0, <1>3, <2>1, RequestUnlockType, BooksStep
<1>4. ASSUME NEW s \in Stakers, Withdraw(s)
      PROVE  Books'
  <2>1. EmptyBeforeInitialize'
    BY <1>4 DEF Withdraw, EmptyBeforeInitialize, Initialized
  <2>2. QED
    BY <1>0, <1>4, <2>1, WithdrawType, BooksStep
<1>5. ASSUME NEW s \in Stakers, NEW a \in Amounts, Unstake(s, a)
      PROVE  Books'
  <2>1. EmptyBeforeInitialize'
    BY <1>5 DEF Unstake, EmptyBeforeInitialize, Initialized
  <2>2. QED
    BY <1>0, <1>5, <2>1, UnstakeType, BooksStep
<1>6. ASSUME NEW s \in Stakers, ClaimRewards(s)
      PROVE  Books'
  <2>1. EmptyBeforeInitialize'
    BY <1>6 DEF ClaimRewards, EmptyBeforeInitialize, Initialized
  <2>2. QED
    BY <1>0, <1>6, <2>1, ClaimRewardsType, BooksStep
<1>7. ASSUME NEW a \in Amounts, DepositFees(a)
      PROVE  Books'
  <2>1. EmptyBeforeInitialize'
    BY <1>7 DEF DepositFees, EmptyBeforeInitialize, Initialized
  <2>2. a \in Int
    BY BoundsAssumption
  <2>3. pool' = Distribute(pool, a)
    BY <1>7 DEF DepositFees
  <2>4. pool'.total_shares = pool.total_shares
    BY <1>0, <2>2, <2>3, DistributeType DEF TypeOK
  <2>5. position' = position /\ rewardsPaid' = rewardsPaid
    BY <1>7 DEF DepositFees
  <2>6. vault' = vault + (rewardsIn' - rewardsIn)
    BY <1>0, <1>7, <2>2 DEF DepositFees, TypeOK
  <2>7. QED
    BY <1>0, <2>1, <2>4, <2>5, <2>6, BooksFrame
<1>8. ASSUME UNCHANGED <<config, pool, position, vault, rewardsIn, rewardsPaid>>
      PROVE  Books'
  <2>1. EmptyBeforeInitialize'
    BY <1>0, <1>8 DEF EmptyBeforeInitialize, Initialized
  <2>2. vault' = vault + (rewardsIn' - rewardsIn)
    BY <1>0, <1>8 DEF TypeOK
  <2>3. QED
    BY <1>0, <1>8, <2>1, <2>2, BooksFrame
<1>9. ASSUME NEW flag \in BOOLEAN, SetPaused(flag)
      PROVE  Books'
  BY <1>8, <1>9 DEF SetPaused, history
<1>10. CASE Tick
  BY <1>8, <1>10 DEF Tick, history
<1>11. CASE UNCHANGED vars
  BY <1>8, <1>11 DEF vars
<1>12. QED
  BY <1>1, <1>2, <1>3, <1>4, <1>5, <1>6, <1>7, <1>9, <1>10, <1>11 DEF Next

LEMMA BooksHold == Spec => []Books
<1>1. Init => Books
  BY BooksInit
<1>2. Books /\ [Next]_vars => Books'
  BY BooksPreserved
<1>3. QED
  BY <1>1, <1>2, PTL DEF Spec

\* For any number of stakers and any sequence of calls, the share count that
\* distribute divides by is the sum of the positions' shares.
THEOREM SharesAreConserved == Spec => []SharesConserved
<1>1. Books => SharesConserved
  BY DEF Books
<1>2. QED
  BY BooksHold, <1>1, PTL

\* The token balance is the staked principal plus the rewards received and not
\* yet paid, for any number of stakers and any sequence of calls.
THEOREM BooksCorrect == Spec => []VaultMatchesBooks
<1>1. Books => VaultMatchesBooks
  BY DEF Books
<1>2. QED
  BY BooksHold, <1>1, PTL

-----------------------------------------------------------------------------
(* The rewards. *)

Debt(f) == SumFunction([s \in Stakers |-> f[s].reward_debt])

\* The rewards owed and paid, for a pool p, positions f, rewards received and
\* paid and n roundings.  Scaled by the precision, what was paid, is parked and
\* has been earned since the debts were taken exceeds what was received by at
\* most one unit for each rounding; no debt is above what the shares earned.
RewardBooks(p, f, received, paid, n) ==
  /\ p.acc_reward_per_share >= 0 /\ p.pending_rewards >= 0
  /\ \A s \in Stakers :
       /\ f[s].amount >= 0 /\ f[s].shares >= 0 /\ f[s].reward_debt >= 0
       /\ ACC_PRECISION * f[s].reward_debt <= f[s].shares * p.acc_reward_per_share
  /\ ACC_PRECISION * (paid - received + p.pending_rewards - Debt(f))
       + p.acc_reward_per_share * p.total_shares <= ACC_PRECISION * n

Fresh == ~Initialized => pool = EmptyPool

Rewards == ~overdrawn => RewardBooks(pool, position, rewardsIn, rewardsPaid, roundings)

RInv == Books /\ Fresh /\ Rewards


LEMMA TruncDivNat ==
  ASSUME NEW a \in Nat, NEW b \in Nat \ {0}
  PROVE  /\ TruncDiv(a, b) \in Nat
         /\ b * TruncDiv(a, b) <= a /\ a < b * TruncDiv(a, b) + b
<1>1. TruncDiv(a, b) = a \div b
  BY DEF TruncDiv
<1>2. QED
  BY <1>1, DivNat

LEMMA Cancel ==
  ASSUME NEW p \in Nat \ {0}, NEW x \in Int, NEW y \in Int
  PROVE  /\ p * x <= p * y => x <= y
         /\ p * x < p * y + p => x <= y
         /\ x <= y => p * x <= p * y
OBVIOUS

\* The shares that go are not more than there are.
LEMMA BurnBounds ==
  ASSUME NEW pos \in Position, NEW amount \in Nat, amount # 0, amount <= pos.amount,
         pos.shares >= 0
  PROVE  SharesToBurn(pos, amount) \in 0..pos.shares
<1> DEFINE sh == pos.shares
           pa == pos.amount
           q  == TruncDiv(sh * amount, pa)
<1>1. sh \in Nat /\ pa \in Nat \ {0}
  BY DEF Position
<1> HIDE DEF sh, pa
<1>2. sh * amount \in Nat
  BY <1>1
<1>3. q \in Nat /\ pa * q <= sh * amount
  BY <1>1, <1>2, TruncDivNat
<1>4. sh * amount <= pa * sh
  <2>1. amount * sh <= pa * sh
    <3>1. amount <= pa
      BY DEF pa
    <3>2. QED
      BY <1>1, <3>1
  <2>2. QED
    BY <1>1, <2>1
<1> HIDE DEF q
<1>5. q <= sh
  <2>1. sh * amount \in Int /\ pa * sh \in Int /\ pa * q \in Int
    BY <1>1, <1>3
  <2>2. pa * q <= pa * sh
    BY <1>3, <1>4, <2>1
  <2>3. QED
    BY <1>1, <1>3, <2>2, Cancel
<1>6. SharesToBurn(pos, amount) = IF amount = pa THEN sh ELSE q
  BY DEF SharesToBurn, sh, pa, q
<1>7. QED
  BY <1>1, <1>3, <1>5, <1>6 DEF sh

\* A position whose debt is covered is owed its checkpoint less its debt.
LEMMA PendingCovered ==
  ASSUME NEW p \in PoolState, NEW pos \in Position,
         p.acc_reward_per_share >= 0, pos.shares >= 0, pos.reward_debt >= 0,
         ACC_PRECISION * pos.reward_debt <= pos.shares * p.acc_reward_per_share
  PROVE  /\ Checkpoint(p, pos) \in Nat
         /\ Pending(p, pos) = Checkpoint(p, pos) - pos.reward_debt
         /\ ACC_PRECISION * Checkpoint(p, pos) <= pos.shares * p.acc_reward_per_share
         /\ pos.shares * p.acc_reward_per_share < ACC_PRECISION * Checkpoint(p, pos) + ACC_PRECISION
<1> DEFINE a == p.acc_reward_per_share
           sh == pos.shares
           d == pos.reward_debt
           c == TruncDiv(sh * a, ACC_PRECISION)
<1>1. a \in Nat /\ sh \in Nat /\ d \in Nat
  BY DEF PoolState, Position
<1> HIDE DEF a, sh, d
<1>2. sh * a \in Nat
  BY <1>1
<1>3. c \in Nat /\ ACC_PRECISION * c <= sh * a /\ sh * a < ACC_PRECISION * c + ACC_PRECISION
  BY <1>2, TruncDivNat
<1>4. Checkpoint(p, pos) = c
  BY DEF Checkpoint, c, sh, a
<1>5. ACC_PRECISION * d <= sh * a
  BY DEF sh, a, d
<1> HIDE DEF c
<1>6. ACC_PRECISION * d < ACC_PRECISION * c + ACC_PRECISION
  <2>1. ACC_PRECISION * d \in Int /\ ACC_PRECISION * c \in Int
    BY <1>1, <1>3
  <2>2. QED
    BY <1>2, <1>3, <1>5, <2>1
<1>7. d <= c
  BY <1>1, <1>3, <1>6, Cancel
<1>8. Pending(p, pos) = c - d
  BY <1>1, <1>3, <1>4, <1>7 DEF Pending, d
<1>9. QED
  BY <1>3, <1>4, <1>8 DEF sh, a, d

LEMMA DebtInt ==
  ASSUME NEW f \in [Stakers -> Position]
  PROVE  Debt(f) \in Int
<1> DEFINE g == [s \in Stakers |-> f[s].reward_debt]
<1>1. g \in [Stakers -> Int]
  BY DEF Position
<1> HIDE DEF g
<1>2. SumFunction(g) \in Int
  BY <1>1, SumInt
<1>3. QED
  BY <1>2 DEF Debt, g

LEMMA DebtUpdate ==
  ASSUME NEW f \in [Stakers -> Position], NEW s \in Stakers, NEW pos \in Position
  PROVE  Debt([f EXCEPT ![s] = pos]) = Debt(f) - f[s].reward_debt + pos.reward_debt
<1> DEFINE f2 == [f EXCEPT ![s] = pos]
           g1 == [t \in Stakers |-> f[t].reward_debt]
           g2 == [t \in Stakers |-> f2[t].reward_debt]
<1>1. g1 \in [Stakers -> Int] /\ g2 \in [Stakers -> Int]
  BY DEF Position
<1>2. /\ \A t \in Stakers : t # s => g2[t] = g1[t]
      /\ g1[s] = f[s].reward_debt /\ g2[s] = pos.reward_debt
  OBVIOUS
<1>3. Debt(f) = SumFunction(g1) /\ Debt(f2) = SumFunction(g2)
  BY DEF Debt
<1> HIDE DEF f2, g1, g2
<1>4. SumFunction(g2) = SumFunction(g1) - g1[s] + g2[s]
  BY <1>1, <1>2, SumUpdate
<1>5. QED
  BY <1>2, <1>3, <1>4 DEF f2

\* A call that pays a position its pending rewards, changes its shares and
\* settles its debt rounds once, unless the shares stay.
LEMMA SettledStep ==
  ASSUME NEW p \in PoolState, NEW q \in PoolState, NEW f \in [Stakers -> Position],
         NEW s \in Stakers, NEW new \in Position,
         NEW received \in Int, NEW paid \in Int, NEW n \in Int, NEW m \in {0, 1},
         RewardBooks(p, f, received, paid, n),
         q.acc_reward_per_share = p.acc_reward_per_share,
         q.pending_rewards = p.pending_rewards,
         q.total_shares = p.total_shares + new.shares - f[s].shares,
         new.amount >= 0, new.shares >= 0, new.reward_debt = Checkpoint(p, new),
         m = 1 \/ new.shares = f[s].shares
  PROVE  RewardBooks(q, [f EXCEPT ![s] = new], received, paid + Pending(p, f[s]), n + m)
<1> DEFINE P == ACC_PRECISION
           A == p.acc_reward_per_share
           T == p.total_shares
           old == f[s]
           g == [f EXCEPT ![s] = new]
           c == Checkpoint(p, old)
           d == old.reward_debt
           e == new.reward_debt
           D == Debt(f)
           x == old.shares
           y == new.shares
           k == p.pending_rewards
<1>1. /\ A \in Nat /\ T \in Int /\ k \in Nat /\ old \in Position
      /\ x \in Nat /\ d \in Nat /\ y \in Nat /\ P \in Nat \ {0}
      /\ P * d <= x * A
  BY DEF RewardBooks, PoolState, Position
<1>2. c \in Nat /\ Pending(p, old) = c - d /\ P * c <= x * A /\ x * A < P * c + P
  BY <1>1, PendingCovered
<1>3. /\ y * A \in Nat /\ e = TruncDiv(y * A, P)
      /\ x * A \in Nat /\ c = TruncDiv(x * A, P)
  BY <1>1 DEF Checkpoint
<1>4. e \in Nat /\ P * e <= y * A /\ y * A < P * e + P
  BY <1>1, <1>3, TruncDivNat
<1>5. D \in Int /\ Debt(g) = D - d + e
  BY DebtInt, DebtUpdate
<1>6. P * (paid - received + k - D) + A * T <= P * n
  BY DEF RewardBooks
<1>7. /\ q.acc_reward_per_share = A /\ q.pending_rewards = k
      /\ q.total_shares = T + y - x
  OBVIOUS
<1>8. \A t \in Stakers :
        /\ g[t].amount >= 0 /\ g[t].shares >= 0 /\ g[t].reward_debt >= 0
        /\ P * g[t].reward_debt <= g[t].shares * A
  <2> SUFFICES ASSUME NEW t \in Stakers
               PROVE /\ g[t].amount >= 0 /\ g[t].shares >= 0 /\ g[t].reward_debt >= 0
                     /\ P * g[t].reward_debt <= g[t].shares * A
    OBVIOUS
  <2>1. CASE t = s
    <3>1. g[t] = new
      BY <2>1
    <3>2. QED
      BY <1>1, <1>4, <3>1
  <2>2. CASE t # s
    <3>1. g[t] = f[t]
      BY <2>2
    <3>2. QED
      BY <3>1 DEF RewardBooks
  <2>3. QED
    BY <2>1, <2>2
<1>9. (y * A - P * e) - (x * A - P * c) <= P * m
  <2>1. CASE m = 1
    <3>1. P * m = P
      BY <1>1, <2>1
    <3> HIDE DEF P, A, c, e, x, y
    <3>2. P * e \in Int /\ P * c \in Int
      BY <1>1, <1>2, <1>4
    <3>3. QED
      BY <1>1, <1>2, <1>3, <1>4, <3>1, <3>2
  <2>2. CASE y = x
    <3>1. y * A = x * A /\ e = c /\ P * m \in Nat
      BY <1>1, <1>3, <2>2
    <3>2. P * e = P * c
      BY <3>1
    <3> HIDE DEF P, A, c, e, x, y
    <3>3. P * e \in Int
      BY <1>1, <1>4
    <3>4. QED
      BY <1>3, <3>1, <3>2, <3>3
  <2>3. QED
    BY <2>1, <2>2
<1> HIDE DEF P, A, T, old, g, c, d, e, D, x, y, k
<1> DEFINE u == paid - received + k - D
           v == (paid + (c - d)) - received + k - (D - d + e)
<1>10. v = u + c - e /\ u \in Int /\ v \in Int
  BY <1>1, <1>2, <1>4, <1>5
<1> HIDE DEF u, v
<1>11. P * v = P * u + P * c - P * e
  BY <1>1, <1>2, <1>4, <1>10
<1>12. A * (T + y - x) = A * T + y * A - x * A
  BY <1>1
<1>13. P * (n + m) = P * n + P * m
  BY <1>1
<1>14. P * v + A * (T + y - x) <= P * (n + m)
  <2>1. /\ P * u \in Int /\ P * c \in Int /\ P * e \in Int /\ A * T \in Int
        /\ P * n \in Int /\ P * m \in Int /\ P * v \in Int /\ y * A \in Int /\ x * A \in Int
    BY <1>1, <1>2, <1>4, <1>10
  <2>2. P * u + A * T <= P * n
    BY <1>6 DEF u
  <2>3. QED
    BY <1>9, <1>11, <1>12, <1>13, <2>1, <2>2
<1>15. P * ((paid + Pending(p, old)) - received + k - Debt(g)) + A * (T + y - x) <= P * (n + m)
  BY <1>2, <1>5, <1>14 DEF v
<1>16. QED
  BY <1>1, <1>7, <1>8, <1>15 DEF RewardBooks, g, P, old

\* A distribution rounds once, unless it only parks the amount, and never
\* lowers the accumulator.
LEMMA DistributeStep ==
  ASSUME NEW p \in PoolState, NEW f \in [Stakers -> Position], NEW amount \in Nat,
         NEW received \in Int, NEW paid \in Int, NEW n \in Int,
         RewardBooks(p, f, received, paid, n), p.total_shares >= 0
  PROVE  /\ Distribute(p, amount).acc_reward_per_share >= p.acc_reward_per_share
         /\ RewardBooks(Distribute(p, amount), f, received + amount, paid,
                        n + (IF p.total_shares = 0 THEN 0 ELSE 1))
<1> DEFINE P == ACC_PRECISION
           A == p.acc_reward_per_share
           T == p.total_shares
           D == Debt(f)
           k == p.pending_rewards
           r == Distribute(p, amount)
           total == amount + k
           i == TruncDiv(total * P, T)
           a == TruncDiv(i * T, P)
<1>1. A \in Nat /\ T \in Nat /\ k \in Nat /\ P \in Nat \ {0} /\ D \in Int /\ total \in Nat
  BY DebtInt DEF RewardBooks, PoolState
<1>2. P * (paid - received + k - D) + A * T <= P * n
  BY DEF RewardBooks
<1>3. CASE T = 0
  <2>1. r.acc_reward_per_share = A /\ r.total_shares = T /\ r.pending_rewards = k + amount
    BY <1>3 DEF Distribute, PoolState
  <2> HIDE DEF P, A, T, D, k, r
  <2>2. paid - (received + amount) + (k + amount) - D = paid - received + k - D
    BY <1>1
  <2>3. P * (paid - (received + amount) + (k + amount) - D) + A * T <= P * (n + 0)
    BY <1>2, <2>2
  <2>4. QED
    BY <1>1, <1>3, <2>1, <2>3 DEF RewardBooks, P, A, T, D, k, r
<1>4. CASE T # 0
  <2>1. total * P \in Nat
    BY <1>1
  <2>2. i \in Nat /\ T * i <= total * P
    BY <1>1, <1>4, <2>1, TruncDivNat
  <2>3. r = [p EXCEPT !.pending_rewards = total - a, !.acc_reward_per_share = @ + i]
    BY <1>4 DEF Distribute
  <2> HIDE DEF i
  <2>4. i * T \in Nat /\ i * T = T * i
    BY <1>1, <2>2
  <2>5. a \in Nat /\ P * a <= i * T /\ i * T < P * a + P
    BY <1>1, <2>4, TruncDivNat
  <2> HIDE DEF a
  <2>6. /\ r.acc_reward_per_share = A + i /\ r.total_shares = T
        /\ r.pending_rewards = total - a
    BY <2>3 DEF PoolState
  <2> HIDE DEF P, A, T, D, k, r, total
  <2>7. a <= total
    <3>1. P * a <= P * total
      BY <1>1, <2>1, <2>2, <2>4, <2>5
    <3>2. QED
      BY <1>1, <2>5, <3>1, Cancel
  <2>8. \A s \in Stakers :
          /\ f[s].amount >= 0 /\ f[s].shares >= 0 /\ f[s].reward_debt >= 0
          /\ P * f[s].reward_debt <= f[s].shares * (A + i)
    <3> SUFFICES ASSUME NEW s \in Stakers
                 PROVE /\ f[s].amount >= 0 /\ f[s].shares >= 0 /\ f[s].reward_debt >= 0
                       /\ P * f[s].reward_debt <= f[s].shares * (A + i)
      OBVIOUS
    <3> DEFINE x == f[s].shares
               d == f[s].reward_debt
    <3>1. x \in Nat /\ d \in Nat /\ f[s].amount >= 0 /\ P * d <= x * A
      BY DEF RewardBooks, Position, P, A
    <3> HIDE DEF x, d
    <3>2. x * (A + i) = x * A + x * i /\ x * A \in Int /\ x * i \in Nat /\ P * d \in Int
      BY <1>1, <2>2, <3>1
    <3>3. P * d <= x * (A + i)
      BY <3>1, <3>2
    <3>4. QED
      BY <3>1, <3>3 DEF x, d
  <2> DEFINE u == paid - received + k - D
             v == paid - (received + amount) + (total - a) - D
  <2>9. v = u - a /\ u \in Int
    BY <1>1, <2>5 DEF total
  <2>10. P * u + A * T <= P * n
    BY <1>2
  <2> HIDE DEF u, v
  <2>11. P * v = P * u - P * a /\ (A + i) * T = A * T + i * T /\ P * (n + 1) = P * n + P
    BY <1>1, <2>2, <2>5, <2>9
  <2>12. P * v + (A + i) * T <= P * (n + 1)
    <3>1. P * u \in Int /\ P * a \in Int /\ A * T \in Int /\ P * n \in Int /\ i * T \in Int
      BY <1>1, <2>4, <2>5, <2>9
    <3>2. QED
      BY <1>1, <2>5, <2>10, <2>11, <3>1
  <2>13. r.acc_reward_per_share >= A /\ r.acc_reward_per_share >= 0 /\ r.pending_rewards >= 0
    BY <1>1, <2>2, <2>5, <2>6, <2>7
  <2>14. RewardBooks(r, f, received + amount, paid, n + 1)
    BY <2>6, <2>8, <2>12, <2>13 DEF RewardBooks, v, P, D
  <2>15. QED
    BY <1>4, <2>13, <2>14 DEF r, T, A
<1>5. QED
  BY <1>3, <1>4

LEMMA MoreRoundings ==
  ASSUME NEW p \in PoolState, NEW f \in [Stakers -> Position],
         NEW received \in Int, NEW paid \in Int, NEW n \in Int, NEW m \in Int, n <= m,
         RewardBooks(p, f, received, paid, n)
  PROVE  RewardBooks(p, f, received, paid, m)
<1> DEFINE u == paid - received + p.pending_rewards - Debt(f)
           w == p.acc_reward_per_share * p.total_shares
<1>1. p.pending_rewards \in Int /\ Debt(f) \in Int
      /\ p.acc_reward_per_share \in Int /\ p.total_shares \in Int
  BY DebtInt DEF PoolState
<1>2. u \in Int /\ w \in Int
  BY <1>1
<1>3. ACC_PRECISION * u + w <= ACC_PRECISION * n
  BY DEF RewardBooks
<1> HIDE DEF u, w
<1>4. ACC_PRECISION * n <= ACC_PRECISION * m
  BY Cancel
<1>5. ACC_PRECISION * u + w <= ACC_PRECISION * m
  <2>1. ACC_PRECISION * u \in Int /\ ACC_PRECISION * n \in Int /\ ACC_PRECISION * m \in Int
    BY <1>2
  <2>2. QED
    BY <1>2, <1>3, <1>4, <2>1
<1>6. QED
  BY <1>5 DEF RewardBooks, u, w

LEMMA RInvTypes ==
  ASSUME RInv, NEW s \in Stakers
  PROVE  /\ TypeOK /\ pool \in PoolState /\ position \in [Stakers -> Position]
         /\ position[s] \in Position
         /\ rewardsIn \in Int /\ rewardsPaid \in Int /\ roundings \in Int
         /\ ~overdrawn => /\ RewardBooks(pool, position, rewardsIn, rewardsPaid, roundings)
                          /\ position[s].amount >= 0 /\ position[s].shares >= 0
BY DEF RInv, Books, TypeOK, Rewards, RewardBooks

\* What is left to show of a call that settles s's position.
LEMMA SettledCall ==
  ASSUME RInv, TypeOK', NEW s \in Stakers, BooksBalance(s), ~overdrawn, NEW m \in {0, 1},
         pool'.acc_reward_per_share = pool.acc_reward_per_share,
         pool'.pending_rewards = pool.pending_rewards,
         position'[s].amount >= 0, position'[s].shares >= 0,
         position'[s].reward_debt = Checkpoint(pool, position'[s]),
         m = 1 \/ position'[s].shares = position[s].shares,
         rewardsIn' = rewardsIn, roundings' = roundings + m,
         rewardsPaid' = rewardsPaid + Pending(pool, position[s])
  PROVE  Rewards'
<1>1. /\ pool \in PoolState /\ pool' \in PoolState /\ position \in [Stakers -> Position]
      /\ position'[s] \in Position
      /\ rewardsIn \in Int /\ rewardsPaid \in Int /\ roundings \in Int
      /\ RewardBooks(pool, position, rewardsIn, rewardsPaid, roundings)
  BY RInvTypes DEF TypeOK
<1>2. /\ position' = [position EXCEPT ![s] = position'[s]]
      /\ pool'.total_shares = pool.total_shares + position'[s].shares - position[s].shares
  BY DEF BooksBalance
<1> DEFINE new == position'[s]
           q == pool'
<1>3. RewardBooks(q, [position EXCEPT ![s] = new], rewardsIn,
                  rewardsPaid + Pending(pool, position[s]), roundings + m)
  <2>1. new \in Position /\ q \in PoolState
    BY <1>1
  <2>2. /\ q.acc_reward_per_share = pool.acc_reward_per_share
        /\ q.pending_rewards = pool.pending_rewards
        /\ q.total_shares = pool.total_shares + new.shares - position[s].shares
        /\ new.amount >= 0 /\ new.shares >= 0 /\ new.reward_debt = Checkpoint(pool, new)
        /\ m = 1 \/ new.shares = position[s].shares
    BY <1>2
  <2> HIDE DEF new, q
  <2>3. QED
    BY <1>1, <2>1, <2>2, SettledStep
<1>4. RewardBooks(pool', position', rewardsIn', rewardsPaid', roundings')
  BY <1>2, <1>3
<1>5. QED
  BY <1>4 DEF Rewards

LEMMA StakeRewards ==
  ASSUME RInv, NEW s \in Stakers, NEW amount \in Amounts, NEW tier \in Tiers,
         Stake(s, amount, tier)
  PROVE  Rewards'
<1> DEFINE pos   == position[s]
           new   == BoostedShares(amount, tier.boost_bps)
           owed  == IF pos.shares > 0 THEN Pending(pool, pos) ELSE 0
           grown == Enlarge(pos, amount, new, now + tier.duration)
<1> SUFFICES ASSUME ~overdrawn' PROVE Rewards'
  BY DEF Rewards
<1>1. /\ pos \in Position /\ pool \in PoolState /\ ~overdrawn
      /\ RewardBooks(pool, position, rewardsIn, rewardsPaid, roundings) /\ TypeOK
      /\ pos.amount >= 0 /\ pos.shares >= 0
  BY RInvTypes DEF Stake
<1>2. TypeOK' /\ BooksBalance(s)
  BY <1>1, StakeType
<1>3. amount \in Nat /\ tier.duration \in Nat /\ new \in Nat
  <2>1. amount \in Nat
    BY BoundsAssumption DEF Stake
  <2>2. config.tiers \in Seq([duration : Nat, boost_bps : Nat])
    BY <1>1 DEF TypeOK
  <2>3. PICK i \in 1..Len(config.tiers) : tier = config.tiers[i]
    BY DEF Tiers
  <2> DEFINE Tier == [duration : Nat, boost_bps : Nat]
  <2>4. tier \in Tier
    <3> HIDE DEF Tier
    <3>1. config.tiers \in Seq(Tier)
      BY <2>2 DEF Tier
    <3>2. QED
      BY <2>3, <3>1
  <2>5. tier.duration \in Nat /\ tier.boost_bps \in Nat
    BY <2>4
  <2>6. QED
    BY <2>1, <2>5, BoostedSharesNat
<1>4. /\ grown \in Position
      /\ grown.amount = pos.amount + amount /\ grown.shares = pos.shares + new
  <2> DEFINE until == now + tier.duration
  <2>1. until \in Nat /\ amount \in Int /\ new \in Int
    BY <1>1, <1>3, BoundsAssumption DEF TypeOK
  <2> HIDE DEF pos, new
  <2>2. QED
    BY <1>1, <2>1, GrownPosition
<1>5. /\ position' = [position EXCEPT ![s] = SettleDebt(pool, grown)]
      /\ pool' = [pool EXCEPT !.total_shares = @ + new]
      /\ rewardsPaid' = rewardsPaid + owed
      /\ roundings' = roundings + 1 /\ rewardsIn' = rewardsIn
  BY DEF Stake
<1>6. position'[s] = SettleDebt(pool, grown)
  BY <1>1, <1>5 DEF TypeOK
<1>7. owed = Pending(pool, pos)
  <2>1. CASE pos.shares = 0
    <3> DEFINE c == Checkpoint(pool, pos)
    <3>1. /\ c \in Nat /\ Pending(pool, pos) = c - pos.reward_debt
          /\ ACC_PRECISION * c <= pos.shares * pool.acc_reward_per_share
      BY <1>1, PendingCovered DEF RewardBooks
    <3>2. Pending(pool, pos) \in Nat /\ pos.reward_debt \in Nat
          /\ pool.acc_reward_per_share \in Int
      BY <1>1, PendingNat DEF Position, RewardBooks, PoolState
    <3>3. pos.shares * pool.acc_reward_per_share = 0
      BY <2>1, <3>2
    <3> HIDE DEF c, pos
    <3>4. c = 0
      BY <3>1, <3>3
    <3>5. Pending(pool, pos) = 0
      BY <3>1, <3>2, <3>4
    <3>6. QED
      BY <2>1, <3>5
  <2>2. CASE pos.shares # 0
    <3>1. pos.shares > 0
      BY <1>1, <2>2 DEF Position
    <3>2. QED
      BY <3>1
  <2>3. QED
    BY <2>1, <2>2
<1> HIDE DEF pos, new, owed, grown
<1>8. /\ position'[s].amount = pos.amount + amount
      /\ position'[s].shares = pos.shares + new
      /\ position'[s].reward_debt = Checkpoint(pool, grown)
  BY <1>1, <1>4, <1>6, SettleDebtType
<1>9. position'[s].reward_debt = Checkpoint(pool, position'[s])
  BY <1>4, <1>8 DEF Checkpoint
<1>10. /\ pool'.acc_reward_per_share = pool.acc_reward_per_share
       /\ pool'.pending_rewards = pool.pending_rewards
  BY <1>1, <1>5 DEF PoolState
<1>11. position'[s].amount >= 0 /\ position'[s].shares >= 0
  BY <1>1, <1>3, <1>8 DEF Position
<1>12. rewardsPaid' = rewardsPaid + Pending(pool, position[s])
  BY <1>5, <1>7 DEF pos
<1>13. QED
  BY <1>1, <1>2, <1>5, <1>9, <1>10, <1>11, <1>12, SettledCall

LEMMA UnstakeRewards ==
  ASSUME RInv, NEW s \in Stakers, NEW amount \in Amounts, Unstake(s, amount)
  PROVE  Rewards'
<1> DEFINE pos   == position[s]
           burn  == SharesToBurn(pos, amount)
           burnt == BurnShares(pool, burn)
           left  == Reduce(pos, amount)
<1> SUFFICES ASSUME ~overdrawn' PROVE Rewards'
  BY DEF Rewards
<1>1. /\ pos \in Position /\ pool \in PoolState /\ ~overdrawn
      /\ RewardBooks(pool, position, rewardsIn, rewardsPaid, roundings) /\ TypeOK
      /\ pos.amount >= 0 /\ pos.shares >= 0
  BY RInvTypes DEF Unstake
<1>2. TypeOK' /\ BooksBalance(s)
  BY <1>1, UnstakeType
<1>3. amount \in Nat /\ amount \in Int /\ amount # 0 /\ amount <= pos.amount /\ pos.amount # 0
  BY <1>1, BoundsAssumption DEF Unstake, WithinStake, Position
<1>4. /\ position' = [position EXCEPT ![s] = SettleDebt(burnt, left)]
      /\ pool' = burnt
      /\ rewardsPaid' = rewardsPaid + Pending(pool, pos)
      /\ roundings' = roundings + 1 /\ rewardsIn' = rewardsIn
  BY DEF Unstake
<1>5. position'[s] = SettleDebt(burnt, left)
  BY <1>1, <1>4 DEF TypeOK
<1> HIDE DEF pos
<1>6. burn \in 0..pos.shares
  BY <1>1, <1>3, BurnBounds
<1>7. left \in Position /\ left.amount = pos.amount - amount /\ left.shares = pos.shares - burn
  BY <1>1, <1>3, ReducedPosition
<1> HIDE DEF burn, left
<1>8. /\ burnt \in PoolState
      /\ burnt.acc_reward_per_share = pool.acc_reward_per_share
      /\ burnt.pending_rewards = pool.pending_rewards
  BY <1>1, <1>6 DEF BurnShares, PoolState, Position
<1> HIDE DEF burnt
<1>9. /\ position'[s].amount = pos.amount - amount
      /\ position'[s].shares = pos.shares - burn
      /\ position'[s].reward_debt = Checkpoint(burnt, left)
  BY <1>5, <1>7, <1>8, SettleDebtType
<1>10. position'[s].reward_debt = Checkpoint(pool, position'[s])
  BY <1>7, <1>8, <1>9 DEF Checkpoint
<1>11. position'[s].amount >= 0 /\ position'[s].shares >= 0
  BY <1>1, <1>3, <1>6, <1>9 DEF Position
<1>12. rewardsPaid' = rewardsPaid + Pending(pool, position[s])
  BY <1>4 DEF pos
<1>13. QED
  BY <1>1, <1>2, <1>4, <1>8, <1>10, <1>11, <1>12, SettledCall

LEMMA ClaimRewardsRewards ==
  ASSUME RInv, NEW s \in Stakers, ClaimRewards(s)
  PROVE  Rewards'
<1> DEFINE pos == position[s]
<1> SUFFICES ASSUME ~overdrawn' PROVE Rewards'
  BY DEF Rewards
<1>1. /\ pos \in Position /\ pool \in PoolState /\ ~overdrawn
      /\ RewardBooks(pool, position, rewardsIn, rewardsPaid, roundings) /\ TypeOK
      /\ pos.amount >= 0 /\ pos.shares >= 0
  BY RInvTypes DEF ClaimRewards
<1>2. TypeOK' /\ BooksBalance(s)
  BY <1>1, ClaimRewardsType
<1>3. /\ position'[s] = SettleDebt(pool, pos) /\ pool' = pool
      /\ rewardsPaid' = rewardsPaid + Pending(pool, pos)
      /\ roundings' = roundings /\ rewardsIn' = rewardsIn
  BY <1>1 DEF ClaimRewards, TypeOK
<1> HIDE DEF pos
<1>4. /\ position'[s].amount = pos.amount /\ position'[s].shares = pos.shares
      /\ position'[s].reward_debt = Checkpoint(pool, pos)
  BY <1>1, <1>3, SettleDebtType
<1>5. position'[s].reward_debt = Checkpoint(pool, position'[s])
  BY <1>4 DEF Checkpoint
<1>6. roundings' = roundings + 0 /\ position'[s].shares = position[s].shares
  BY <1>1, <1>3, <1>4 DEF TypeOK, pos
<1>7. rewardsPaid' = rewardsPaid + Pending(pool, position[s])
  BY <1>3 DEF pos
<1>8. QED
  BY <1>1, <1>2, <1>3, <1>4, <1>5, <1>6, <1>7, SettledCall

LEMMA SharesNat ==
  ASSUME NEW f \in [Stakers -> Position], \A s \in Stakers : f[s].shares >= 0
  PROVE  SumFunction([s \in Stakers |-> f[s].shares]) >= 0
<1> DEFINE g == [s \in Stakers |-> f[s].shares]
           z == [s \in Stakers |-> 0]
<1>1. /\ g \in [Stakers -> Int] /\ z \in [Stakers -> Int]
      /\ \A s \in Stakers : z[s] <= g[s] /\ z[s] = 0
  BY DEF Position
<1> HIDE DEF g, z
<1>2. SumFunction(z) <= SumFunction(g) /\ SumFunction(z) = 0
  BY <1>1, SumMonotone, SumZero
<1>3. QED
  BY <1>2 DEF g

LEMMA WithdrawRewards ==
  ASSUME RInv, Books', NEW s \in Stakers, Withdraw(s)
  PROVE  Rewards'
<1> DEFINE pos     == position[s]
           amount  == pos.pending_unlock_amount
           early   == now < pos.unlock_requested_at + config.cooldown_period
           penalty == IF early THEN CalculatePenalty(amount, config.penalty_bps)
                               ELSE 0
           burn    == SharesToBurn(pos, amount)
           burnt   == BurnShares(pool, burn)
           left    == [Reduce(pos, amount) EXCEPT !.pending_unlock_amount = 0,
                                                  !.unlock_requested_at = 0]
           new     == SettleDebt(burnt, left)
           paid    == rewardsPaid + Pending(pool, pos)
<1> SUFFICES ASSUME ~overdrawn' PROVE Rewards'
  BY DEF Rewards
<1>1. /\ pos \in Position /\ pool \in PoolState /\ position \in [Stakers -> Position]
      /\ ~overdrawn /\ TypeOK
      /\ RewardBooks(pool, position, rewardsIn, rewardsPaid, roundings)
      /\ pos.amount >= 0 /\ pos.shares >= 0
      /\ rewardsIn \in Int /\ rewardsPaid \in Int /\ roundings \in Int
  BY RInvTypes DEF Withdraw
<1>2. TypeOK' /\ SharesConserved'
  BY DEF Books
<1>3. /\ amount > 0 /\ ~(amount > pos.amount) /\ pos.amount # 0
      /\ position' = [position EXCEPT ![s] = new]
      /\ pool' = IF penalty > 0 THEN Distribute(burnt, penalty) ELSE burnt
      /\ rewardsIn' = rewardsIn + penalty
      /\ rewardsPaid' = paid
      /\ roundings' = roundings + (IF penalty > 0 THEN 2 ELSE 1)
  BY DEF Withdraw
<1>4. amount \in Nat /\ amount \in Int /\ amount # 0 /\ amount <= pos.amount
  BY <1>1, <1>3 DEF Position
<1>5. penalty \in Nat
  <2>1. config.penalty_bps \in 0..BPS_DENOMINATOR
    BY <1>1 DEF TypeOK
  <2>2. CalculatePenalty(amount, config.penalty_bps) \in 0..amount
    BY <1>4, <2>1, PenaltyBounds
  <2> HIDE DEF amount
  <2>3. QED
    BY <1>4, <2>2
<1> HIDE DEF amount, penalty
<1>6. burn \in 0..pos.shares
  <2> HIDE DEF pos
  <2>1. QED
    BY <1>1, <1>4, BurnBounds
<1>7. left \in Position /\ left.amount = pos.amount - amount /\ left.shares = pos.shares - burn
  <2> DEFINE r == Reduce(pos, amount)
  <2>1. r \in Position /\ r.amount = pos.amount - amount /\ r.shares = pos.shares - burn
    <3> HIDE DEF pos
    <3>1. QED
      BY <1>1, <1>3, <1>4, ReducedPosition
  <2>2. left = [r EXCEPT !.pending_unlock_amount = 0, !.unlock_requested_at = 0]
    OBVIOUS
  <2> HIDE DEF r, left
  <2>3. left = [amount |-> r.amount, shares |-> r.shares,
                unlock_at |-> r.unlock_at, reward_debt |-> r.reward_debt,
                unlock_requested_at |-> 0, pending_unlock_amount |-> 0]
    BY <2>1, <2>2 DEF Position
  <2>4. left \in Position /\ left.amount = r.amount /\ left.shares = r.shares
    BY <2>1, <2>3 DEF Position
  <2>5. QED
    BY <2>1, <2>4
<1>8. position[s] = pos
  OBVIOUS
<1> HIDE DEF burn, left, pos
<1>9. /\ burnt \in PoolState
      /\ burnt.acc_reward_per_share = pool.acc_reward_per_share
      /\ burnt.pending_rewards = pool.pending_rewards
      /\ burnt.total_shares = pool.total_shares - burn
  BY <1>1, <1>6 DEF BurnShares, PoolState, Position
<1> HIDE DEF burnt
<1>10. /\ new \in Position /\ new.amount = pos.amount - amount
       /\ new.shares = pos.shares - burn /\ new.reward_debt = Checkpoint(burnt, left)
  BY <1>7, <1>9, SettleDebtType
<1> HIDE DEF new
<1>11. /\ new.reward_debt = Checkpoint(pool, new)
       /\ new.amount >= 0 /\ new.shares >= 0
       /\ burnt.total_shares = pool.total_shares + new.shares - pos.shares
  <2>1. pos.amount \in Int /\ pos.shares \in Int /\ pool.total_shares \in Int
    BY <1>1 DEF Position, PoolState
  <2>2. QED
    BY <1>4, <1>6, <1>7, <1>9, <1>10, <2>1 DEF Checkpoint
<1>12. paid \in Int /\ position' \in [Stakers -> Position]
  <2>1. Pending(pool, pos) \in Nat
    BY <1>1, PendingNat
  <2>2. paid \in Int
    BY <1>1, <2>1
  <2>3. position' \in [Stakers -> Position]
    BY <1>2 DEF TypeOK
  <2>4. QED
    BY <2>2, <2>3
<1>13. RewardBooks(burnt, position', rewardsIn, paid, roundings + 1)
  <2>1. RewardBooks(burnt, [position EXCEPT ![s] = new], rewardsIn, paid, roundings + 1)
    BY <1>1, <1>8, <1>9, <1>10, <1>11, SettledStep
  <2>2. QED
    BY <1>3, <2>1
<1> HIDE DEF paid
<1>14. CASE penalty > 0
  <2>1. pool' = Distribute(burnt, penalty) /\ roundings' = roundings + 2
    BY <1>3, <1>14
  <2> DEFINE f == position'
  <2>2. burnt.total_shares >= 0
    <3>1. pool'.total_shares = burnt.total_shares
      BY <1>5, <1>9, <2>1, DistributeType
    <3>2. \A t \in Stakers : f[t].shares >= 0
      BY <1>13 DEF RewardBooks
    <3>3. SumFunction([t \in Stakers |-> f[t].shares]) >= 0
      <4>1. f \in [Stakers -> Position]
        BY <1>12
      <4> HIDE DEF f
      <4>2. QED
        BY <3>2, <4>1, SharesNat
    <3>4. QED
      BY <1>2, <3>1, <3>3 DEF SharesConserved, TotalShares
  <2> DEFINE n == roundings + 1 + (IF burnt.total_shares = 0 THEN 0 ELSE 1)
  <2>3. RewardBooks(Distribute(burnt, penalty), f, rewardsIn + penalty, paid, n)
    <3>1. f \in [Stakers -> Position] /\ roundings + 1 \in Int
          /\ RewardBooks(burnt, f, rewardsIn, paid, roundings + 1)
      BY <1>1, <1>12, <1>13
    <3> HIDE DEF f
    <3>2. QED
      BY <1>1, <1>5, <1>9, <1>12, <2>2, <3>1, DistributeStep
  <2>4. n \in Int /\ roundings + 2 \in Int /\ n <= roundings + 2
    BY <1>1
  <2>5. Distribute(burnt, penalty) \in PoolState /\ rewardsIn + penalty \in Int
        /\ f \in [Stakers -> Position]
    <3>1. penalty \in Int
      BY <1>5
    <3>2. Distribute(burnt, penalty) \in PoolState
      BY <1>9, <3>1, DistributeType
    <3>3. QED
      BY <1>1, <1>12, <3>1, <3>2
  <2> HIDE DEF n, f
  <2>6. RewardBooks(Distribute(burnt, penalty), f, rewardsIn + penalty, paid, roundings + 2)
    BY <1>12, <2>3, <2>4, <2>5, MoreRoundings
  <2>7. QED
    BY <1>3, <2>1, <2>6 DEF Rewards, f
<1>15. CASE ~(penalty > 0)
  <2>1. pool' = burnt /\ roundings' = roundings + 1 /\ rewardsIn' = rewardsIn
    BY <1>1, <1>3, <1>5, <1>15
  <2>2. QED
    BY <1>3, <1>13, <2>1 DEF Rewards
<1>16. QED
  BY <1>14, <1>15

LEMMA DepositFeesRewards ==
  ASSUME RInv, NEW amount \in Amounts, DepositFees(amount)
  PROVE  Rewards'
<1> SUFFICES ASSUME ~overdrawn' PROVE Rewards'
  BY DEF Rewards
<1>1. /\ pool \in PoolState /\ position \in [Stakers -> Position] /\ ~overdrawn
      /\ rewardsIn \in Int /\ rewardsPaid \in Int /\ roundings \in Int
      /\ RewardBooks(pool, position, rewardsIn, rewardsPaid, roundings)
      /\ SharesConserved
  BY DEF RInv, Books, TypeOK, Rewards, DepositFees
<1>2. amount \in Nat /\ pool' = Distribute(pool, amount) /\ rewardsIn' = rewardsIn + amount
      /\ roundings' = roundings + (IF pool.total_shares = 0 THEN 0 ELSE 1)
      /\ position' = position /\ rewardsPaid' = rewardsPaid
  BY BoundsAssumption DEF DepositFees
<1>3. pool.total_shares >= 0
  BY <1>1, SharesNat DEF RewardBooks, SharesConserved, TotalShares
<1>4. RewardBooks(Distribute(pool, amount), position, rewardsIn + amount, rewardsPaid,
                  roundings + (IF pool.total_shares = 0 THEN 0 ELSE 1))
  BY <1>1, <1>2, <1>3, DistributeStep
<1>5. QED
  BY <1>2, <1>4 DEF Rewards

\* A request changes nothing the rewards are computed from.
LEMMA RequestUnlockRewards ==
  ASSUME RInv, NEW s \in Stakers, NEW amount \in Amounts, RequestUnlock(s, amount)
  PROVE  Rewards'
<1> SUFFICES ASSUME ~overdrawn' PROVE Rewards'
  BY DEF Rewards
<1>1. /\ position \in [Stakers -> Position] /\ ~overdrawn
      /\ RewardBooks(pool, position, rewardsIn, rewardsPaid, roundings)
  BY DEF RInv, Books, TypeOK, Rewards, RequestUnlock, history
<1>2. UNCHANGED <<pool, rewardsIn, rewardsPaid, roundings>>
  BY DEF RequestUnlock, history
<1>3. \A t \in Stakers : /\ position'[t].amount = position[t].amount
                         /\ position'[t].shares = position[t].shares
                         /\ position'[t].reward_debt = position[t].reward_debt
  BY <1>1 DEF RequestUnlock, Position
<1>4. Debt(position') = Debt(position)
  <2>1. [t \in Stakers |-> position'[t].reward_debt] = [t \in Stakers |-> position[t].reward_debt]
    BY <1>3
  <2>2. QED
    BY <2>1 DEF Debt
<1>5. RewardBooks(pool, position', rewardsIn, rewardsPaid, roundings)
  BY <1>1, <1>3, <1>4 DEF RewardBooks
<1>6. QED
  BY <1>2, <1>5 DEF Rewards

LEMMA RInvInit == Init => RInv
<1> SUFFICES ASSUME Init PROVE RInv
  OBVIOUS
<1>1. Books /\ Fresh
  BY BooksInit DEF Init, Fresh
<1> DEFINE g == [s \in Stakers |-> position[s].reward_debt]
<1>2. g \in [Stakers -> Int] /\ \A s \in Stakers : g[s] = 0
  BY DEF Init, EmptyPosition
<1>3. Debt(position) = SumFunction(g)
  BY DEF Debt
<1> HIDE DEF g
<1>4. Debt(position) = 0
  BY <1>2, <1>3, SumZero
<1>5. RewardBooks(pool, position, 0, 0, 0)
  <2>1. pool.acc_reward_per_share = 0 /\ pool.pending_rewards = 0 /\ pool.total_shares = 0
    BY DEF Init, EmptyPool
  <2>2. \A s \in Stakers : position[s].amount = 0 /\ position[s].shares = 0
                           /\ position[s].reward_debt = 0
    BY DEF Init, EmptyPosition
  <2>3. QED
    BY <1>4, <2>1, <2>2 DEF RewardBooks
<1>6. QED
  BY <1>1, <1>5 DEF RInv, Rewards, Init

LEMMA RInvNext == RInv /\ [Next]_vars => RInv'
<1> SUFFICES ASSUME RInv, [Next]_vars PROVE RInv'
  OBVIOUS
<1>1. Books'
  BY BooksPreserved DEF RInv
<1>2. Rewards'
  <2>1. CASE SetPaused(TRUE) \/ SetPaused(FALSE) \/ Tick \/ UNCHANGED vars
    <3>1. UNCHANGED <<pool, position, rewardsIn, rewardsPaid, roundings, overdrawn>>
      BY <2>1 DEF SetPaused, Tick, vars, history
    <3>2. QED
      BY <3>1 DEF Rewards, RInv
  <2>2. ASSUME NEW tiers \in TierConfigs, NEW u \in UnbondingConfigs, Initialize(tiers, u)
        PROVE  Rewards'
    <3>1. UNCHANGED <<pool, position, rewardsIn, rewardsPaid, roundings, overdrawn>>
      BY <2>2 DEF Initialize, history, RInv, Fresh
    <3>2. QED
      BY <3>1 DEF Rewards, RInv
  <2>3. QED
    BY <1>1, <2>1, <2>2, StakeRewards, RequestUnlockRewards, WithdrawRewards, UnstakeRewards,
       ClaimRewardsRewards, DepositFeesRewards DEF Next
<1>3. Fresh'
  <2>1. CASE UNCHANGED <<config, pool>>
    BY <2>1 DEF RInv, Fresh, Initialized
  <2>2. CASE config' = config /\ Initialized
    BY <2>2 DEF Fresh, Initialized
  <2>3. ASSUME NEW tiers \in TierConfigs, NEW u \in UnbondingConfigs, Initialize(tiers, u)
        PROVE  Fresh'
    BY <2>3 DEF Initialize, Fresh
  <2>4. QED
    BY <2>1, <2>2, <2>3 DEF Next, vars, Stake, RequestUnlock, Withdraw, Unstake,
       ClaimRewards, DepositFees, SetPaused, Tick
<1>4. QED
  BY <1>1, <1>2, <1>3 DEF RInv

LEMMA RInvHolds == Spec => []RInv
BY RInvInit, RInvNext, PTL DEF Spec

\* What can still be claimed, scaled, is at most what the shares have earned
\* since the debts were taken.
LEMMA ClaimableBound ==
  ASSUME RInv, ~overdrawn
  PROVE  /\ TotalPending \in Int
         /\ ACC_PRECISION * TotalPending <=
              pool.acc_reward_per_share * pool.total_shares - ACC_PRECISION * Debt(position)
<1> DEFINE P == ACC_PRECISION
           A == pool.acc_reward_per_share
           w == [s \in Stakers |-> Pending(pool, position[s])]
           x == [s \in Stakers |-> position[s].shares]
           d == [s \in Stakers |-> position[s].reward_debt]
           lhs == [s \in Stakers |-> P * w[s]]
           rhs == [s \in Stakers |-> A * x[s] + (-P) * d[s]]
<1>1. /\ pool \in PoolState /\ position \in [Stakers -> Position]
      /\ RewardBooks(pool, position, rewardsIn, rewardsPaid, roundings)
      /\ SharesConserved
  BY DEF RInv, Books, TypeOK, Rewards
<1>2. P \in Nat \ {0} /\ P \in Int /\ -P \in Int /\ A \in Nat /\ A \in Int
  BY <1>1 DEF PoolState, RewardBooks
<1>3. \A s \in Stakers : /\ w[s] \in Int /\ x[s] \in Int /\ d[s] \in Int
                         /\ P * w[s] <= A * x[s] + (-P) * d[s]
  <2> SUFFICES ASSUME NEW s \in Stakers
               PROVE  /\ w[s] \in Int /\ x[s] \in Int /\ d[s] \in Int
                      /\ P * w[s] <= A * x[s] + (-P) * d[s]
    OBVIOUS
  <2> DEFINE c == Checkpoint(pool, position[s])
             sh == position[s].shares
             e == position[s].reward_debt
  <2>1. position[s] \in Position /\ sh \in Nat /\ e \in Nat
    BY <1>1 DEF Position, RewardBooks
  <2>2. c \in Nat /\ Pending(pool, position[s]) = c - e /\ P * c <= sh * A
    BY <1>1, <2>1, PendingCovered DEF RewardBooks
  <2>3. w[s] = c - e /\ x[s] = sh /\ d[s] = e
    BY <2>2
  <2> HIDE DEF c, sh, e, w, x, d, P, A
  <2>4. P * (c - e) = P * c - P * e /\ A * sh = sh * A /\ (-P) * e = -(P * e)
        /\ P * c \in Int /\ P * e \in Int /\ sh * A \in Int
    BY <1>2, <2>1, <2>2
  <2>5. QED
    BY <2>1, <2>2, <2>3, <2>4
<1>4. TotalPending = SumFunction(w) /\ TotalShares = SumFunction(x) /\ Debt(position) = SumFunction(d)
  BY DEF TotalPending, TotalShares, Debt
<1>5. w \in [Stakers -> Int] /\ x \in [Stakers -> Int] /\ d \in [Stakers -> Int]
  BY <1>3
<1> HIDE DEF w, x, d, P, A
<1>6. /\ lhs \in [Stakers -> Int] /\ rhs \in [Stakers -> Int]
      /\ \A s \in Stakers : /\ lhs[s] = P * w[s] + 0 * w[s]
                            /\ rhs[s] = A * x[s] + (-P) * d[s]
                            /\ lhs[s] <= rhs[s]
  BY <1>2, <1>3
<1> HIDE DEF lhs, rhs
<1>7. SumFunction(lhs) = P * SumFunction(w) + 0 * SumFunction(w)
  <2>1. 0 \in Int /\ IsLinear(Stakers, lhs, P, w, 0, w)
    BY <1>6 DEF IsLinear
  <2>2. QED
    BY <1>2, <1>5, <1>6, <2>1, SumLinear
<1>8. SumFunction(rhs) = A * SumFunction(x) + (-P) * SumFunction(d)
  <2> DEFINE m == -P
  <2>1. m \in Int /\ IsLinear(Stakers, rhs, A, x, m, d)
    BY <1>2, <1>6 DEF IsLinear
  <2> HIDE DEF m
  <2>2. SumFunction(rhs) = A * SumFunction(x) + m * SumFunction(d)
    BY <1>2, <1>5, <1>6, <2>1, SumLinear
  <2>3. QED
    BY <2>2 DEF m
<1>9. SumFunction(lhs) <= SumFunction(rhs)
  BY <1>6, SumMonotone
<1>10. SumFunction(w) \in Int /\ SumFunction(x) \in Int /\ SumFunction(d) \in Int
  BY <1>5, SumInt
<1>11. 0 * SumFunction(w) = 0 /\ (-P) * SumFunction(d) = -(P * SumFunction(d))
       /\ P * SumFunction(w) \in Int /\ P * SumFunction(d) \in Int /\ A * SumFunction(x) \in Int
  BY <1>2, <1>10
<1>12. P * SumFunction(w) <= A * SumFunction(x) - P * SumFunction(d)
  BY <1>7, <1>8, <1>9, <1>11
<1>13. QED
  BY <1>1, <1>4, <1>10, <1>12 DEF SharesConserved, P, A

\* However the accumulator, the remainders and the debts are rounded, what was
\* paid, can be claimed and is parked exceeds the rewards received by at most
\* one unit for each distribution and each change of shares (pool.rs).
THEOREM RoundingBounded == Spec => []OverpaymentBounded
<1>1. RInv => OverpaymentBounded
  <2> SUFFICES ASSUME RInv, ~overdrawn
               PROVE  rewardsPaid + TotalPending + pool.pending_rewards <= rewardsIn + roundings
    BY DEF OverpaymentBounded
  <2> DEFINE P == ACC_PRECISION
             D == Debt(position)
             k == pool.pending_rewards
             w == pool.acc_reward_per_share * pool.total_shares
             t == TotalPending
  <2>1. /\ rewardsPaid \in Int /\ rewardsIn \in Int /\ roundings \in Int
        /\ k \in Int /\ w \in Int /\ D \in Int /\ P \in Nat \ {0}
    BY DebtInt DEF RInv, Books, TypeOK, PoolState
  <2>2. P * (rewardsPaid - rewardsIn + k - D) + w <= P * roundings
    BY DEF RInv, Rewards, RewardBooks
  <2>3. t \in Int /\ P * t <= w - P * D
    BY ClaimableBound
  <2> HIDE DEF P, D, k, w, t
  <2> DEFINE y == rewardsPaid - rewardsIn + k
  <2>4. y \in Int /\ rewardsPaid - rewardsIn + k - D = y - D
    BY <2>1
  <2> HIDE DEF y
  <2>5. P * (y - D) = P * y - P * D /\ P * (t + y) = P * t + P * y
        /\ P * y \in Int /\ P * D \in Int /\ P * t \in Int /\ P * roundings \in Int
    BY <2>1, <2>3, <2>4
  <2>6. P * (t + y) <= P * roundings
    BY <2>1, <2>2, <2>3, <2>4, <2>5
  <2>7. t + y <= roundings
    BY <2>1, <2>3, <2>4, <2>6, Cancel
  <2>8. rewardsPaid + t + k <= rewardsIn + roundings
    BY <2>1, <2>3, <2>7 DEF y
  <2>9. QED
    BY <2>8 DEF t, k
<1>2. QED
  BY RInvHolds, <1>1, PTL

LEMMA DistributeGrows ==
  ASSUME NEW p \in PoolState, NEW amount \in Nat, p.pending_rewards >= 0, p.total_shares >= 0
  PROVE  Distribute(p, amount).acc_reward_per_share >= p.acc_reward_per_share
<1> DEFINE T == p.total_shares
           total == amount + p.pending_rewards
           i == TruncDiv(total * ACC_PRECISION, T)
           a == TruncDiv(i * T, ACC_PRECISION)
<1>1. T \in Nat /\ total \in Nat /\ p.acc_reward_per_share \in Int
  BY DEF PoolState
<1>2. CASE T = 0
  BY <1>1, <1>2 DEF Distribute, PoolState
<1>3. CASE T # 0
  <2>1. total * ACC_PRECISION \in Nat
    BY <1>1
  <2>2. i \in Nat
    BY <1>1, <1>3, <2>1, TruncDivNat
  <2>3. Distribute(p, amount) =
          [p EXCEPT !.pending_rewards = total - a, !.acc_reward_per_share = @ + i]
    BY <1>3 DEF Distribute
  <2> HIDE DEF i, a, total
  <2>4. Distribute(p, amount).acc_reward_per_share = p.acc_reward_per_share + i
    BY <2>3 DEF PoolState
  <2>5. QED
    BY <1>1, <2>2, <2>4
<1>4. QED
  BY <1>2, <1>3

\* Whoever takes the step, the accumulator does not go down.
LEMMA AccumulatorGrows ==
  ASSUME RInv, RInv', [Next]_vars, ~overdrawn'
  PROVE  ~overdrawn /\ pool'.acc_reward_per_share >= pool.acc_reward_per_share
<1>1. /\ pool \in PoolState /\ pool' \in PoolState /\ TypeOK
      /\ pool.acc_reward_per_share \in Int /\ pool.total_shares \in Int
  BY DEF RInv, Books, TypeOK, PoolState
<1>2. pool'.total_shares >= 0
  <2>1. position' \in [Stakers -> Position] /\ SharesConserved'
        /\ \A t \in Stakers : position'[t].shares >= 0
    BY DEF RInv, Books, TypeOK, Rewards, RewardBooks
  <2> DEFINE f == position'
  <2>2. SumFunction([t \in Stakers |-> f[t].shares]) >= 0
    <3>1. f \in [Stakers -> Position] /\ \A t \in Stakers : f[t].shares >= 0
      BY <2>1
    <3> HIDE DEF f
    <3>2. QED
      BY <3>1, SharesNat
  <2>3. QED
    BY <2>1, <2>2 DEF SharesConserved, TotalShares
<1>3. ASSUME ~overdrawn
      PROVE  pool.pending_rewards >= 0
  BY <1>3 DEF RInv, Rewards, RewardBooks
<1>5. ASSUME NEW s \in Stakers, NEW amount \in Amounts, NEW tier \in Tiers, Stake(s, amount, tier)
      PROVE  ~overdrawn /\ pool'.acc_reward_per_share = pool.acc_reward_per_share
  <2>1. /\ pool' = [pool EXCEPT !.total_shares = @ + BoostedShares(amount, tier.boost_bps)]
        /\ overdrawn' = overdrawn
    BY <1>5 DEF Stake
  <2>2. QED
    BY <1>1, <2>1 DEF PoolState
<1>6. ASSUME NEW s \in Stakers, NEW amount \in Amounts, Unstake(s, amount)
      PROVE  ~overdrawn /\ pool'.acc_reward_per_share = pool.acc_reward_per_share
  <2>1. /\ pool' = BurnShares(pool, SharesToBurn(position[s], amount))
        /\ overdrawn' = overdrawn
    BY <1>6 DEF Unstake
  <2>2. QED
    BY <1>1, <2>1 DEF PoolState, BurnShares
<1>7. ASSUME NEW s \in Stakers, Withdraw(s)
      PROVE  ~overdrawn /\ pool'.acc_reward_per_share >= pool.acc_reward_per_share
  <2> DEFINE pos     == position[s]
             amount  == pos.pending_unlock_amount
             early   == now < pos.unlock_requested_at + config.cooldown_period
             penalty == IF early THEN CalculatePenalty(amount, config.penalty_bps) ELSE 0
             burn    == SharesToBurn(pos, amount)
             burnt   == BurnShares(pool, burn)
  <2>1. /\ pool' = IF penalty > 0 THEN Distribute(burnt, penalty) ELSE burnt
        /\ ~overdrawn /\ amount > 0 /\ pos.amount # 0
    BY <1>7 DEF Withdraw
  <2>2. pos \in Position /\ amount \in Nat /\ amount \in Int
    BY <1>1, <2>1 DEF TypeOK, Position
  <2>3. penalty \in Nat
    <3>1. config.penalty_bps \in 0..BPS_DENOMINATOR
      BY <1>1 DEF TypeOK
    <3>2. CalculatePenalty(amount, config.penalty_bps) \in 0..amount
      BY <2>2, <3>1, PenaltyBounds
    <3> HIDE DEF amount
    <3>3. QED
      BY <2>2, <3>2
  <2> HIDE DEF pos, amount, penalty
  <2>4. burn \in Int
    BY <2>1, <2>2, SharesToBurnInt
  <2> HIDE DEF burn
  <2>5. /\ burnt \in PoolState
        /\ burnt.acc_reward_per_share = pool.acc_reward_per_share
        /\ burnt.pending_rewards = pool.pending_rewards
    BY <1>1, <2>4 DEF BurnShares, PoolState
  <2> HIDE DEF burnt
  <2>6. CASE penalty > 0
    <3>1. pool' = Distribute(burnt, penalty) /\ penalty \in Int
      BY <2>1, <2>3, <2>6
    <3>2. burnt.total_shares >= 0
      BY <1>2, <2>5, <3>1, DistributeType
    <3>3. QED
      BY <1>3, <2>1, <2>3, <2>5, <3>1, <3>2, DistributeGrows
  <2>7. CASE ~(penalty > 0)
    BY <1>1, <2>1, <2>5, <2>7
  <2>8. QED
    BY <2>6, <2>7
<1>8. ASSUME NEW amount \in Amounts, DepositFees(amount)
      PROVE  ~overdrawn /\ pool'.acc_reward_per_share >= pool.acc_reward_per_share
  <2>1. amount \in Nat /\ amount \in Int /\ pool' = Distribute(pool, amount) /\ ~overdrawn
    BY <1>8, BoundsAssumption DEF DepositFees
  <2>2. pool.total_shares >= 0
    BY <1>1, <1>2, <2>1, DistributeType
  <2>3. QED
    BY <1>1, <1>3, <2>1, <2>2, DistributeGrows
<1>9. ASSUME NEW tiers \in TierConfigs, NEW u \in UnbondingConfigs, Initialize(tiers, u)
      PROVE  pool' = pool /\ overdrawn' = overdrawn
  BY <1>9 DEF Initialize, history, RInv, Fresh
<1>10. ASSUME \/ \E s \in Stakers, a \in Amounts : RequestUnlock(s, a)
              \/ \E s \in Stakers : ClaimRewards(s)
              \/ \E flag \in BOOLEAN : SetPaused(flag)
              \/ Tick \/ UNCHANGED vars
       PROVE  pool' = pool /\ overdrawn' = overdrawn
  BY <1>10 DEF vars, history, RequestUnlock, ClaimRewards, SetPaused, Tick
<1> DEFINE Grows == ~overdrawn /\ pool'.acc_reward_per_share >= pool.acc_reward_per_share
<1>11. /\ pool' = pool /\ overdrawn' = overdrawn => Grows
       /\ ~overdrawn /\ pool'.acc_reward_per_share = pool.acc_reward_per_share => Grows
  BY <1>1
<1>12. CASE UNCHANGED vars
  BY <1>10, <1>11, <1>12
<1>13. CASE Next
  <2>1. ASSUME NEW s \in Stakers, NEW a \in Amounts, NEW t \in Tiers, Stake(s, a, t) PROVE Grows
    BY <1>5, <1>11, <2>1
  <2>2. ASSUME NEW s \in Stakers, NEW a \in Amounts, Unstake(s, a) PROVE Grows
    BY <1>6, <1>11, <2>2
  <2>3. ASSUME NEW tiers \in TierConfigs, NEW u \in UnbondingConfigs, Initialize(tiers, u)
        PROVE  Grows
    BY <1>9, <1>11, <2>3
  <2>4. ASSUME NEW s \in Stakers, Withdraw(s) PROVE Grows
    BY <1>7, <2>4
  <2>5. ASSUME NEW a \in Amounts, DepositFees(a) PROVE Grows
    BY <1>8, <2>5
  <2> HIDE DEF Grows
  <2>6. Grows
    BY <1>10, <1>11, <1>13, <2>1, <2>2, <2>3, <2>4, <2>5 DEF Next
  <2>7. QED
    BY <2>6 DEF Grows
<1>14. QED
  BY <1>12, <1>13

\* A larger accumulator never lowers what a position can claim.
LEMMA PendingMonotone ==
  ASSUME NEW p \in PoolState, NEW q \in PoolState, NEW pos \in Position, pos.shares >= 0,
         p.acc_reward_per_share >= 0, q.acc_reward_per_share >= p.acc_reward_per_share
  PROVE  Pending(q, pos) >= Pending(p, pos)
<1> DEFINE x == pos.shares * p.acc_reward_per_share
           y == pos.shares * q.acc_reward_per_share
           c == TruncDiv(x, ACC_PRECISION)
           e == TruncDiv(y, ACC_PRECISION)
<1>1. /\ pos.shares \in Nat /\ pos.reward_debt \in Int
      /\ p.acc_reward_per_share \in Nat /\ q.acc_reward_per_share \in Nat
  BY DEF PoolState, Position
<1>2. x \in Nat /\ y \in Nat /\ x <= y
  BY <1>1
<1> HIDE DEF x, y
<1>3. /\ c \in Nat /\ ACC_PRECISION * c <= x
      /\ e \in Nat /\ y < ACC_PRECISION * e + ACC_PRECISION
  BY <1>2, TruncDivNat
<1>4. Checkpoint(p, pos) = c /\ Checkpoint(q, pos) = e
  BY DEF Checkpoint, x, y
<1> HIDE DEF c, e
<1>5. ACC_PRECISION * c < ACC_PRECISION * e + ACC_PRECISION
  <2>1. ACC_PRECISION * c \in Int /\ ACC_PRECISION * e \in Int
    BY <1>3
  <2>2. QED
    BY <1>2, <1>3, <2>1
<1>6. c <= e
  BY <1>3, <1>5, Cancel
<1>7. QED
  BY <1>1, <1>3, <1>4, <1>6 DEF Pending

\* Until a withdrawal exceeds the principal, no step that leaves a position
\* alone lowers what it can claim, whoever takes it.
THEOREM ClaimsAreKept == Spec => ClaimableNeverLost
<1> DEFINE Kept == \A s \in Stakers :
             ~overdrawn' /\ position'[s] = position[s]
               => Pending(pool', position[s]) >= Pending(pool, position[s])
<1>1. RInv /\ RInv' /\ [Next]_vars => [Kept]_vars
  <2> SUFFICES ASSUME RInv, RInv', [Next]_vars, NEW s \in Stakers, ~overdrawn'
               PROVE  Pending(pool', position[s]) >= Pending(pool, position[s])
    OBVIOUS
  <2>1. ~overdrawn /\ pool'.acc_reward_per_share >= pool.acc_reward_per_share
    BY AccumulatorGrows
  <2>2. /\ pool \in PoolState /\ pool' \in PoolState /\ position[s] \in Position
        /\ pool.acc_reward_per_share >= 0 /\ position[s].shares >= 0
    BY <2>1 DEF RInv, Books, TypeOK, Rewards, RewardBooks
  <2> DEFINE q == pool'
  <2>3. q \in PoolState /\ q.acc_reward_per_share >= pool.acc_reward_per_share
    BY <2>1, <2>2
  <2> HIDE DEF q
  <2>4. Pending(q, position[s]) >= Pending(pool, position[s])
    BY <2>2, <2>3, PendingMonotone
  <2>5. QED
    BY <2>4 DEF q
<1>2. QED
  BY RInvHolds, <1>1, PTL DEF Spec, ClaimableNeverLost
=============================================================================
