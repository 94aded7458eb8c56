--------------------------- MODULE MCStakingVault ---------------------------
(***************************************************************************)
(* Instances of StakingVault for TLC: lock tiers and unbonding parameters  *)
(* as `initialize` receives them, a valid and an invalid tier vector among *)
(* them, and small amounts.                                                *)
(***************************************************************************)
EXTENDS StakingVault, TLC

CONSTANTS
  s1, s2,
  MaxRoundings  \* bound: share changes and distributions explored

MCStakers == {s1, s2}

\* One second at 1.0x, two seconds at 1.5x; the descending vector is refused.
MCTierConfigs ==
  LET short == [duration |-> 1, boost_bps |-> 10000]
      long  == [duration |-> 2, boost_bps |-> 15000]
  IN  {<<short, long>>, <<long, short>>}

\* Half of an early withdrawal is forfeited; 100.01 % is refused.
MCUnbondingConfigs ==
  {[cooldown_period |-> 1, penalty_bps |-> 5000],
   [cooldown_period |-> 1, penalty_bps |-> 10001]}

MCAmounts == {0, 1, 2}

\* Share changes are unbounded (stake, unstake, stake ...), and after an
\* overdraft the books are void: neither is explored further.
Explored == roundings < MaxRoundings /\ ~overdrawn

Symmetry == Permutations(MCStakers)
=============================================================================
