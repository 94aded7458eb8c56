CONSTANTS
  Markets = {m1}
  Users = {u1, u2, u3, u4}
  Outcomes = {yes, no}
  NoOutcome = NoOutcome
  Amounts = {0, 1, 2}
  MarketParams <- MCMarketParams
  EndTimes = {3}
  Committers = {u4}
  DisputeBonds = {2}
  ProtocolFees = {2500, 10001}
  CreatorFees = {0, 2501}
  ExitFees = {5000, 10001}
  BPS = 10000
  MAX_CREATOR_FEE_BPS = 2500
  MIN_STAKE = 1
  MAX_STAKE = 2
  MAX_BATCH_PAYOUTS = 2
  DISPUTE_WINDOW = 1
  REVEAL_DELAY = 1
  INSURANCE_SHARE_BPS = 5000
  ORACLE_STAKE = 2
  ORACLE_REWARD_BPS = 5000
  MaxTime = 3
  MaxTreasury = 2
  MaxPool = 4
  MaxPaid = 4
  MaxDust = 1
SPECIFICATION Spec
CONSTRAINT Explored
SYMMETRY Symmetry
CHECK_DEADLOCK FALSE
INVARIANT TypeOK
INVARIANT PayoutsConserved
INVARIANT EscrowSolvent
INVARIANT NoSecondPayout
INVARIANT EscrowMatchesBooks
INVARIANT PredictorsListed
PROPERTY PoolFrozen
