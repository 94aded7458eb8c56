CONSTANTS
  Markets = {m1}
  Users = {u1, u2, u3}
  Outcomes = {yes, no}
  NoOutcome = NoOutcome
  Amounts = {0, 1, 2}
  MarketParams <- MCMarketParams
  EndTimes = {}
  Committers = {}
  DisputeBonds = {}
  ProtocolFees = {2500}
  CreatorFees = {}
  ExitFees = {5000}
  BPS = 10000
  MAX_CREATOR_FEE_BPS = 2500
  MIN_STAKE = 1
  MAX_STAKE = 2
  MAX_BATCH_PAYOUTS = 2
  DISPUTE_WINDOW = 1
  REVEAL_DELAY = 1
  INSURANCE_SHARE_BPS = 5000
  ORACLE_STAKE = 2
  ORACLE_REWARD_BPS = 5000
  MaxTime = 3
  MaxTreasury = 2
  MaxPool = 4
  MaxPaid = 4
  MaxDust = 1
SPECIFICATION Spec
CONSTRAINT Explored
SYMMETRY Symmetry
CHECK_DEADLOCK FALSE
INVARIANT ConservedAfterExpiry
