CONSTANTS
  s1 = s1
  s2 = s2
  Stakers <- MCStakers
  TierConfigs <- MCTierConfigs
  UnbondingConfigs <- MCUnbondingConfigs
  ACC_PRECISION = 10
  BPS_DENOMINATOR = 10000
  Amounts <- MCAmounts
  InitialWallet = 2
  MaxFees = 2
  MaxTime = 3
  MaxRoundings = 5
SPECIFICATION Spec
CONSTRAINT Explored
SYMMETRY Symmetry
INVARIANT TypeOK
INVARIANT SharesConserved
INVARIANT VaultMatchesBooks
INVARIANT OverpaymentBounded
PROPERTY ClaimableNeverLost
