CONSTANTS
  v1 = v1
  v2 = v2
  NoDispute = NoDispute
  Requests = {1, 2, 3}
  Plans <- MCPlans
  Voters = {v1, v2}
  Weight <- MCWeight
  MaxDisputes = 2
  MAX_TIER = 2
  QUORUM = 2
  MULTIPLIER = 2
  MaxIncidents = 2
SPECIFICATION Spec
CHECK_DEADLOCK FALSE
INVARIANT TypeOK
INVARIANT VerdictOfTheVotes
PROPERTY ChainIdRestored
