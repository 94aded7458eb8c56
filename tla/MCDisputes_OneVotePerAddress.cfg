CONSTANTS
  v1 = v1
  v2 = v2
  NoDispute = NoDispute
  Requests = {1, 2, 3, 4}
  Plans <- MCTwoVotes
  Voters = {v1, v2}
  Weight <- MCWeight
  MaxDisputes = 2
  MAX_TIER = 2
  QUORUM = 2
  MULTIPLIER = 2
  MaxIncidents = 0
SPECIFICATION Spec
CHECK_DEADLOCK FALSE
INVARIANT OneVotePerAddress
