CONSTANTS
  i1 = i1
  i2 = i2
  w1 = w1
  w2 = w2
  Instances = {i1, i2}
  Sweeps = {w1, w2}
  Host <- MCTwoInstances
  Requests = {r1, r2}
  Operations = {"propose", "challenge", "adjudicate", "resolve"}
  Outcomes = {yes}
  NoOutcome = NoOutcome
  GRACE = 0
  STALE = 1
  BACKOFF = 0
  MAX_RETRY_ATTEMPTS = 3
  NoSweep = NoSweep
  MaxManual = 1
  MaxFailures = 1
  MaxCrashes = 1
SPECIFICATION FairSpec
CHECK_DEADLOCK FALSE
INVARIANT TypeOK
INVARIANT ResolvedOnlyAfterCall
INVARIANT RetryBudget
 
