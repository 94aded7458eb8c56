CONSTANTS
  i1 = i1
  i2 = i2
  w1 = w1
  w2 = w2
  Instances = {i1, i2}
  Sweeps = {w1, w2}
  Host <- MCTwoInstances
  Requests = {r1}
  Operations = {"propose"}
  Outcomes = {yes}
  NoOutcome = NoOutcome
  GRACE = 1
  STALE = 1
  BACKOFF = 1
  MAX_RETRY_ATTEMPTS = 5
  NoSweep = NoSweep
  MaxManual = 0
  MaxFailures = 0
  MaxCrashes = 0
SPECIFICATION Spec
CHECK_DEADLOCK FALSE
INVARIANT SettledExactlyOnce
