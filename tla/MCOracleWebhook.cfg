CONSTANTS
  k1 = k1
  k2 = k2
  a = a
  b = b
  Calls = {1, 2, 3}
  Plans <- MCPlans
  Keys = {k1, k2}
  Winners = {a, b}
  Cron = Cron
  MAX_RETRIES = 2
  None = None
  MaxIncidents = 2
  MaxRestarts = 1
SPECIFICATION Spec
CHECK_DEADLOCK FALSE
INVARIANT TypeOK
INVARIANT SubmittedWasApplied
INVARIANT OneResultPerKey
PROPERTY EventuallyUsed
