CONSTANTS
  u1 = u1
  u2 = u2
  m1 = m1
  m2 = m2
  win = win
  lose = lose
  NoRow = NoRow
  NoOutcome = NoOutcome
  Users = {u1, u2}
  Markets = {m1, m2}
  Outcomes = {win, lose}
  Requests = {1, 2, 3}
  Plans <- MCPlans
  PAGE = 2
  Wallets = {u1}
  MaxEvents <- MCMaxEvents
  MaxFailures = 1
SPECIFICATION Spec
CHECK_DEADLOCK FALSE
INVARIANT TypeOK
INVARIANT TotalsMatch
INVARIANT AllOrNothing
 
