CONSTANTS
  u = u
  EventIds = {1, 2}
  MatchIds = {1}
  Users = {u}
  ENTRY_FEE = 1
  Overlapping <- MCOverlapping
  Setups <- MCSetups
  OffchainResults <- MCOffchain
  Poller = Poller
  Other = Other
  BATCH_SIZE = 2
  ROLLBACK_DEPTH = 1
  DLQ_THRESHOLD = 2
  MAX_RETRIES = 2
  NoHash = NoHash
  NoRow = NoRow
  MaxLedgers = 2
  MaxFaults = 1
  MaxReorgs = 1
  MaxJobs = 1
  MaxIncidents = 2
SPECIFICATION Spec
CHECK_DEADLOCK FALSE
INVARIANT TypeOK
 
 
INVARIANT MatchesNotOvercounted
INVARIANT GradesAgree
