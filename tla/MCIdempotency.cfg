SPECIFICATION Spec
CONSTANTS
  r1 = r1
  r2 = r2
  r3 = r3
  NoRequest = NoRequest
  Requests <- MCRequests
  Body <- MCBody
  TTL = 1
  MaxFailures = 2
CHECK_DEADLOCK FALSE
INVARIANT TypeOK
INVARIANT ClaimKept
PROPERTY ImplementsCell
PROPERTY NotBlockedForEver
