\* No fault at all, in a region that never reports an account.
CONSTANTS
  TTL = 2
  Ahead = 1
  ReportsInvalid = FALSE
  ReleasesRefused = FALSE
  ExitCalls = 0
  MaxKeys = 3
  MaxFaults = 0

SPECIFICATION Spec

INVARIANTS
  ActiveLeaseHeld
