\* No fault at all; the process ends with both of its hooks.
CONSTANTS
  TTL = 2
  Ahead = 1
  ReportsInvalid = FALSE
  ReleasesRefused = FALSE
  ExitCalls = 2
  MaxKeys = 3
  MaxFaults = 0

SPECIFICATION Spec

INVARIANTS
  LeaseOnRecord
