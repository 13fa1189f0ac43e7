\* Two faults anywhere in any number of logins and ends of the process, and a
\* service that may refuse releases for good.
CONSTANTS
  TTL = 2
  Ahead = 1
  ReportsInvalid = TRUE
  ReleasesRefused = TRUE
  ExitCalls = 1
  MaxKeys = 2
  MaxFaults = 2

SPECIFICATION FairSpec

INVARIANTS
  LeaseTypeOK
  NoOrphanLease

PROPERTIES
  OwedReleaseSettled
