\* Two transactions, three faults, one foreign push.  The files are new in the
\* first transaction and tracked in the second.
SPECIFICATION Spec
CONSTANTS
  Enabled <- Both
  Files <- TwoFiles
  Tracked = {}
  Others = {}
  MaxTxn = 2
  MaxFaults = 3
  MaxForeign = 1
INVARIANTS
  TypeOK
  JournalWellFormed
  NoTornCommit
  I18nBeforeMaster
  NothingAbandoned
  QuietMeansReady
  VersionsLast
  VersionInfoLockStep
PROPERTIES
  PushOnlyCommitted
  RemoteOnlyGrows
  ImplementsDualPublish
