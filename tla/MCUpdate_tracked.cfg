\* Whether an interrupted transaction completes, once its files are tracked.
SPECIFICATION FairSpec
CONSTANTS
  Enabled <- Both
  Files <- TwoFiles
  Tracked <- TwoFiles
  Others = {}
  MaxTxn = 1
  MaxFaults = 3
  MaxForeign = 0
PROPERTIES
  RecoveryCompletes
