\* One transaction, two faults, one edit of the pages, two dates.
SPECIFICATION FairSharing
CONSTANTS
  Enabled <- Both
  Files <- ThreeFiles
  Tracked = {}
  Others <- InformationPage
  MaxTxn = 1
  MaxFaults = 2
  MaxForeign = 1
  MaxEdits = 1
  MaxDay = 1
INVARIANTS
  SharingTypeOK
  NoTornCommit
  OnlyPagesInTheWay
  MarkedDateShown
PROPERTIES
  CompletesUnlessMoved
  RetainedPushed
  RemoteOnlyGrows
  ImplementsDualPublish
