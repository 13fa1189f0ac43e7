\* One transaction, one crash, one edit of the pages, nobody else pushes.
SPECIFICATION FairSharing
CONSTANTS
  Enabled <- Both
  Files <- ThreeFiles
  Tracked = {}
  Others <- InformationPage
  MaxTxn = 1
  MaxFaults = 1
  MaxForeign = 0
  MaxEdits = 1
  MaxDay = 0
PROPERTIES
  CompletesAmongUsers
