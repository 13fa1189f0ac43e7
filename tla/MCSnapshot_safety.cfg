\* Three versions, two splits, two faults.
SPECIFICATION FairSpec
CONSTANTS
  Builds <- DataThenApp
  Announced = {1, 2}
  Splits = 2
  MaxFaults = 2
INVARIANTS
  SnapshotTypeOK
  PublishedTogether
PROPERTIES
  NeverBackwards
  NewVersionPublished
