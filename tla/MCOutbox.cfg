\* Two trackers; deliveries fail as often as they like, one more fault, and one
\* delivery that outlives its claim.
SPECIFICATION FairSpec
CONSTANTS
  old_deployment = old_deployment
  new_deployment = new_deployment
  Trackers <- TwoTrackers
  Chapters <- OneChapter
  MaxAttempts = 2
  MaxTime = 1
  MaxFaults = 1
  MaxSlow = 1
INVARIANTS
  OutboxTypeOK
  SentMeansReceived
  NothingLost
  AttemptsAccounted
  OneSenderPerClaim
PROPERTIES
  SettledStaysSettled
  ImplementsPromise
  Settles
