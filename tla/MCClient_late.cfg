\* What the roadmap promises of a task whose caller has timed out.
SPECIFICATION Spec
CONSTANTS
  tracker = tracker
  updater = updater
  NoCaller = NoCaller
  Callers <- OneCaller
  MaxRetries = 1
  MaxSessions = 3
  MaxInterrupts = 0
PROPERTIES
  LateCommitsNothing
