\* Two callers, every kind of job, one retry, three tokens, one interrupt.
SPECIFICATION Spec
CONSTANTS
  tracker = tracker
  updater = updater
  NoCaller = NoCaller
  Callers <- TwoCallers
  MaxRetries = 1
  MaxSessions = 3
  MaxInterrupts = 1
SYMMETRY CallerSymmetry
INVARIANTS
  SharedTypeOK
  ReadyHasSession
PROPERTIES
  LateRestores
  
  SettledAfterJob
  FailedLoginDegrades
