\* What login_account says of a login that fails: the game may answer 426 to its
\* authentication request.
SPECIFICATION Spec
CONSTANTS
  tracker = tracker
  updater = updater
  NoCaller = NoCaller
  Callers <- OneCaller
  MaxRetries = 1
  MaxSessions = 2
  MaxInterrupts = 0
PROPERTIES
  EveryFailedLoginDegrades
