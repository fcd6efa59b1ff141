SPECIFICATION Spec
CONSTANTS
  PingEvery = 2
  StableAfter = 3
  ReadWait = 9
  MaxBackoff = 30
  MaxShift = 5
  ConflictWait = 5
  MaxAttempt = 7
  MaxHandlers = 2
INVARIANT BackoffAsDocumented
