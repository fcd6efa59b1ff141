SPECIFICATION CliFairSpec
CONSTANTS
  Commands <- SomeCommands
  PingEvery = 2
  StableAfter = 3
  ReadWait = 9
  MaxBackoff = 30
  MaxShift = 5
  ConflictWait = 5
  MaxAttempt = 7
  MaxHandlers = 2
INVARIANTS
  TypeOK
  BackoffSound
  NoLeftovers
  ExitSound
PROPERTIES
  RetriesOnceDrained
  SilenceIsNoticed
  InterruptEnds
