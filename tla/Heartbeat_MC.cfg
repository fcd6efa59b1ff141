SPECIFICATION Spec
CONSTANTS
  PingEvery = 16
  ReadWait = 72
  MonitorEvery = 4
  DefaultTimeout = 48
  DefaultHint = 16
  MinGrace = 4
  TimeoutEnv <- Timeouts
  HintEnv <- Hints
  GraceEnv <- Graces
  OneWay = 2
  RoundTrip = 3
INVARIANTS
  SilentIsEvicted
  NoSelfConflict
PROPERTY NoFalseAlarm
