SPECIFICATION FairSpec
CONSTANTS
  c1 = c1
  c2 = c2
  u1 = u1
  Conns = {c1, c2}
  Uuids = {u1}
  None = None
  HeartbeatOn = TRUE
INVARIANTS
  RegistryExact
PROPERTIES
  LeaseSpec
  DeadIsReleased
  GoroutinesEnd
  UuidComesBack
