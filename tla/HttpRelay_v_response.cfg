SPECIFICATION Spec
CONSTANTS
  o1 = o1
  o2 = o2
  Objs = {o1, o2}
  None = None
  GQueue = 3
  AQueue = 3
  Scenarios <- FailingUpstream
INVARIANT CompleteMeansWhole
