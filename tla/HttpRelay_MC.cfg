SPECIFICATION FairSpec
CONSTANTS
  o1 = o1
  o2 = o2
  Objs = {o1, o2}
  None = None
  GQueue = 1
  AQueue = 1
  Scenarios <- Requests
INVARIANTS
  TypeOK
  BodiesWhole
  CutBodyIsCancelled
PROPERTIES
  HandlerEnds
  DiesOut
