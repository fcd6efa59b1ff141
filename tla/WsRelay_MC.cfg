SPECIFICATION FairSpec
CONSTANTS
  o1 = o1
  o2 = o2
  Objs = {o1, o2}
  None = None
  GQueue = 1
  AQueue = 1
  Scenarios <- Sessions
INVARIANTS
  TypeOK
  Ordered
  CloseCarriesAll
PROPERTIES
  DiesOut
  EndReachesClient
