SPECIFICATION Spec
CONSTANTS
  s1 = s1
  s2 = s2
  s3 = s3
  Streams = {s1, s2, s3}
  None = None
  IdMax = 3
  MaxStreams = 2
  QueueFrames = 1
  MaxAllocs = 5
SYMMETRY StreamSymmetry
CHECK_DEADLOCK FALSE
INVARIANTS
  TypeOK
  IdsSound
  TableExact
  NoOrphan
PROPERTY FirstErrWins
