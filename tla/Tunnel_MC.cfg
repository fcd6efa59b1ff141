SPECIFICATION FairSpec
CONSTANTS
  g1 = g1
  a1 = a1
  GWriters = {g1}
  AWriters = {a1}
  Cap = 1
  None = None
PROPERTIES
  WritersReturn
  EndsOnBothSides
