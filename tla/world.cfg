SPECIFICATION Spec
CONSTANTS
  Width = 1
  Height = 3
  Walls <- MCWalls
  Doors <- MCDoors
  s1 = s1
  s2 = s2
  i1 = i1
  i2 = i2
  Folk <- MCFolk
  Slots = {s1, s2}
  Items = {i1, i2}
  None = None
  PackSize <- MCPack
  SnSize = 2
  BodyTime = 2
  MaxBorn = 2
  MaxLaid = 2
  MaxTimers = 2
  MaxCalls = 2
INVARIANT TypeOK Placed Linked Due
PROPERTY InItsOwnTime
CONSTRAINT DueAtOnce
SYMMETRY Symmetric
