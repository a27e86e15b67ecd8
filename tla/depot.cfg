\* One account with two characters on two servers.
CONSTANTS
  s1 = s1
  s2 = s2
  c1 = c1
  c2 = c2
  None = None
  Nobody = Nobody
  Servers = {s1, s2}
  Chars = {c1, c2}
  MaxVer = 1
  MaxQueue = 1
  MaxAsked = 2
  MaxFaults = 1
SYMMETRY Symmetry
CONSTRAINT UntilRescued
SPECIFICATION Spec
INVARIANTS
  TypeOK
  UsableUnlessRescued
  CurrentUnlessRescued
  CopyInv
