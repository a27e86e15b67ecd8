\* Two mirrors: load_depot ends the lock of load_char.
CONSTANTS
  k1 = k1
  k2 = k2
  c1 = c1
  c2 = c2
  None = None
  Areas = {3}
  Mirrors = {1, 2}
  Servers <- TwoMirrors
  Chars = {c1}
  Clients = {k1, k2}
  Who <- Twice
  HomeAreas <- HomesOf3
  MaxVer = 1
  MaxQueue = 1
  MaxFaults = 1
SPECIFICATION Spec
INVARIANTS
  OneCopy
