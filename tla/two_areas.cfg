\* Two areas and one player: crashes, rescues, shutdowns, repeated queries.
CONSTANTS
  k1 = k1
  k2 = k2
  c1 = c1
  c2 = c2
  None = None
  Areas = {1, 3}
  Mirrors = {1}
  Servers <- TwoAreas
  Chars = {c1}
  Clients = {k1}
  Who <- Alone
  HomeAreas <- Homes
  MaxVer = 1
  MaxQueue = 1
  MaxFaults = 2
SPECIFICATION Spec
INVARIANTS
  OneCopyUnlessTaken
  LogoutSaveLands
  AtRestNothingLost
PROPERTIES
  IsLease
  OnlyHolderWrites
CONSTRAINT UntilTaken
