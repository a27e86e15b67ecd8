\* One server, two characters: their logins take turns and all are answered.
CONSTANTS
  k1 = k1
  k2 = k2
  c1 = c1
  c2 = c2
  None = None
  Areas = {3}
  Mirrors = {1}
  Servers <- OneServer
  Chars = {c1, c2}
  Clients = {k1, k2}
  Who <- Each
  HomeAreas <- HomesOf3
  MaxVer = 0
  MaxQueue = 1
  MaxFaults = 2
SPECIFICATION FairSpec
INVARIANTS
  TypeOK
  LoadFindsLogin
PROPERTIES
  LoginResolves
