\* Two players, an item and a token.
CONSTANTS
  p1 = p1
  p2 = p2
  i1 = i1
  i2 = i2
  s1 = s1
  s2 = s2
  None = None
  Players = {p1, p2}
  Slots = {s1, s2}
  Items = {i1}
  PackSize = 1
  MaxItems = 1
  Tokens <- OneToken
  MaxMail = 1
SYMMETRY Symmetry
SPECIFICATION Spec
CHECK_DEADLOCK FALSE
INVARIANTS
  TypeOK
  OnePlace
  AcceptedOfferStands
  NothingKept
  SavedCovers
PROPERTIES
  NobodyIsCheated
