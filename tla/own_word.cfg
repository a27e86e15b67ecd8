\* Whose word and whose item it is.
CONSTANTS
  p1 = p1
  p2 = p2
  s1 = s1
  s2 = s2
  i1 = i1
  i2 = i2
  None = None
  Players = {p1, p2}
  Slots = {s1, s2}
  Items = {i1}
  PackSize = 1
  MaxItems = 1
  Tokens <- NoToken
  MaxMail = 1
SPECIFICATION Spec
PROPERTY OwnWord
CHECK_DEADLOCK FALSE
