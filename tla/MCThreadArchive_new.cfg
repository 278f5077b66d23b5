SPECIFICATION Spec
CONSTANTS
  Posts = {p1, p2}
  OP = p1
  WithMedia = {p2}
  Padded = {p1}
  Authoritative = TRUE
  DbMayFail = FALSE
  MaxVersion = 1
  MaxBoots = 2
INVARIANTS
  NewThreadIsNotInBackend
CHECK_DEADLOCK FALSE
