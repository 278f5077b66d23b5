SPECIFICATION Spec
CONSTANTS
  Posts = {p1, p2}
  OP = p1
  WithMedia = {p2}
  Padded = {p1}
  Authoritative = TRUE
  DbMayFail = TRUE
  MaxVersion = 2
  MaxBoots = 2
INVARIANTS
  TypeOK
  TrackerMatchesBackend
  NoFalseDeletion
  DownloadsAreMapped
  ArchivedIsComplete
PROPERTIES
  NothingForgotten
  ImplementsRecord
CHECK_DEADLOCK FALSE
