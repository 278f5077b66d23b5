SPECIFICATION FairSpec
CONSTANTS
  MaxStatus = 2
  MaxAsking = 2
  MaxCalls = 2
  Posts = {p, q}
  NoPost = NoPost
  MaxActions = 2
  MaxClicks = 5
INVARIANTS
  TypeOK
  OneLoop
  ShownRoleIsHeld
  OpenMenuHasFocus
PROPERTIES
  StatusCatchesUp
CHECK_DEADLOCK FALSE
