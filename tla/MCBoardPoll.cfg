SPECIFICATION FairSpec
CONSTANTS
  Threads = {1, 2}
  Unlisted = {}
  Unwanted = {2}
  ReadArchive = TRUE
  MinValue = 3
  MaxTime = 2
  MaxBoots = 2
INVARIANTS
  TypeOK
  ChangeIsListedAgain
  FallenIsFollowed
  
PROPERTIES
  FallenIsForgotten
CHECK_DEADLOCK FALSE
