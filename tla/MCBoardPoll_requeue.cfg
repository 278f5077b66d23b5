SPECIFICATION FairSpec
CONSTANTS
  Threads = {1, 2}
  Unlisted = {}
  Unwanted = {2}
  ReadArchive = TRUE
  MinValue = 4
  MaxTime = 3
  MaxBoots = 2
PROPERTIES
  RequeuedIsPolledNextLoop
CHECK_DEADLOCK FALSE
