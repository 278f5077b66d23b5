SPECIFICATION Spec
CONSTANTS
  Threads = {1, 2}
  Unlisted = {}
  Unwanted = {2}
  ReadArchive = TRUE
  MinValue = 4
  MaxTime = 3
  MaxBoots = 2
INVARIANTS
  SkipsOnlyUnchanged
CHECK_DEADLOCK FALSE
