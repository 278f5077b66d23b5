SPECIFICATION Spec
CONSTANTS
  Threads = {t1}
  Images = {i1, i2}
  Workers = {w1, w2}
  ThumbOnly = {}
  LoopArchive = TRUE
  NoThread = NoThread
  MaxBoots = 2
INVARIANTS
  UnsavedStateKept
