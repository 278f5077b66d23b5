SPECIFICATION FairSpec
CONSTANTS
  Threads = {t1}
  Images = {i1, i2}
  Workers = {w1, w2}
  ThumbOnly = {}
  LoopArchive = FALSE
  NoThread = NoThread
  MaxBoots = 2
PROPERTIES
  CacheDrains
