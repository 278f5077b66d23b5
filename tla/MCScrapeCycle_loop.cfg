SPECIFICATION Spec
CONSTANTS
  Threads = {t1, t2}
  Images = {i1, i2, i3}
  Workers = {w1, w2}
  ThumbOnly = {}
  LoopArchive = TRUE
  NoThread = NoThread
  MaxBoots = 2
SYMMETRY Symmetry
INVARIANTS
  TypeOK
  NoDownloadDropped
  OneOwner
  PoolDrains
PROPERTIES
  ImplementsLedger
