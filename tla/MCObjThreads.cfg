\* three threads, two inodes, two data blocks in one word of the bitmap
SPECIFICATION Spec
CONSTANTS
  Threads = {t1, t2, t3}
  NoThread = NoThread
  Keys = {k1, k2}
  NoKey = NoKey
  Torn = Torn
  INODES = 2
  INODES_PER_BLOCK = 2
  NDIRECT = 2
  WORD = 2
  Skew = 1
  DATA_BITS = 2
VIEW View
SYMMETRY ThreadsAndKeys
CONSTRAINT Undamaged
INVARIANTS
  TypeOK
  ObjectsKept
  OwnedUnlessDamaged
  StatRight
CHECK_DEADLOCK FALSE
