\* the objfs build; users who overwrite, leave holes, exceed the limit and rename
\* onto existing keys, in a disk small enough that blocks are released and reused
SPECIFICATION Spec
CONSTANTS
  Keys = {k1, k2}
  Values = {u, v}
  NoKey = NoKey
  NoObject = NoObject
  INODES = 2
  INODES_PER_BLOCK = 2
  NDIRECT = 1
  NINDIRECT = 1
  PTRS = 1
  data_block_offset = 3
  Skew = 1
  DATA_BITS = 3
  MAX_SIZE = 3
  CACHE = FALSE
  cache_blks = 1
  StartCtr = {0, 1}
  Overwrites = TRUE
  Sparse = TRUE
  PastLimit = TRUE
  RenameOnto = TRUE
  Blocks <- MCBlocks
  Contents <- MCContents
VIEW View
SYMMETRY Symmetry
INVARIANTS
  TypeOK
  OwnedUnlessDamaged
  DirtyCovers
PROPERTIES
  RemountKeepsObjects
  
CHECK_DEADLOCK FALSE
