\* the objfs_cached build, users who append, blocks released and reused
SPECIFICATION Spec
CONSTANTS
  Keys = {k1, k2}
  Values = {u}
  NoKey = NoKey
  NoObject = NoObject
  INODES = 2
  INODES_PER_BLOCK = 2
  NDIRECT = 1
  NINDIRECT = 1
  PTRS = 2
  data_block_offset = 3
  Skew = 2
  DATA_BITS = 4
  MAX_SIZE = 3
  CACHE = TRUE
  cache_blks = 2
  StartCtr = {0}
  Overwrites = FALSE
  Sparse = FALSE
  PastLimit = FALSE
  RenameOnto = FALSE
  Blocks <- MCBlocks
  Contents <- MCContents
VIEW View
SYMMETRY Symmetry
INVARIANTS
  OwnedUnlessDamaged
PROPERTIES
  ImplementsKV
CHECK_DEADLOCK FALSE
