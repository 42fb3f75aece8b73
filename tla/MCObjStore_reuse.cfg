\* the objfs build, users who append: a release hits a block of another object
SPECIFICATION Spec
CONSTANTS
  Keys = {k1, k2}
  Values = {u}
  NoKey = NoKey
  NoObject = NoObject
  INODES = 2
  INODES_PER_BLOCK = 2
  NDIRECT = 1
  NINDIRECT = 1
  PTRS = 1
  data_block_offset = 3
  Skew = 1
  DATA_BITS = 3
  MAX_SIZE = 3
  CACHE = FALSE
  cache_blks = 1
  StartCtr = {0}
  Overwrites = FALSE
  Sparse = FALSE
  PastLimit = FALSE
  RenameOnto = FALSE
  Blocks <- MCBlocks
  Contents <- MCContents
SYMMETRY Symmetry
INVARIANTS
  BlocksOwnedOnce
CHECK_DEADLOCK FALSE
