\* five blocks over two slots: every slot is contended by two or three blocks
SPECIFICATION Spec
CONSTANTS
  cache_blks = 2
  Blocks = {0, 1, 2, 3, 4}
  Contents = {u, v, w}
  NoBlock = NoBlock
SYMMETRY ContentsSymmetry
INVARIANTS
  TypeOK
  Coherent
PROPERTIES
  StoreSpec
CHECK_DEADLOCK FALSE
