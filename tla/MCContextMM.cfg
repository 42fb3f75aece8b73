\* two contexts, every placement of code, data and stack
SPECIFICATION Spec
CONSTANTS
  Pages = {0, 1, 2, 8}
  Fan = 2
  UserFrames = {1, 2, 3, 4, 5, 6}
  OsFrames = {11, 12, 13, 14, 15, 16, 17, 18, 19, 20, 21, 22, 23, 24, 25, 26, 27, 28, 29, 30}
  NoEntry = NoEntry
  Contexts = {c1, c2}
  NoContext = NoContext
SYMMETRY ContextSymmetry
INVARIANTS
  TypeOK
  FrameAccounting
  SegmentsMapped
CHECK_DEADLOCK FALSE
