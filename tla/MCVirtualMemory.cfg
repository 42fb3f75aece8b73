\* two pages of RODATA, three of DATA, a stack of one page and its end page
SPECIFICATION Spec
CONSTANTS
  Pages <- MCPages
  Fan = 2
  UserFrames = {1, 2, 3, 4, 5, 6, 7, 8}
  OsFrames = {11, 12, 13, 14, 15, 16, 17, 18, 19, 20, 21, 22, 23, 24, 25, 26, 27}
  NoEntry = NoEntry
  CODE = 0
  RODATA_START = 2
  RODATA_END = 4
  DATA_START = 6
  DATA_END = 9
  STACK_START = 15
  STACK_END = 16
  MAX_SIZE = 2
  MAX_LENGTH = 3
  WRAP = 8
  Sizes = {0, 1, 2, 3}
  Lengths = {0, 3, 4}
INVARIANTS
  TypeOK
  FrameAccounting
  MappedInSegments
  Permissions
PROPERTIES
  ShrinkUnmapsReleased
CHECK_DEADLOCK FALSE
