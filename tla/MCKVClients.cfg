\* two clients, two keys, two slots, both builds, one remount
SPECIFICATION Spec
CONSTANTS
  Keys = {k1, k2}
  NoKey = NoKey
  MAX_OBJS = 2
  BLOCK_SIZE = 2
  x = x
  y = y
  Bytes = {x, y}
  Zero = Zero
  Clients = {c1, c2}
  Values <- MCValues
  NoValue = NoValue
  Remounts = 1
SYMMETRY MCSymmetry
INVARIANTS
  TypeOK
  CleanOnDisk
  HandlesValid
  OnlyPutValues
PROPERTIES
  ImplementsMap
CHECK_DEADLOCK FALSE
