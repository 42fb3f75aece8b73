\* destroy_object drops a block while another thread uses the cache
SPECIFICATION RacySpec
CONSTANTS
  cache_blks = 2
  Blocks = {0, 1, 2}
  Contents = {u, v}
  NoBlock = NoBlock
PROPERTIES
  WritesSurvive
CHECK_DEADLOCK FALSE
