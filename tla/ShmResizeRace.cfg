CONSTANTS
  N = 2
  MaxCalls = 2
  MaxBlocks = 2
  BlocksOf <- MCGrowAtOnce
  InitBlocks = 1
  Synced = {}
  ChunkStart <- MCChunks
SPECIFICATION FairSpec
CHECK_DEADLOCK FALSE
PROPERTIES AllCallsReturn
