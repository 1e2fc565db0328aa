CONSTANTS
  N = 4
  MaxCalls = 3
  MaxBlocks = 3
  BlocksOf <- MCGrow
  InitBlocks = 1
  Synced = {2}
  ChunkStart <- MCChunks
SPECIFICATION FairSpec
CHECK_DEADLOCK FALSE
INVARIANTS TypeOK ReductionCorrect RaceFree
PROPERTIES ImplementsAllReduce AllCallsReturn
