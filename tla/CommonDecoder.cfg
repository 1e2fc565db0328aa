SPECIFICATION Spec
CONSTANTS
  MaxPositions = 5
  HiddenSize = 2
  VocabSize = 3
  Models <- MCModels
  Shapes <- MCShapes
  SharedPrefixes <- MCPrefixes
INVARIANTS
  CacheTrue
  LogitsTrue
  BufferFits
