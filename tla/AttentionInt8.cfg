SPECIFICATION Spec
CONSTANTS
  Calls <- MCInt8
  Threads = 5
  FlashThresh = 3
  SrcBlk = 2
  TgtBlk = 3
  Span = 3
INVARIANT WeightsTrue
