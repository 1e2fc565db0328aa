CONSTANTS
  BatchSize = 6
  BeamSize = 3
  InitSeqLen = 1
  AccSeqLen = 3
  Row <- MCRow
  Head8 <- MCHeads
  Garbage <- MCGarbage
  Orig <- MCOrig
  HeadNum = 1
  MaxSeqLen = 3
  OrigScales <- MCScales
SPECIFICATION Spec
CHECK_DEADLOCK FALSE
INVARIANTS TypeOK ReorderCorrect ExpandCorrect
