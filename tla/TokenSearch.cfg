CONSTANTS
  Configs <- MCConfigs
  VocabSize = 5
  Ranks = 2
  NumThreads = 2
  Eos = 4
  Pad = 0
  TopK = 2
  Penalty = 2
  StopWordsList <- MCStopWords
  Inputs <- MCInputs
  MaxCalls = 2
  LogitRows <- MCLogitRows
SPECIFICATION Spec
CHECK_DEADLOCK FALSE
INVARIANTS TypeOK OutputShape StopWordsFound
PROPERTIES RowsGrow TokenIsBest TokenInTopK
