CONSTANTS
  Prompts <- MCPrompt
  NumBeams = 2
  VocabSize = 5
  Eos = 0
  Pad = 0
  Configs <- MCOneConfig
  Tables <- MCTables
  Hybrid = TRUE
  Big = 1000
SPECIFICATION Spec
CHECK_DEADLOCK FALSE
INVARIANTS KeysReordered
