CONSTANTS
  Prompts <- MCPrompts
  NumBeams = 2
  VocabSize = 5
  Eos = 0
  Pad = 0
  Configs <- MCConfigs
  Tables <- MCTables
  Hybrid = FALSE
  Big = 1000
SPECIFICATION Spec
CHECK_DEADLOCK FALSE
INVARIANTS CacheAgrees ScoresTrue BestKept EnoughBeams OutputBest
