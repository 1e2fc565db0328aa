CONSTANTS
  MaxID = 2
  MaxSeqLen = 3
  PromptLens = {1, 3}
  MaxLens = {3}
  MaxBatch = 2
  MaxGroups = 3
  MaxPos = 5
  RuleSets = {{"ids", "fits", "loop", "done", "held", "once"}, {"ids", "fits", "loop", "done", "held"}, {"fits", "loop", "done", "held", "once"}}
SPECIFICATION Spec
CHECK_DEADLOCK FALSE
INVARIANTS TypeOK OneOwner MapsAgree SequencesHeld CacheHoldsPast InBounds LengthBounded
PROPERTIES OthersUntouched
