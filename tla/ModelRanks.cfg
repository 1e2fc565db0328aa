CONSTANTS
  Size = 3
  Modes <- MCModes
  ShmSize = 2
  CclLimit = 3
  Scripts <- MCScripts
  Layers = 1
  Logits <- MCLogits
  Drawn = {2, 7}
SPECIFICATION Spec
INVARIANTS CollectivesMatch ShmMappedAlike WipedOnlyInPrefix RanksAgree
PROPERTY EveryRankExits
