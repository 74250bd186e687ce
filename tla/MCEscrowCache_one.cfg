SPECIFICATION Spec
CONSTANTS
  Node = {"n1"}
  Channel <- TwoChannels
  NoChannel = "none"
  Blocks <- AllBlocks
  Simulated <- Simulations
  MaxHeight = 3
  MaxRestarts = 1
INVARIANTS
  CacheMatchesState
  DecidedByState
PROPERTIES
  CacheNeverAges
