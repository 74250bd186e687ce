SPECIFICATION Spec
CONSTANTS
  Node <- TwoNodes
  Channel <- TwoChannels
  NoChannel = "none"
  Blocks <- AllBlocks
  Simulated <- SendOnly
  MaxHeight = 1
  MaxRestarts = 0
INVARIANTS
  NodesAgree
