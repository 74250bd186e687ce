SPECIFICATION HandlerSpec
CONSTANTS
  Tx <- MixedTxs
  Account <- MixedAccounts
  Info <- MixedInfo
  Bad = {}
  Opaque = {"a1"}
  Poison = {"d0"}
  MaxTxBytes = 2
  MaxInvalid = 2
  MaxIterations = 3
INVARIANTS TypeOK ProposalAccepted NeverReexamined
PROPERTIES HandlerReturns
