SPECIFICATION FairSpec
CONSTANTS
  Tx <- SplitTxs
  Account <- SplitAccounts
  Info <- SplitInfo
  Bad = {"b0"}
  Opaque = {}
  Poison = {}
  MaxTxBytes = 2
  MaxInvalid = 1
  MaxIterations = 3
PROPERTIES
  HealthyKept
  Included
