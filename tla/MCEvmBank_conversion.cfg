SPECIFICATION Spec
CONSTANTS
  a = a
  b = b
  v = v
  m = m
  p = p
  NoPayer = NoPayer
  Account <- Accounts
  ModuleAccount <- Modules
  Precompile <- Precompiles
  GenesisCoins <- Coins
  GenesisLocked <- Locked
  Multiplier = 3
  MaxFee = 4
  MaxSteps = 2
  MaxTxs = 2
CHECK_DEADLOCK FALSE
INVARIANTS
  TypeOK
  BankMirrorsEvm
  DustBounded
  VestingStaysLocked
  FeesKept
