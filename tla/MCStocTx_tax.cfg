SPECIFICATION Spec
CONSTANTS
  w1 = w1  w2 = w2  w3 = w3  v = v  p = p  A = A  B = B
  Wallet = {w1, w2, w3}
  NonWallet = {v}
  Precompile = {p}
  BlockedModule = {}
  Stoc = Stoc
  NoTaxModule = {Stoc}
  Symbol = {A}
  Native = Native
  NoAddr = NoAddr
  NoToken = NoToken
  CreateMsg <- TaxMsgs
  MaxUint64 = 1
  MaxTokenSupply = 4
  MaxOutputs = 2
  MaxMsgs = 3
  GenesisNative <- NoNative
INVARIANTS SkippedOnlyIfDrained
SYMMETRY WalletSymmetry
