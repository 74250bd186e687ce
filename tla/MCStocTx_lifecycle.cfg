SPECIFICATION Spec
CONSTANTS
  w1 = w1  w2 = w2  w3 = w3  v = v  p = p  A = A  B = B
  Wallet = {w1, w2}
  NonWallet = {v}
  Precompile = {}
  BlockedModule = {}
  Stoc = Stoc
  NoTaxModule = {Stoc}
  Symbol = {A, B}
  Native = Native
  NoAddr = NoAddr
  NoToken = NoToken
  CreateMsg <- LifecycleMsgs
  MaxUint64 = 2
  MaxTokenSupply = 3
  MaxOutputs = 2
  MaxMsgs = 1
  GenesisNative <- OneNative
INVARIANTS TypeOK SupplyInvariant CounterFresh WalletsCanBurn
PROPERTIES TermsKept NonWalletFrozen
SYMMETRY WalletSymmetry
