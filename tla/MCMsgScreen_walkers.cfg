SPECIFICATION ScreenSpec
CONSTANTS
  Denom = {"T0"}
  Native = "native"
  Txs <- AllTxs
  MaxAuthzUnwrapDepth = 3
  ScreenMaxDepth = 3
  maxNestedMsgs = 7
  MaxStored = 1
INVARIANTS
  DirectMovesTaxed
  KnownTokensStayTaxed
  OnlyProposalsDelegate
