SPECIFICATION Spec
CONSTANTS
  Wallet = {"w1"}
  Tx <- MCTx
  MaxPending = 2
  MaxLag = 2
INVARIANTS
  CapHolds
  
  OnlyLateLoses
PROPERTIES
  OrphansLeave
  AdmittedMined
