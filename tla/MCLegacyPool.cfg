SPECIFICATION Spec
CONSTANTS
  a1 = a1
  a2 = a2
  Account = {a1, a2}
  Nonces = 3
  Prices = {1, 2}
  Scenes <- MCScenes
  AccountSlots = 1
  GlobalSlots = 1
  AccountQueue = 1
  GlobalQueue = 1
  Lifetime = 1
  HardEvict = 2
  MaxAge = 2
  None = None
SYMMETRY Symmetry
INVARIANTS
  TypeOK
  Bookkeeping
  PendingContiguous
  PoolBounded
PROPERTIES
  RunRestoresLimits
