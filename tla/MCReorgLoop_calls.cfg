SPECIFICATION LoopSpec
CONSTANTS
  Inserter = {"i1", "i2"}
  Gapper = {"g"}
  Resetter = "reset"
  Runner = "run"
  Nobody = "nobody"
  MaxHead = 2
  MaxCalls = 2
CHECK_DEADLOCK FALSE
INVARIANTS
  ReleasedByOwnRun
PROPERTIES
  EveryCallReturns
  PoolCatchesUp
