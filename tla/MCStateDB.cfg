SPECIFICATION Spec
CONSTANTS
  a1 = a1  a2 = a2  m = m  k1 = k1  k2 = k2
  Addr = {a1, a2, m}  Module = {m}  Blocked = {m}
  Sender = a1  Slot = {k1, k2}  Val = {0, 1}
  NoAccount = NoAccount  Clean = Clean
  Transactions <- MCTransactions
  MaxPrecompileCalls = 2  CounterSize = 256
  MaxJournal = 3  MaxDepth = 2
SYMMETRY SlotSymmetry
INVARIANTS TypeOK JournalUnwinds
PROPERTY ImplementsWorld
CHECK_DEADLOCK FALSE
