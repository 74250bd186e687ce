------------------------------ MODULE MCStateDB ------------------------------
\* StateDB for TLC: a wallet, a contract or nothing, and a module account that
\* the bank blocks.
EXTENDS StateDB, TLC
CONSTANTS a1, a2, m, k1, k2
Wallet == [bal |-> 1, code |-> 0, slot |-> 0]
Contract == [bal |-> 0, code |-> 1, slot |-> 1]
Holding(x) ==
  [acct |-> (a1 :> Wallet @@ a2 :> x @@ m :> Wallet),
   native |-> [state |-> 0, paid |-> (m :> 0)]]

\* Accounts with precompile calls; the same with the module account; refund,
\* logs, transient storage, access list.
MCTransactions ==
  {[store |-> Holding(x), kinds |-> {"account", "native"}, whom |-> {a1, a2},
    snapshots |-> 3] : x \in {NoAccount, Contract}}
  \cup {[store |-> Holding(Contract), kinds |-> {"account", "native"}, whom |-> {a1, m},
         snapshots |-> 2]}
  \cup {[store |-> Holding(Contract), kinds |-> {"side"}, whom |-> {a1, a2},
         snapshots |-> 1]}

SlotSymmetry == Permutations({k1, k2})
==============================================================================
