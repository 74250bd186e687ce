----------------------------- MODULE MCProposal -----------------------------
(***************************************************************************)
(* Proposal with small mempools.                                           *)
(***************************************************************************)
EXTENDS Proposal

Evm(a, n, p, s) == [lane |-> "evm", from |-> a, nonce |-> n, tip |-> p, size |-> s]
Cosmos(a, n, p, s) == [lane |-> "cosmos", from |-> a, nonce |-> n, tip |-> p, size |-> s]

\* An account's transactions all in one lane.
SplitAccounts == {"a", "b", "c"}
SplitTxs == {"a0", "a1", "b0", "b1", "c0"}
SplitInfo == [a0 |-> Evm("a", 0, 2, 1), a1 |-> Evm("a", 1, 3, 2),
              b0 |-> Evm("b", 0, 4, 1), b1 |-> Evm("b", 1, 4, 1),
              c0 |-> Cosmos("c", 0, 2, 2)]

\* One account in both lanes, another beside it, and a sender whose
\* transaction makes the handler panic and which the recovery does not evict.
MixedAccounts == {"a", "b", "d"}
MixedTxs == {"a0", "a1", "x1", "b0", "d0"}
MixedInfo == [a0 |-> Evm("a", 0, 3, 2), a1 |-> Evm("a", 1, 3, 1),
              x1 |-> Cosmos("a", 1, 2, 1), b0 |-> Cosmos("b", 0, 4, 1),
              d0 |-> Evm("d", 0, 2, 1)]
=============================================================================
