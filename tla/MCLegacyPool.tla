---------------------------- MODULE MCLegacyPool ----------------------------
(***************************************************************************)
(* LegacyPool with limits that a few transactions reach: one account alone *)
(* with changing balances and base fees, and two that compete for slots.   *)
(***************************************************************************)
EXTENDS LegacyPool

CONSTANTS a1, a2

Alone(a) == [accounts |-> {a}, nonces |-> 3, mined |-> 3,
             balances |-> {1, 3}, baseFees |-> {1, 2}]
Competing == [accounts |-> {a1, a2}, nonces |-> 2, mined |-> 1,
              balances |-> {4}, baseFees |-> {1}]
MCScenes == {Alone(a1), Alone(a2), Competing}
Symmetry == Permutations({a1, a2})
=============================================================================
