------------------------------ MODULE MCEvmBank ------------------------------
(***************************************************************************)
(* EvmBank with three users, one of them with a vesting coin, a module     *)
(* account and a precompile.                                               *)
(***************************************************************************)
EXTENDS EvmBank

CONSTANTS a, b, v, m, p

Accounts == {a, b, v, m, p}
Modules == {m}
Precompiles == {p}
Coins == [x \in Accounts |-> CASE x = v -> 2 [] x = a -> 2 [] OTHER -> 0]
Locked == [x \in Accounts |-> IF x = v THEN 1 ELSE 0]
=============================================================================
