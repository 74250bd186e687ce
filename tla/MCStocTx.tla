------------------------------ MODULE MCStocTx ------------------------------
(***************************************************************************)
(* Instances of StocTx for TLC.  The creation messages are chosen so that  *)
(* every kind of token appears: limited and unlimited, with and without a  *)
(* reserve, with the default and with an explicit distribution, taxed and  *)
(* untaxed, and messages the handler must refuse.                          *)
(***************************************************************************)
EXTENDS StocTx, TLC
CONSTANTS w1, w2, w3, v, p, A, B

Msg(symbol, initial, total, unlimited, dist, last, percent, taxTo) ==
  [symbol |-> symbol, initial |-> initial, total |-> total,
   unlimited |-> unlimited, dist |-> dist, last |-> last,
   taxPercent |-> percent, taxTo |-> taxTo]

Default == <<>>

LifecycleMsgs ==
  { Msg(A, 1, 3, FALSE, Default, NoAddr, 0, NoAddr),
    Msg(B, 0, 1, TRUE, Default, NoAddr, 0, NoAddr),
    Msg(B, 0, 2, FALSE, Default, NoAddr, 0, NoAddr),
    Msg(A, 1, 1, TRUE, (Stoc :> 100), Stoc, 0, NoAddr),
    Msg(A, 2, 1, FALSE, Default, NoAddr, 0, NoAddr) }
  \cup { Msg(B, 3, 3, FALSE, (w :> 50) @@ (v :> 50), v, 0, NoAddr) : w \in Wallet }
  \cup { Msg(B, 1, 1, FALSE, (w :> 40) @@ (v :> 60), v, 0, NoAddr) : w \in Wallet }

TaxMsgs ==
  { Msg(A, 3, 3, FALSE, Default, NoAddr, 50, c) : c \in Wallet \cup {v, p} }
  \cup { Msg(A, 4, 4, FALSE, (w :> 50) @@ (c :> 50), c, 10, c) : w, c \in Wallet }

\* One coin of the native denom, which x/stoc does not manage.
OneNative == [a \in Account |-> IF a = v THEN 1 ELSE 0]
NoNative == [a \in Account |-> 0]

WalletSymmetry == Permutations(Wallet)
=============================================================================
