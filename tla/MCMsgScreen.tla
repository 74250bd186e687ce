---------------------------- MODULE MCMsgScreen ----------------------------
(***************************************************************************)
(* MsgScreen with every tree of three messages over the types that differ  *)
(* and no empty wrapper, and chains of wrappers around one message.        *)
(***************************************************************************)
EXTENDS MsgScreen

M(p, t, d) == [parent |-> p, type |-> t, denom |-> d]
Chain(wraps, t, d) ==
  [i \in 1..(Len(wraps) + 1) |-> IF i <= Len(wraps) THEN M(i - 1, wraps[i], Native)
                                 ELSE M(i - 1, t, d)]

Shapes == UNION {[1..n -> 0..2] : n \in 1..3}
Kinds == {<<"exec", Native>>, <<"group", Native>>, <<"create", "T0">>, <<"send", "T0">>,
          <<"op", "T0">>}
Filled(tx) == \A i \in DOMAIN tx : tx[i].type \in Wrappers => Under(tx, i) # {}
Trees ==
  {tx \in UNION {{[i \in DOMAIN s |-> M(s[i], k[i][1], k[i][2])] : k \in [DOMAIN s -> Kinds]}
                   : s \in Shapes} : WellFormed(tx) /\ Filled(tx)}

Wraps(n, types) == UNION {[1..k -> types] : k \in 0..n}
Leaves == {<<"send", "T0">>, <<"op", "T0">>, <<"transfer", "T0">>, <<"eth", Native>>,
           <<"create", "T0">>, <<"raw", Native>>}
Chains ==
  {tx \in {Chain(w, l[1], l[2]) : w \in Wraps(2, Wrappers), l \in Leaves}
            \cup {Chain(w, "send", "T0") : w \in Wraps(4, {"exec", "group"})}
     : WellFormed(tx)}
Siblings == {[i \in 1..n |-> M(0, "exec", Native)] : n \in 5..7}
Grants == {Chain([i \in 1..n |-> "exec"], "grant", Native) : n \in 0..3}
DeepExec == {Chain([i \in 1..n |-> "exec"], "eth", Native) : n \in 5..7}

AllTxs == Trees \cup Chains \cup Siblings \cup Grants \cup DeepExec
=============================================================================
