---------------------------- MODULE MCAdmission ----------------------------
(***************************************************************************)
(* Admission with a cap that two of three nonces reach, one of them with a *)
(* replacement.                                                            *)
(***************************************************************************)
EXTENDS Admission

T(n, p) == [w |-> "w1", n |-> n, p |-> p]
MCTx == {T(0, 1), T(0, 2), T(1, 1), T(2, 1)}
=============================================================================
