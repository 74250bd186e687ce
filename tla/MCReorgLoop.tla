---------------------------- MODULE MCReorgLoop ----------------------------
(***************************************************************************)
(* ReorgLoop with two inserters, a gapped insertion and two heads.         *)
(***************************************************************************)
EXTENDS ReorgLoop
=============================================================================
