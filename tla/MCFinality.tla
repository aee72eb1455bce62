---------------------------- MODULE MCFinality ----------------------------
(***************************************************************************)
(* Finality with two holders that are alike, told apart only by name.      *)
(***************************************************************************)
EXTENDS Finality, TLC

HolderSymmetry == Permutations(Holders)
=============================================================================
