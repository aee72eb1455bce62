-------------------------- MODULE MCStoredChain --------------------------
(***************************************************************************)
(* StoredChain with receipts and ids that are alike, told apart only by    *)
(* name.                                                                   *)
(***************************************************************************)
EXTENDS StoredChain, TLC

ChainSymmetry == Permutations(VerityIds) \cup Permutations(Contents)
=============================================================================
