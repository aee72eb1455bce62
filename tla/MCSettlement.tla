---------------------------- MODULE MCSettlement ----------------------------
(***************************************************************************)
(* A payment that does not divide, shared with a platform, and shares that *)
(* are no whole.  A share of ten is a whole.                               *)
(***************************************************************************)
EXTENDS Settlement, TLC

MCPayees == <<"payee", "platform">>
MCContracts ==
    {[payment |-> MoneyOf(99, "USD"), shares |-> <<7, 3>>],
     [payment |-> MoneyOf(99, "USD"), shares |-> <<3, 3>>]}
MCThreshold == [http_200_check |-> 10, quality_score |-> 8]

HolderSymmetry == Permutations(Holders)
=============================================================================
