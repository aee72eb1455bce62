-------------------------- MODULE MCMoneyLedger --------------------------
(***************************************************************************)
(* A four bit register, so that three movements overflow it from both      *)
(* sides; the smallest value, whose negation does not fit, is among them.  *)
(***************************************************************************)
EXTENDS MoneyLedger, TLC

MCMovements ==
    {MoneyOf(a, "USD") : a \in {3, 5, -8}} \cup {MoneyOf(a, "EUR") : a \in {5}}

AgentSymmetry == Permutations(Agents)
=============================================================================
