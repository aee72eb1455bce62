-------------------------- MODULE MCPaymentSplit --------------------------
(***************************************************************************)
(* The code's scale of 10000 with a 28 bit register: products overflow     *)
(* from 13422 minor units on (from 9 * 10^14 in the code).                 *)
(***************************************************************************)
EXTENDS PaymentSplit

MCAmounts == {0, 1, -1, 7, -100, 13421, 13422, -13421, -13422, 200000}
MCPayments == {MoneyOf(a, "USD") : a \in MCAmounts} \cup {MoneyOf(-7, "EUR")}
MCShares == {0, 1, 3333, 3334, 5000, 6666, 9788, 9999, 10000}
=============================================================================
