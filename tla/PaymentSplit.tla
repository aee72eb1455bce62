---------------------------- MODULE PaymentSplit ----------------------------
(***************************************************************************)
(* A payment whose payees are named one after the other, and is split at   *)
(* every point: the calls of Money over every list of shares.              *)
(***************************************************************************)
EXTENDS Money

CONSTANTS
    Payments,       \* the payments made
    Shares,         \* the shares, in basis points, a payee is given
    MaxPayees       \* bound on the number of payees

ASSUME PaymentSplitAssumption == Payments \subseteq Monies /\ Shares \subseteq BasisPoints

VARIABLES payment, shares

vars == <<payment, shares>>

Init == payment \in Payments /\ shares = <<>>

AddPayee(bp) ==
    /\ Len(shares) < MaxPayees
    /\ shares' = Append(shares, bp)
    /\ UNCHANGED payment

Next == \E bp \in Shares : AddPayee(bp)

Spec == Init /\ [][Next]_vars
----------------------------------------------------------------------------
total == payment.amount_minor_units
outcome == SplitBps(payment, shares)
unchecked == SplitBpsIn(FALSE, payment, shares)
PartsOf(split) == [i \in DOMAIN split.value |-> split.value[i].amount_minor_units]
parts == PartsOf(outcome)
Abs(x) == IF x < 0 THEN -x ELSE x

\* With overflow checks, a split pays out the payment to the last minor unit:
\* rounding neither makes nor loses money.
SplitConserves == IsOk(outcome) => Total(parts) = total

\* Without overflow checks products wrap, and still the parts add up to the
\* payment as the machine adds: the remainder makes up for every cut, right or
\* wrong.
SplitConservesWrapped == IsOk(unchecked) => Wrap(Total(PartsOf(unchecked))) = total

\* What a host holds after each of the parts in turn: the fold of a checked
\* operation, as long as it succeeds.
Subtotals(op(_, _), start) ==
    LET sub[i \in 0..Len(shares)] ==
            IF i = 0 THEN Ok(start)
            ELSE IF IsOk(sub[i - 1]) THEN op(sub[i - 1].value, outcome.value[i])
            ELSE sub[i - 1]
    IN  sub

nothing == MoneyOf(0, payment.currency)

\* The parts can be paid out in order with the checked add() and taken back
\* with the checked subtract(): no subtotal overflows on the way up to the
\* payment or down to zero, and no part has the other sign.
PayoutAddsUp ==
    IsOk(outcome) =>
        /\ Subtotals(Add, nothing)[Len(shares)] = Ok(payment)
        /\ Subtotals(Subtract, payment)[Len(shares)] = Ok(nothing)
        /\ \A i \in DOMAIN shares : total * parts[i] >= 0

\* Every payee but the first gets what apply_modifier_bps makes of its share;
\* the first gets the remainder too, less than one minor unit per payee.
SplitFair ==
    IsOk(outcome) =>
        /\ \A i \in 2..Len(shares) :
              ApplyModifierBps(payment, shares[i]) = Ok(outcome.value[i])
        /\ \A i \in DOMAIN shares : Abs(parts[i] * FullShare - total * shares[i])
              < FullShare * (IF i = 1 THEN Len(shares) ELSE 1)

\* A payment up to a ten-thousandth of the range never panics, and is split
\* when, and only when, its shares make up a whole.
SplitSafeRange ==
    Abs(total) * FullShare <= MaxI64 =>
        outcome.result = IF Total(shares) = FullShare THEN "Ok" ELSE "Err"
=============================================================================
