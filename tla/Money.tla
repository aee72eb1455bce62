-------------------------------- MODULE Money --------------------------------
(***************************************************************************)
(* crates/verity-kernel, money.rs and basis_points.rs: amounts of minor    *)
(* units in a currency, and their division by basis points.                *)
(***************************************************************************)
EXTENDS MachineInt

CONSTANT FullShare      \* the basis points of a whole (10000 in the code)

ASSUME MoneyAssumption == FullShare \in Nat \ {0}

Currency == {"USD", "EUR", "GBP"}

MoneyOf(amount, currency) == [amount_minor_units |-> amount, currency |-> currency]

Monies == {m \in [amount_minor_units : Int, currency : Currency] : Fits(m.amount_minor_units)}

BasisPoints == 0..FullShare

\* What add and subtract make of the exact result: the currencies are compared
\* first, then the operation is a checked one.
Checked(m, other, exact) ==
    IF m.currency # other.currency THEN Err("CurrencyMismatch")
    ELSE IF ~Fits(exact) THEN Err("ArithmeticOverflow")
    ELSE Ok(MoneyOf(exact, m.currency))

Add(m, other) == Checked(m, other, m.amount_minor_units + other.amount_minor_units)
Subtract(m, other) == Checked(m, other, m.amount_minor_units - other.amount_minor_units)

\* Seeded fault: a basis point may be missing, as it is from three thirds.
ValidSharesNearly(shares) == Total(shares) \in {FullShare - 1, FullShare}

ValidShares(shares) == Total(shares) = FullShare

\* total * bp / 10000, the product in a register of its own.
Cut(total, bp) == TruncDiv(Wrap(total * bp), FullShare)

\* Seeded faults: every payee gets a remainder; no payee does; the last one does.
WithRemainderAll(cuts, remainder) == [i \in DOMAIN cuts |-> Wrap(cuts[i] + remainder)]
WithRemainderNone(cuts, remainder) == cuts
WithRemainderLast(cuts, remainder) == [cuts EXCEPT ![Len(cuts)] = Wrap(@ + remainder)]

\* The remainder goes to the first payee, whatever its share.
WithRemainder(cuts, remainder) == [cuts EXCEPT ![1] = Wrap(@ + remainder)]

(***************************************************************************)
(* split_bps: shares are validated, then each payee's cut is computed; the *)
(* remainder of what the cuts leave is added to the first one.  A build    *)
(* without overflow checks goes on with what is left in the registers.     *)
(***************************************************************************)
SplitBpsIn(checked, m, shares) ==
    LET total == m.amount_minor_units
        cuts == [i \in 1..Len(shares) |-> Cut(total, shares[i])]
        distributed == Total(cuts)
        overflows ==
            \/ \E i \in 1..Len(shares) : ~Fits(total * shares[i]) \/ ~Fits(Running(cuts)[i])
            \/ ~Fits(total - distributed)
            \/ ~Fits(cuts[1] + (total - distributed))
        amounts == WithRemainder(cuts, Wrap(total - distributed))
    IN  IF ~ValidShares(shares) THEN Err("SharesSumInvalid")
        ELSE IF checked /\ overflows THEN Panic
        ELSE Ok([i \in 1..Len(shares) |-> MoneyOf(amounts[i], m.currency)])

SplitBps(m, shares) == SplitBpsIn(OverflowChecks, m, shares)

\* apply_modifier_bps
ApplyModifierBps(m, bp) ==
    IF OverflowChecks /\ ~Fits(m.amount_minor_units * bp) THEN Panic
    ELSE Ok(MoneyOf(Cut(m.amount_minor_units, bp), m.currency))
=============================================================================
