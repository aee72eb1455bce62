----------------------------- MODULE MachineInt -----------------------------
(***************************************************************************)
(* Rust's i64, at a width a run can enumerate.  The checked_* operations   *)
(* return None outside the range; + and * panic in a build with overflow   *)
(* checks (debug, the tests) and wrap in one without (release): no profile *)
(* of the workspace's Cargo.toml says otherwise.                           *)
(***************************************************************************)
EXTENDS Integers, Sequences, Sums

CONSTANTS
    MaxI64,             \* the largest value (2^63 - 1 in the code)
    OverflowChecks      \* whether the build panics on overflow

ASSUME MachineIntAssumption == MaxI64 \in Nat /\ OverflowChecks \in BOOLEAN

MinI64 == -MaxI64 - 1

Fits(x) == MinI64 <= x /\ x <= MaxI64

\* The value x leaves in the register when nothing checks it.
Wrap(x) == ((x - MinI64) % (2 * (MaxI64 + 1))) + MinI64

\* Integer division of the language: towards zero, for a positive divisor.
TruncDiv(x, d) == IF x >= 0 THEN x \div d ELSE -((-x) \div d)

\* What a call returns, or that it does not return.
Ok(v) == [result |-> "Ok", value |-> v]
Err(e) == [result |-> "Err", error |-> e]
Panic == [result |-> "Panic"]

IsOk(r) == r.result = "Ok"
=============================================================================
