------------------------------ MODULE Finality ------------------------------
(***************************************************************************)
(* crates/verity-finality: whether a settled payment can still be undone.  *)
(*                                                                         *)
(* A FinalityClass is a value: reverse, confirm and check_window_expiry    *)
(* take &self and return a new class, so every party that was given the    *)
(* class of a settlement moves a copy of its own.  An event (a chargeback) *)
(* is reported with the instant it happened at, which may be long past     *)
(* when the report is processed; check_window_expiry is given the present. *)
(***************************************************************************)
EXTENDS Naturals

CONSTANTS
    Holders,        \* the parties that hold a copy of the class (external)
    Reasons,        \* the reversal reasons told apart
    Window,         \* length of Stripe's reversal window (120 days in the code)
    ConfirmBy,      \* time a USDC transfer is given to confirm (5 minutes)
    MaxTime         \* bound on the clock

ASSUME FinalityAssumption ==
    Window \in Nat /\ ConfirmBy \in Nat /\ MaxTime \in Nat

VARIABLES
    clock,          \* the present
    settled,        \* the adapter a payment was settled with, and when
    held,           \* each holder's copy of its finality class
    confirmed       \* the holders whose confirm() returned Ok (history)

vars == <<clock, settled, held, confirmed>>

\* CanonicalTimestamp: is_before, and is_expired, which reads the present itself.
IsBefore(t, other) == t < other
IsExpired(t) == IsBefore(t, clock)

AdapterType == {"Stripe", "UsdcBase", "UsdcEthereum", "Test"}

Final == [class |-> "Final"]
WithinReversalWindow(e) == [class |-> "WithinReversalWindow", reversal_window_expires |-> e]
PendingConfirmation(e) == [class |-> "PendingConfirmation", expected_confirmation_by |-> e]
Reversed(at, reason, original) ==
    [class |-> "Reversed", reversed_at |-> at, reason |-> reason, original_finality |-> original]

OpenClass ==
    [class : {"WithinReversalWindow"}, reversal_window_expires : Nat] \cup
    [class : {"PendingConfirmation"}, expected_confirmation_by : Nat]

ReversedClass ==
    [class : {"Reversed"}, reversed_at : Nat, reason : Reasons, original_finality : OpenClass]

FinalityClass == {Final} \cup OpenClass \cup ReversedClass

InWindow(f) == f.class = "WithinReversalWindow"
IsReversible(f) == InWindow(f)
IsFinal(f) == f.class = "Final"

\* AdapterType::default_finality
DefaultFinality(adapter, settled_at) ==
    CASE adapter = "Stripe" -> WithinReversalWindow(settled_at + Window)
      [] adapter \in {"UsdcBase", "UsdcEthereum"} -> PendingConfirmation(settled_at + ConfirmBy)
      [] adapter = "Test" -> Final

\* Seeded faults: the last instant of the window belongs to both sides; a
\* reversed outcome is reversed again; a class that is not pending is confirmed.
ReverseOkAtExpiry(f, t) == InWindow(f) /\ t <= f.reversal_window_expires
ReverseOkTwice(f, t) == f.class \in {"WithinReversalWindow", "Reversed"}
ConfirmOkInWindow(f) == f.class \in {"PendingConfirmation", "WithinReversalWindow"}

\* The Ok arms of reverse and confirm; in every other arm they return Err.
ReverseOk(f, t) == InWindow(f) /\ IsBefore(t, f.reversal_window_expires)
ConfirmOk(f) == f.class = "PendingConfirmation"

\* Seeded faults: the last instant of the window counts as past it; a pending
\* confirmation is taken for final when its time is over.
ExpiredAtLastInstant(f, now) == InWindow(f) /\ now + 1 >= f.reversal_window_expires
ExpiredAtPending(f, now) ==
    \/ InWindow(f) /\ ~IsBefore(now, f.reversal_window_expires)
    \/ f.class = "PendingConfirmation" /\ ~IsBefore(now, f.expected_confirmation_by)

\* The arm of check_window_expiry that makes a class final.
ExpiredAt(f, now) == InWindow(f) /\ ~IsBefore(now, f.reversal_window_expires)
----------------------------------------------------------------------------
Init ==
    \E adapter \in AdapterType, at \in 0..MaxTime :
        /\ settled = [adapter |-> adapter, at |-> at]
        /\ clock = at
        /\ held = [h \in Holders |-> DefaultFinality(adapter, at)]
        /\ confirmed = {}

Tick == clock < MaxTime /\ clock' = clock + 1 /\ UNCHANGED <<settled, held, confirmed>>

\* reverse(reason, t), for an event reported at or after the instant t it
\* happened at.
Reverse(h, reason, t) ==
    /\ ReverseOk(held[h], t)
    /\ held' = [held EXCEPT ![h] = Reversed(t, reason, held[h])]
    /\ UNCHANGED <<clock, settled, confirmed>>

ReverseErr(h, t) == ~ReverseOk(held[h], t) /\ UNCHANGED vars

Confirm(h) ==
    /\ ConfirmOk(held[h])
    /\ held' = [held EXCEPT ![h] = Final]
    /\ confirmed' = confirmed \cup {h}
    /\ UNCHANGED <<clock, settled>>

ConfirmErr(h) == ~ConfirmOk(held[h]) /\ UNCHANGED vars

CheckWindowExpiry(h) ==
    /\ held' = [held EXCEPT ![h] = IF ExpiredAt(held[h], clock) THEN Final ELSE held[h]]
    /\ UNCHANGED <<clock, settled, confirmed>>

Next ==
    \/ Tick
    \/ \E h \in Holders :
          \/ \E t \in 0..clock : (\E reason \in Reasons : Reverse(h, reason, t)) \/ ReverseErr(h, t)
          \/ Confirm(h)
          \/ ConfirmErr(h)
          \/ CheckWindowExpiry(h)

Spec == Init /\ [][Next]_vars
----------------------------------------------------------------------------
TypeOK ==
    /\ clock \in Nat
    /\ settled \in [adapter : AdapterType, at : Nat]
    /\ held \in [Holders -> FinalityClass]
    /\ confirmed \subseteq Holders

\* A reversed copy is a reversal of the window its payment was settled with,
\* by an event inside that window: an audit can recompute it from the record.
\* A USDC or a test settlement is therefore never reversed.
ReversedInsideWindow ==
    \A h \in Holders : held[h].class = "Reversed" =>
        /\ settled.adapter = "Stripe"
        /\ held[h].original_finality = WithinReversalWindow(settled.at + Window)
        /\ held[h].reversed_at < settled.at + Window
        /\ held[h].reversed_at <= clock

\* A chargeback can no longer be recorded once a copy is final, so no copy of
\* a Stripe settlement may be final before its window is over.
NotFinalEarly ==
    \A h \in Holders :
        IsFinal(held[h]) /\ settled.adapter = "Stripe" => clock >= settled.at + Window

\* Final and reversed are verdicts: whatever is reported or checked later, in
\* whatever order, a copy that reached one keeps it as it is.
VerdictStable ==
    [][\A h \in Holders : held[h].class \in {"Final", "Reversed"} => held'[h] = held[h]]_vars

\* Copies disagree for good (one final, one reversed) only if one of them was
\* checked after the window and the other got the report of an earlier event:
\* while the window is open, no order of reports and checks splits them.
SplitOnlyAfterWindow ==
    \A g, h \in Holders :
        IsFinal(held[g]) /\ held[h].class = "Reversed" =>
            held[h].original_finality.reversal_window_expires <= clock

\* At every instant a copy in its window has one way out, never none and never
\* two: an event of now reverses it, or a check of now makes it final.  That
\* is_reversible() stays true past the window is therefore for the check to
\* mend, and is_expired() of the window's end never says so before the check.
OneWayOut ==
    \A h \in Holders : IsReversible(held[h]) =>
        /\ ReverseOk(held[h], clock) <=> ~ExpiredAt(held[h], clock)
        /\ IsExpired(held[h].reversal_window_expires) => ExpiredAt(held[h], clock)

\* A copy of a USDC settlement is final only if it was confirmed: its expected
\* time is read by nobody, and a pending copy outlasts it however often expiry
\* is checked and reversals are reported.
FinalOnlyConfirmed ==
    \A h \in Holders : settled.adapter \in {"UsdcBase", "UsdcEthereum"} =>
        /\ IsFinal(held[h]) <=> h \in confirmed
        /\ ~IsFinal(held[h]) => held[h] = DefaultFinality(settled.adapter, settled.at)
=============================================================================
