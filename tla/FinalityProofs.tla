--------------------------- MODULE FinalityProofs ---------------------------
(***************************************************************************)
(* What holds of Finality for any number of holders, any window and any    *)
(* order of reports and checks.                                            *)
(***************************************************************************)
EXTENDS Finality, TLAPS

\* What a copy may be, given how its payment was settled.
CopyOK(f) ==
    /\ InWindow(f) => settled.adapter = "Stripe" /\ f = WithinReversalWindow(settled.at + Window)
    /\ f.class = "PendingConfirmation" => settled.adapter \in {"UsdcBase", "UsdcEthereum"}
    /\ f.class = "Reversed" =>
          /\ settled.adapter = "Stripe"
          /\ f.original_finality = WithinReversalWindow(settled.at + Window)
          /\ f.reversed_at < settled.at + Window
          /\ f.reversed_at <= clock
    /\ IsFinal(f) /\ settled.adapter = "Stripe" => clock >= settled.at + Window

\* A USDC copy is the one it started as until it is confirmed, and final then.
ConfirmationOK(f, c) ==
    settled.adapter \in {"UsdcBase", "UsdcEthereum"} =>
        IF c THEN f = Final ELSE f = PendingConfirmation(settled.at + ConfirmBy)

IInv ==
    /\ TypeOK
    /\ \A h \in Holders : CopyOK(held[h]) /\ ConfirmationOK(held[h], h \in confirmed)

\* What a class is once it is known to be in its window.
LEMMA WindowShape ==
    ASSUME NEW f \in FinalityClass, InWindow(f)
    PROVE  f \in OpenClass /\ f.reversal_window_expires \in Nat
  BY DEF FinalityClass, OpenClass, ReversedClass, Final, InWindow

\* Every copy starts as the class the adapter gives its settlement.
LEMMA InitIInv == Init => IInv
  <1>. SUFFICES ASSUME NEW adapter \in AdapterType, NEW at \in 0..MaxTime,
                       settled = [adapter |-> adapter, at |-> at],
                       clock = at,
                       held = [h \in Holders |-> DefaultFinality(adapter, at)],
                       confirmed = {}
                PROVE  IInv
    BY DEF Init
  <1>1. at \in Nat /\ settled.adapter = adapter /\ settled.at = at
    BY FinalityAssumption
  <1>2. /\ at + Window \in Nat
        /\ at + ConfirmBy \in Nat
    BY <1>1, FinalityAssumption
  <1>. DEFINE f == DefaultFinality(adapter, at)
  <1>3. f \in FinalityClass /\ CopyOK(f) /\ ConfirmationOK(f, FALSE)
    <2>1. CASE adapter = "Stripe"
      <3>1. f = [class |-> "WithinReversalWindow", reversal_window_expires |-> at + Window]
        BY <2>1 DEF DefaultFinality, WithinReversalWindow
      <3>. HIDE DEF f
      <3>2. f \in FinalityClass
        BY <3>1, <1>2 DEF FinalityClass, OpenClass
      <3>3. CopyOK(f)
        BY <3>1, <2>1, <1>1 DEF CopyOK, InWindow, IsFinal, WithinReversalWindow
      <3>4. ConfirmationOK(f, FALSE)
        BY <2>1, <1>1 DEF ConfirmationOK
      <3>. QED BY <3>2, <3>3, <3>4
    <2>2. CASE adapter \in {"UsdcBase", "UsdcEthereum"}
      <3>1. f = [class |-> "PendingConfirmation", expected_confirmation_by |-> at + ConfirmBy]
        BY <2>2 DEF DefaultFinality, PendingConfirmation
      <3>. HIDE DEF f
      <3>2. f \in FinalityClass
        BY <3>1, <1>2 DEF FinalityClass, OpenClass
      <3>3. CopyOK(f)
        BY <3>1, <2>2, <1>1 DEF CopyOK, InWindow, IsFinal
      <3>4. ConfirmationOK(f, FALSE)
        BY <3>1, <1>1 DEF ConfirmationOK, PendingConfirmation
      <3>. QED BY <3>2, <3>3, <3>4
    <2>3. CASE adapter = "Test"
      <3>1. f = [class |-> "Final"]
        BY <2>3 DEF DefaultFinality, Final
      <3>. HIDE DEF f
      <3>. QED BY <3>1, <2>3, <1>1
           DEF CopyOK, ConfirmationOK, InWindow, IsFinal, FinalityClass, Final
    <2>. QED BY <2>1, <2>2, <2>3 DEF AdapterType
  <1>4. TypeOK
    BY <1>1, <1>3 DEF TypeOK
  <1>5. ASSUME NEW h \in Holders PROVE CopyOK(held[h]) /\ ConfirmationOK(held[h], h \in confirmed)
    <2>1. held[h] = f
      OBVIOUS
    <2>2. (h \in confirmed) = FALSE
      OBVIOUS
    <2>. HIDE DEF f
    <2>. QED BY <1>3, <2>1, <2>2, Zenon
  <1>. QED BY <1>4, <1>5 DEF IInv

\* One copy moves, everything else stays.
LEMMA MoveCopy ==
    ASSUME IInv, NEW h \in Holders, NEW f \in FinalityClass, CopyOK(f),
           ConfirmationOK(f, h \in confirmed'),
           held' = [held EXCEPT ![h] = f], UNCHANGED <<clock, settled>>,
           confirmed' \in {confirmed, confirmed \cup {h}}
    PROVE  IInv'
  <1>1. held' \in [Holders -> FinalityClass] /\ confirmed' \subseteq Holders
    BY DEF IInv, TypeOK
  <1>2. ASSUME NEW g \in Holders
        PROVE  (CopyOK(held[g]) /\ ConfirmationOK(held[g], g \in confirmed))'
    <2>1. CopyOK(held'[g])
      BY DEF IInv, TypeOK
    <2>2. ConfirmationOK(held'[g], g \in confirmed')
      <3>1. CASE g = h
        BY <3>1 DEF IInv, TypeOK
      <3>2. CASE g # h
        <4>1. held'[g] = held[g] /\ (g \in confirmed' <=> g \in confirmed)
          BY <3>2 DEF IInv, TypeOK
        <4>2. ConfirmationOK(held[g], g \in confirmed)
          BY DEF IInv
        <4>. QED BY <4>1, <4>2 DEF ConfirmationOK
      <3>. QED BY <3>1, <3>2
    <2>. QED BY <2>1, <2>2 DEF CopyOK, ConfirmationOK
  <1>. QED BY <1>1, <1>2 DEF IInv, TypeOK

\* Time passing, a reversal, a confirmation or an expiry check keeps it.
LEMMA StepIInv == IInv /\ [Next]_vars => IInv'
  <1>. SUFFICES ASSUME IInv, [Next]_vars PROVE IInv'
    OBVIOUS
  <1>0. /\ clock \in Nat /\ settled.at + Window \in Nat
        /\ \A h \in Holders : held[h] \in FinalityClass /\ CopyOK(held[h])
        /\ \A h \in Holders : ConfirmationOK(held[h], h \in confirmed)
    BY FinalityAssumption DEF IInv, TypeOK
  <1>1. CASE Tick
    <2>1. clock' \in Nat /\ clock' > clock /\ UNCHANGED <<settled, held, confirmed>>
      BY <1>1, <1>0 DEF Tick
    <2>2. ASSUME NEW h \in Holders PROVE CopyOK(held[h])'
      <3>1. held[h].class = "Reversed" => held[h].reversed_at \in Nat
        BY <1>0 DEF FinalityClass, OpenClass, ReversedClass, Final
      <3>. QED BY <2>1, <3>1, <1>0 DEF CopyOK
    <2>3. ASSUME NEW h \in Holders PROVE ConfirmationOK(held[h], h \in confirmed)'
      BY <2>1, <1>0 DEF ConfirmationOK
    <2>. QED BY <2>1, <2>2, <2>3 DEF IInv, TypeOK
  <1>2. ASSUME NEW h \in Holders, NEW t \in 0..clock, NEW reason \in Reasons, Reverse(h, reason, t)
        PROVE  IInv'
    <2>1. InWindow(held[h]) /\ t < held[h].reversal_window_expires
      BY <1>2 DEF Reverse, ReverseOk, IsBefore
    <2>2. /\ settled.adapter = "Stripe"
          /\ held[h] = WithinReversalWindow(settled.at + Window)
      BY <2>1, <1>0 DEF CopyOK
    <2>3. t < settled.at + Window
      BY <2>1, <2>2 DEF WithinReversalWindow
    <2>. DEFINE f == Reversed(t, reason, held[h])
    <2>4. /\ f.class = "Reversed" /\ f.reversed_at = t /\ f.original_finality = held[h]
          /\ f \in FinalityClass
      <3>1. held[h] \in OpenClass
        BY <2>1, <1>0, WindowShape
      <3>2. t \in Nat
        BY <1>0
      <3>. QED BY <3>1, <3>2 DEF Reversed, FinalityClass, ReversedClass
    <2>5. held' = [held EXCEPT ![h] = f] /\ UNCHANGED <<clock, settled, confirmed>>
      BY <1>2 DEF Reverse
    <2>. HIDE DEF f
    <2>6. CopyOK(f)
      BY <2>2, <2>3, <2>4, <1>0 DEF CopyOK, InWindow, IsFinal
    <2>7. ConfirmationOK(f, h \in confirmed')
      BY <2>2 DEF ConfirmationOK
    <2>. QED BY <2>4, <2>5, <2>6, <2>7, MoveCopy
  <1>3. ASSUME NEW h \in Holders, Confirm(h)
        PROVE  IInv'
    <2>1. settled.adapter \in {"UsdcBase", "UsdcEthereum"}
      BY <1>3, <1>0 DEF Confirm, ConfirmOk, CopyOK
    <2>2. Final \in FinalityClass /\ CopyOK(Final)
      BY <2>1 DEF FinalityClass, Final, CopyOK, InWindow, IsFinal
    <2>3. /\ ConfirmationOK(Final, h \in confirmed')
          /\ confirmed' \in {confirmed, confirmed \cup {h}}
          /\ held' = [held EXCEPT ![h] = Final] /\ UNCHANGED <<clock, settled>>
      BY <1>3 DEF Confirm, ConfirmationOK
    <2>. QED BY <2>2, <2>3, MoveCopy
  <1>4. ASSUME NEW h \in Holders, CheckWindowExpiry(h)
        PROVE  IInv'
    <2>1. CASE ExpiredAt(held[h], clock)
      <3>1. settled.adapter = "Stripe" /\ clock >= settled.at + Window
        BY <2>1, <1>0 DEF ExpiredAt, IsBefore, CopyOK, WithinReversalWindow
      <3>2. Final \in FinalityClass /\ CopyOK(Final)
        BY <3>1 DEF FinalityClass, Final, CopyOK, InWindow, IsFinal
      <3>3. ConfirmationOK(Final, h \in confirmed')
        BY <3>1 DEF ConfirmationOK
      <3>. QED BY <2>1, <3>2, <3>3, <1>4, MoveCopy DEF CheckWindowExpiry
    <2>2. CASE ~ExpiredAt(held[h], clock)
      <3>1. /\ held' = [held EXCEPT ![h] = held[h]]
            /\ UNCHANGED <<clock, settled, confirmed>>
        BY <2>2, <1>4 DEF CheckWindowExpiry
      <3>. QED BY <3>1, <1>0, MoveCopy
    <2>. QED BY <2>1, <2>2
  <1>5. CASE UNCHANGED vars
    BY <1>5 DEF vars, IInv, TypeOK, CopyOK, ConfirmationOK
  <1>. QED BY <1>1, <1>2, <1>3, <1>4, <1>5 DEF Next, ReverseErr, ConfirmErr

\* The inductive invariant holds of every copy, always.
LEMMA SpecIInv == Spec => []IInv
  BY InitIInv, StepIInv, PTL DEF Spec

\* Every copy is a finality class; a reversal never wraps a reversal.
THEOREM TypeCorrect == Spec => []TypeOK
  <1>1. IInv => TypeOK BY DEF IInv
  <1>. QED BY <1>1, SpecIInv, PTL

\* What follows of the copies in a state: the rules of the run, from the invariant.
CopyRules ==
    /\ ReversedInsideWindow /\ NotFinalEarly /\ SplitOnlyAfterWindow
    /\ OneWayOut /\ FinalOnlyConfirmed

\* The inductive invariant implies each of them.
LEMMA RulesHold == IInv => CopyRules
  <1>. SUFFICES ASSUME IInv PROVE CopyRules
    OBVIOUS
  <1>1. ReversedInsideWindow /\ NotFinalEarly
    BY DEF IInv, CopyOK, ReversedInsideWindow, NotFinalEarly
  <1>2. SplitOnlyAfterWindow
    <2>. SUFFICES ASSUME NEW g \in Holders, NEW h \in Holders,
                         IsFinal(held[g]), held[h].class = "Reversed"
                  PROVE  held[h].original_finality.reversal_window_expires <= clock
      BY DEF SplitOnlyAfterWindow
    <2>1. /\ held[h].original_finality = WithinReversalWindow(settled.at + Window)
          /\ clock >= settled.at + Window
      BY DEF IInv, CopyOK
    <2>. QED BY <2>1 DEF WithinReversalWindow
  <1>3. OneWayOut
    <2>. SUFFICES ASSUME NEW h \in Holders, IsReversible(held[h])
                  PROVE  /\ ReverseOk(held[h], clock) <=> ~ExpiredAt(held[h], clock)
                         /\ IsExpired(held[h].reversal_window_expires) => ExpiredAt(held[h], clock)
      BY DEF OneWayOut
    <2>1. held[h].reversal_window_expires \in Nat /\ clock \in Nat /\ InWindow(held[h])
      BY WindowShape DEF IInv, TypeOK, IsReversible
    <2>. QED BY <2>1 DEF ReverseOk, ExpiredAt, IsExpired, IsBefore
  <1>4. FinalOnlyConfirmed
    <2>. SUFFICES ASSUME NEW h \in Holders, settled.adapter \in {"UsdcBase", "UsdcEthereum"}
                  PROVE  /\ IsFinal(held[h]) <=> h \in confirmed
                         /\ ~IsFinal(held[h]) =>
                               held[h] = DefaultFinality(settled.adapter, settled.at)
      BY DEF FinalOnlyConfirmed
    <2>1. DefaultFinality(settled.adapter, settled.at) = PendingConfirmation(settled.at + ConfirmBy)
      BY DEF DefaultFinality
    <2>. QED BY <2>1 DEF IInv, ConfirmationOK, IsFinal, Final, PendingConfirmation
  <1>. QED BY <1>1, <1>2, <1>3, <1>4 DEF CopyRules

\* No step moves a copy that is final or reversed.
LEMMA VerdictStays ==
    ASSUME IInv, [Next]_vars, NEW h \in Holders, held[h].class \in {"Final", "Reversed"}
    PROVE  held'[h] = held[h]
  <1>0. held \in [Holders -> FinalityClass] /\ ~InWindow(held[h]) /\ ~ConfirmOk(held[h])
    BY DEF IInv, TypeOK, InWindow, ConfirmOk
  <1>1. ASSUME NEW g \in Holders, NEW t, NEW reason, Reverse(g, reason, t)
        PROVE  held'[h] = held[h]
    BY <1>0, <1>1 DEF Reverse, ReverseOk
  <1>2. ASSUME NEW g \in Holders, Confirm(g)
        PROVE  held'[h] = held[h]
    BY <1>0, <1>2 DEF Confirm
  <1>3. ASSUME NEW g \in Holders, CheckWindowExpiry(g)
        PROVE  held'[h] = held[h]
    BY <1>0, <1>3 DEF CheckWindowExpiry, ExpiredAt
  <1>. QED BY <1>1, <1>2, <1>3 DEF Next, Tick, ReverseErr, ConfirmErr, vars
----------------------------------------------------------------------------
\* Only a Stripe settlement is ever reversed, by an event inside its window.
THEOREM ReversedInside == Spec => []ReversedInsideWindow
  <1>1. IInv => ReversedInsideWindow BY RulesHold DEF CopyRules
  <1>. QED BY <1>1, SpecIInv, PTL

\* No copy of a Stripe settlement is final before the window is over.
THEOREM NeverFinalEarly == Spec => []NotFinalEarly
  <1>1. IInv => NotFinalEarly BY RulesHold DEF CopyRules
  <1>. QED BY <1>1, SpecIInv, PTL

\* Copies of one settlement can end up final and reversed only after the window.
THEOREM NeverSplitInWindow == Spec => []SplitOnlyAfterWindow
  <1>1. IInv => SplitOnlyAfterWindow BY RulesHold DEF CopyRules
  <1>. QED BY <1>1, SpecIInv, PTL

\* A copy in its window can be reversed now, or made final now, and not both.
THEOREM AlwaysOneWayOut == Spec => []OneWayOut
  <1>1. IInv => OneWayOut BY RulesHold DEF CopyRules
  <1>. QED BY <1>1, SpecIInv, PTL

\* A USDC copy is pending as it was at first until it is confirmed.
THEOREM FinalByConfirmation == Spec => []FinalOnlyConfirmed
  <1>1. IInv => FinalOnlyConfirmed BY RulesHold DEF CopyRules
  <1>. QED BY <1>1, SpecIInv, PTL

\* A copy that is final or reversed never changes again.
THEOREM VerdictsStay == Spec => VerdictStable
  <1>1. IInv /\ [Next]_vars =>
           [\A h \in Holders : held[h].class \in {"Final", "Reversed"} => held'[h] = held[h]]_vars
    BY VerdictStays
  <1>. QED BY <1>1, SpecIInv, PTL DEF Spec, VerdictStable
=============================================================================
