--------------------------- MODULE OutcomeProofs ---------------------------
(***************************************************************************)
(* What holds of OutcomeStateMachine for histories of every length.        *)
(***************************************************************************)
EXTENDS OutcomeStateMachine, TLAPS

\* How far an outcome is from UNKNOWN along the rows of the table.
Rank(c) ==
    CASE c = "Unknown" -> 0 [] c = "Timeout" -> 1 [] c = "Disputed" -> 2
      [] c = "Reversed" -> 4 [] OTHER -> 3

\* While the decision is still open, timed out or disputed, nothing in the
\* history has settled it.
OpenIsUndecided ==
    current \in {"Unknown", "Timeout", "Disputed"} =>
        \A i \in DOMAIN history : history[i].to \notin Decided

\* Every step after UNKNOWN climbs, so the climb bounds the number of steps.
Climbing ==
    \A i \in DOMAIN history :
        history[i].to # "Unknown" => Len(history) - i <= Rank(current) - Rank(history[i].to)

IInv == TypeOK /\ HistoryIsPath /\ OpenIsUndecided /\ DecidedOnce /\ Climbing

\* Every row of the table climbs, but for UNKNOWN to UNKNOWN.
LEMMA RowsClimb ==
    ASSUME NEW from \in OutcomeClassification, NEW to \in OutcomeClassification,
           IsValidTransition(from, to)
    PROVE  \/ from = "Unknown" /\ to = "Unknown"
           \/ Rank(from) + 1 <= Rank(to)
  BY DEF IsValidTransition, FromUnknown, FromDecided, FromDisputed, FromTimeout,
         OutcomeClassification, Decided, Rank

\* The table settles only what is open or disputed, and leaves a settled
\* decision only by reversing it.
LEMMA RowsDecide ==
    ASSUME NEW from \in OutcomeClassification, NEW to \in OutcomeClassification,
           IsValidTransition(from, to)
    PROVE  /\ to \in Decided => from \in {"Unknown", "Disputed"}
           /\ to \in {"Unknown", "Timeout", "Disputed"} => from \in {"Unknown", "Timeout"}
  BY DEF IsValidTransition, FromUnknown, FromDecided, FromDisputed, FromTimeout,
         OutcomeClassification, Decided

\* An appended entry is the last one and the entries before it stay.
LEMMA Pushed ==
    ASSUME NEW to \in OutcomeClassification, TypeOK, TransitionOk(to)
    PROVE  /\ Len(history) \in Nat
           /\ history' \in Seq(OutcomeTransition)
           /\ Len(history') = Len(history) + 1
           /\ DOMAIN history = 1..Len(history)
           /\ DOMAIN history' = 1..(Len(history) + 1)
           /\ history'[Len(history) + 1] = [from |-> current, to |-> to]
           /\ \A i \in DOMAIN history : history'[i] = history[i]
  <1>1. [from |-> current, to |-> to] \in OutcomeTransition
    BY DEF TypeOK, OutcomeTransition
  <1>2. history \in Seq(OutcomeTransition)
    BY DEF TypeOK
  <1>3. history' = Append(history, [from |-> current, to |-> to])
    BY DEF TransitionOk
  <1>. QED BY <1>1, <1>2, <1>3

\* A new machine satisfies the inductive invariant.
LEMMA InitIInv == Init => IInv
  BY MaxHistoryAssumption
  DEF Init, IInv, TypeOK, HistoryIsPath, OpenIsUndecided, DecidedOnce, Climbing,
      OutcomeClassification

\* transition() keeps it, whether it returns Ok or Err.
LEMMA StepIInv == IInv /\ [Next]_vars => IInv'
  <1>. SUFFICES ASSUME IInv, [Next]_vars PROVE IInv'
    OBVIOUS
  <1>1. ASSUME NEW to \in OutcomeClassification, TransitionOk(to)
        PROVE  IInv'
    <2>. DEFINE n == Len(history)
    <2>1. TypeOK /\ HistoryIsPath /\ OpenIsUndecided /\ DecidedOnce /\ Climbing
      BY DEF IInv
    <2>2. /\ n \in Nat /\ n < MaxHistory
          /\ current \in OutcomeClassification
          /\ IsValidTransition(current, to)
          /\ current' = to
      BY <1>1, <2>1, Pushed DEF TypeOK, TransitionOk
    <2>3. /\ history' \in Seq(OutcomeTransition)
          /\ Len(history') = n + 1
          /\ DOMAIN history = 1..n
          /\ DOMAIN history' = 1..(n + 1)
          /\ history'[n + 1] = [from |-> current, to |-> to]
          /\ \A i \in DOMAIN history : history'[i] = history[i]
      BY <1>1, <2>1, Pushed
    <2>. HIDE DEF n
    <2>4. TypeOK'
      BY <2>2, <2>3, MaxHistoryAssumption DEF TypeOK
    <2>5. HistoryIsPath'
      <3>1. current' = history'[Len(history')].to /\ history' # <<>>
        BY <2>2, <2>3
      <3>2. ASSUME NEW i \in DOMAIN history'
            PROVE  /\ history'[i].from = IF i = 1 THEN "Unknown" ELSE history'[i - 1].to
                   /\ IsValidTransition(history'[i].from, history'[i].to)
        <4>1. CASE i \in DOMAIN history
          <5>1. i = 1 \/ i - 1 \in DOMAIN history
            BY <4>1, <2>2, <2>3
          <5>. QED BY <4>1, <5>1, <2>1, <2>3 DEF HistoryIsPath
        <4>2. CASE i = n + 1
          <5>1. current = IF n = 0 THEN "Unknown" ELSE history[n].to
            BY <2>1, <2>2, <2>3 DEF HistoryIsPath, n
          <5>2. n # 0 => history'[n] = history[n]
            BY <2>2, <2>3
          <5>. QED BY <4>2, <5>1, <5>2, <2>2, <2>3
        <4>. QED BY <4>1, <4>2, <2>2, <2>3
      <3>. QED BY <3>1, <3>2 DEF HistoryIsPath
    <2>6. to \in Decided => \A i \in DOMAIN history : history[i].to \notin Decided
      BY <2>1, <2>2, RowsDecide DEF OpenIsUndecided
    <2>7. OpenIsUndecided'
      <3>. SUFFICES ASSUME to \in {"Unknown", "Timeout", "Disputed"},
                           NEW i \in DOMAIN history'
                    PROVE  history'[i].to \notin Decided
        BY <2>2 DEF OpenIsUndecided
      <3>1. CASE i \in DOMAIN history
        BY <3>1, <2>1, <2>2, <2>3, RowsDecide DEF OpenIsUndecided
      <3>2. CASE i = n + 1
        BY <3>2, <2>3 DEF Decided
      <3>. QED BY <3>1, <3>2, <2>2, <2>3
    <2>8. DecidedOnce'
      <3>. SUFFICES ASSUME NEW i \in DOMAIN history', NEW j \in DOMAIN history',
                           history'[i].to \in Decided, history'[j].to \in Decided
                    PROVE  i = j
        BY DEF DecidedOnce
      <3>1. CASE i \in DOMAIN history /\ j \in DOMAIN history
        BY <3>1, <2>1, <2>3 DEF DecidedOnce
      <3>2. CASE i = n + 1 \/ j = n + 1
        BY <3>2, <2>2, <2>3, <2>6
      <3>. QED BY <3>1, <3>2, <2>2, <2>3
    <2>9. Climbing'
      <3>. SUFFICES ASSUME NEW i \in DOMAIN history', history'[i].to # "Unknown"
                    PROVE  n + 1 - i <= Rank(to) - Rank(history'[i].to)
        BY <2>2, <2>3 DEF Climbing, Rank
      <3>1. \A c : Rank(c) \in 0..4
        BY DEF Rank
      <3>2. CASE i \in DOMAIN history
        <4>1. n - i <= Rank(current) - Rank(history[i].to)
          BY <3>2, <2>1, <2>3 DEF Climbing, n
        <4>2. /\ history[i].to \in OutcomeClassification
              /\ history[i].to # "Unknown"
          <5>1. history[i] \in OutcomeTransition
            BY <3>2, <2>1, <2>2, <2>3 DEF TypeOK
          <5>. QED BY <5>1, <3>2, <2>3 DEF OutcomeTransition
        <4>3. Rank(history[i].to) >= 1
          BY <4>2 DEF Rank
        <4>4. current # "Unknown"
          <5>1. Rank("Unknown") = 0
            BY DEF Rank
          <5>. QED BY <4>1, <4>3, <5>1, <3>1, <3>2, <2>2, <2>3
        <4>5. Rank(current) + 1 <= Rank(to)
          BY <4>4, <2>2, RowsClimb
        <4>. QED BY <4>1, <4>5, <3>1, <3>2, <2>2, <2>3
      <3>3. CASE i = n + 1
        BY <3>1, <3>3, <2>2, <2>3
      <3>. QED BY <3>2, <3>3, <2>2, <2>3
    <2>. QED BY <2>4, <2>5, <2>7, <2>8, <2>9 DEF IInv
  <1>2. CASE UNCHANGED vars
    BY <1>2 DEF IInv, TypeOK, HistoryIsPath, OpenIsUndecided, DecidedOnce, Climbing, vars
  <1>. QED BY <1>1, <1>2 DEF Next, TransitionErr

\* The inductive invariant holds after every sequence of calls.
LEMMA SpecIInv == Spec => []IInv
  BY InitIInv, StepIInv, PTL DEF Spec

\* The current outcome and every recorded step are outcomes of the enum.
THEOREM TypeCorrect == Spec => []TypeOK
  <1>1. IInv => TypeOK BY DEF IInv
  <1>. QED BY <1>1, SpecIInv, PTL

\* The recorded history is an unbroken path of the table's rows from UNKNOWN.
THEOREM PathRecorded == Spec => []HistoryIsPath
  <1>1. IInv => HistoryIsPath BY DEF IInv
  <1>. QED BY <1>1, SpecIInv, PTL

\* No sequence of calls of transition() settles a decision twice.
THEOREM SettledOnce == Spec => []DecidedOnce
  <1>1. IInv => DecidedOnce BY DEF IInv
  <1>. QED BY <1>1, SpecIInv, PTL

\* At most three transitions follow the first one that leaves UNKNOWN.
THEOREM Concludes == Spec => []ConcludesAfterUnknown
  <1>1. IInv => ConcludesAfterUnknown
    <2>. SUFFICES ASSUME IInv, NEW i \in DOMAIN history, history[i].to # "Unknown"
                  PROVE  Len(history) - i <= 3
      BY DEF ConcludesAfterUnknown
    <2>1. Len(history) - i <= Rank(current) - Rank(history[i].to)
      BY DEF IInv, Climbing
    <2>2. Rank(current) \in 0..4 /\ Rank(history[i].to) \in 1..4
      BY DEF Rank
    <2>3. Len(history) \in Nat /\ i \in Nat
      BY DEF IInv, TypeOK
    <2>. QED BY <2>1, <2>2, <2>3
  <1>. QED BY <1>1, SpecIInv, PTL

\* is_terminal() holds of exactly the outcomes no transition leaves.
THEOREM TerminalIsStuck == Spec => []TerminalIffStuck
  <1>1. IInv => TerminalIffStuck
    <2>. SUFFICES ASSUME current \in OutcomeClassification PROVE TerminalIffStuck
      BY DEF IInv, TypeOK
    <2>1. CASE current = "Reversed"
      BY <2>1 DEF TerminalIffStuck, IsTerminal, IsValidTransition, FromUnknown,
                  FromDecided, FromDisputed, FromTimeout, Decided
    <2>2. CASE current \in Decided
      <3>1. IsValidTransition(current, "Reversed")
        BY <2>2 DEF IsValidTransition, FromDecided
      <3>. QED BY <2>2, <3>1 DEF TerminalIffStuck, IsTerminal, OutcomeClassification, Decided
    <2>3. CASE current \in {"Unknown", "Timeout"}
      <3>1. IsValidTransition(current, "Disputed")
        BY <2>3 DEF IsValidTransition, FromUnknown, FromTimeout, OutcomeClassification
      <3>. QED BY <2>3, <3>1 DEF TerminalIffStuck, IsTerminal, OutcomeClassification
    <2>4. CASE current = "Disputed"
      <3>1. IsValidTransition(current, "Fail")
        BY <2>4 DEF IsValidTransition, FromDisputed, Decided
      <3>. QED BY <2>4, <3>1 DEF TerminalIffStuck, IsTerminal, OutcomeClassification
    <2>. QED BY <2>1, <2>2, <2>3, <2>4 DEF OutcomeClassification, Decided
  <1>. QED BY <1>1, SpecIInv, PTL
----------------------------------------------------------------------------
(***************************************************************************)
(* The machine implements DecisionLifecycle.  Under DecidedOnce the verdict *)
(* on record is the one decided step, whichever CHOOSE picks.              *)
(***************************************************************************)
LEMMA VerdictIsTheStep ==
    ASSUME DecidedOnce, NEW i \in DOMAIN history, history[i].to \in Decided
    PROVE  RecordedVerdict = history[i].to
  <1>1. DecidedSteps = {i}
    BY DEF DecidedSteps, DecidedOnce
  <1>. QED BY <1>1 DEF RecordedVerdict

\* Every call is a step of the lifecycle, or leaves it where it is.
LEMMA StepLifecycle == IInv /\ IInv' /\ [Next]_vars => [Lifecycle!Next]_(Lifecycle!vars)
  <1>. SUFFICES ASSUME IInv, IInv', [Next]_vars PROVE [Lifecycle!Next]_(Lifecycle!vars)
    OBVIOUS
  <1>1. ASSUME NEW to \in OutcomeClassification, TransitionOk(to)
        PROVE  [Lifecycle!Next]_(Lifecycle!vars)
    <2>. DEFINE n == Len(history)
    <2>1. /\ n \in Nat
          /\ DOMAIN history = 1..n
          /\ DOMAIN history' = 1..(n + 1)
          /\ history'[n + 1] = [from |-> current, to |-> to]
          /\ \A i \in DOMAIN history : history'[i] = history[i]
      BY <1>1, Pushed DEF IInv
    <2>. HIDE DEF n
    <2>2. /\ current \in OutcomeClassification
          /\ IsValidTransition(current, to)
          /\ current' = to
      BY <1>1 DEF TransitionOk, IInv, TypeOK
    <2>3. CASE to \in Decided
      <3>1. n + 1 \in DOMAIN history' /\ history'[n + 1].to = to
        BY <2>1
      <3>2. RecordedVerdict' = to
        <4>1. DecidedSteps' = {n + 1}
          BY <2>3, <3>1 DEF DecidedSteps, DecidedOnce, IInv
        <4>. QED BY <4>1, <3>1 DEF RecordedVerdict
      <3>3. current \in {"Unknown", "Disputed"}
        BY <2>2, <2>3, RowsDecide
      <3>4. PhaseOf(current) \in {"open", "contested"} /\ PhaseOf(current)' = "decided"
        BY <3>3, <2>2, <2>3 DEF PhaseOf, Decided
      <3>5. Lifecycle!Decide(to)
        BY <3>2, <3>4 DEF Lifecycle!Decide
      <3>. QED BY <3>5, <2>3 DEF Lifecycle!Next
    <2>4. CASE to \notin Decided
      <3>1. RecordedVerdict' = RecordedVerdict
        <4>1. DecidedSteps' = DecidedSteps
          BY <2>1, <2>4 DEF DecidedSteps
        <4>2. CASE DecidedSteps = {}
          BY <4>1, <4>2 DEF RecordedVerdict
        <4>3. CASE DecidedSteps # {}
          <5>1. PICK i \in DOMAIN history : history[i].to \in Decided
            BY <4>3 DEF DecidedSteps
          <5>2. RecordedVerdict = history[i].to
            BY <5>1, VerdictIsTheStep DEF IInv
          <5>3. DecidedSteps' = {i}
            BY <5>1, <4>1 DEF DecidedSteps, DecidedOnce, IInv
          <5>4. RecordedVerdict' = history'[i].to
            BY <5>3 DEF RecordedVerdict
          <5>. QED BY <5>1, <5>2, <5>4, <2>1
        <4>. QED BY <4>2, <4>3
      <3>2. CASE current = "Unknown"
        <4>1. to \in {"Unknown", "Timeout", "Disputed"}
          BY <3>2, <2>2, <2>4 DEF IsValidTransition, FromUnknown, FromDecided,
                FromDisputed, FromTimeout, Decided, OutcomeClassification
        <4>2. PhaseOf(current) = "open" /\ PhaseOf(to) \in {"open", "timed_out", "contested"}
          BY <3>2, <4>1 DEF PhaseOf
        <4>. QED BY <4>2, <3>1, <2>2 DEF Lifecycle!Next, Lifecycle!TimeOut,
                                         Lifecycle!Contest, Lifecycle!vars
      <3>3. CASE current = "Timeout"
        <4>1. to = "Disputed"
          BY <3>3, <2>2 DEF IsValidTransition, FromUnknown, FromDecided,
                FromDisputed, FromTimeout, Decided
        <4>2. PhaseOf(current) = "timed_out" /\ PhaseOf(current)' = "contested"
          BY <3>3, <4>1, <2>2 DEF PhaseOf
        <4>. QED BY <4>2, <3>1 DEF Lifecycle!Next, Lifecycle!Contest
      <3>4. CASE current \in Decided
        <4>1. to = "Reversed"
          BY <3>4, <2>2 DEF IsValidTransition, FromUnknown, FromDecided,
                FromDisputed, FromTimeout, Decided
        <4>2. PhaseOf(current) = "decided" /\ PhaseOf(current)' = "reversed"
          BY <3>4, <4>1, <2>2 DEF PhaseOf, Decided
        <4>. QED BY <4>2, <3>1 DEF Lifecycle!Next, Lifecycle!Reverse
      <3>. QED
        BY <3>2, <3>3, <3>4, <2>2, <2>4 DEF IsValidTransition, FromUnknown,
           FromDecided, FromDisputed, FromTimeout, Decided
    <2>. QED BY <2>3, <2>4
  <1>2. CASE UNCHANGED vars
    BY <1>2 DEF vars, Lifecycle!vars, PhaseOf, RecordedVerdict, DecidedSteps
  <1>. QED BY <1>1, <1>2 DEF Next, TransitionErr

\* The state machine implements the decision lifecycle: no table row, dispute
\* or re-evaluation gives a decision a second verdict or loses the first.
THEOREM Implements == Spec => ImplementsLifecycle
  <1>1. Init => Lifecycle!Init
    <2>. SUFFICES ASSUME Init PROVE Lifecycle!Init
      OBVIOUS
    <2>1. DecidedSteps = {}
      BY DEF Init, DecidedSteps
    <2>2. RecordedVerdict = "None"
      BY <2>1 DEF RecordedVerdict
    <2>. QED BY <2>2 DEF Init, Lifecycle!Init, Lifecycle!None, PhaseOf
  <1>. QED BY <1>1, SpecIInv, StepLifecycle, PTL
           DEF Spec, ImplementsLifecycle, Lifecycle!Spec
=============================================================================
