------------------------ MODULE OutcomeStateMachine ------------------------
(***************************************************************************)
(* crates/verity-outcomes: the state machine that classifies one           *)
(* settlement decision, and the history it keeps.  The timestamp and the   *)
(* reason of a history entry are left out: nothing reads them.             *)
(***************************************************************************)
EXTENDS Naturals, Sequences

CONSTANT MaxHistory     \* bound on the length of the history

ASSUME MaxHistoryAssumption == MaxHistory \in Nat

VARIABLES current, history

vars == <<current, history>>

OutcomeClassification ==
    {"Success", "Fail", "Unknown", "Disputed", "Reversed", "Timeout", "Partial"}

\* The outcomes that settle a decision: the sources of a reversal.
Decided == {"Success", "Fail", "Partial"}

OutcomeTransition == [from : OutcomeClassification, to : OutcomeClassification]

\* Seeded fault: a failed settlement is taken for a finished one.
IsTerminalOnFail(c) == c \in {"Reversed", "Fail"}

IsTerminal(c) == c = "Reversed"

\* Seeded faults: a settled decision can be challenged again; a reversal can be
\* made twice; a timed out one can be re-evaluated, or decided without an appeal.
FromDecidedRechallenge == Decided \X {"Reversed", "Disputed"}
FromDecidedTwice == (Decided \cup {"Reversed"}) \X {"Reversed"}
FromTimeoutReopened == {<<"Timeout", "Disputed">>, <<"Timeout", "Unknown">>}
FromTimeoutDecided == {"Timeout"} \X (Decided \cup {"Disputed"})

\* The rows of the transition table, by the state they leave.
FromUnknown == {"Unknown"} \X (OutcomeClassification \ {"Reversed"})
FromDecided == Decided \X {"Reversed"}
FromDisputed == {"Disputed"} \X Decided
FromTimeout == {<<"Timeout", "Disputed">>}

IsValidTransition(from, to) ==
    <<from, to>> \in FromUnknown \cup FromDecided \cup FromDisputed \cup FromTimeout
----------------------------------------------------------------------------
Init == current = "Unknown" /\ history = <<>>

\* Seeded fault: the outcome is assigned before the entry is built from it.
TransitionAssignedFirst(to) ==
    /\ Len(history) < MaxHistory
    /\ IsValidTransition(current, to)
    /\ current' = to
    /\ history' = Append(history, [from |-> current', to |-> to])

(***************************************************************************)
(* transition(to): the Ok path records the step, then moves; the Err path  *)
(* returns before anything is touched.                                     *)
(***************************************************************************)
TransitionOk(to) ==
    /\ Len(history) < MaxHistory
    /\ IsValidTransition(current, to)
    /\ history' = Append(history, [from |-> current, to |-> to])
    /\ current' = to

TransitionErr(to) == ~IsValidTransition(current, to) /\ UNCHANGED vars

Next == \E to \in OutcomeClassification : TransitionOk(to) \/ TransitionErr(to)

Spec == Init /\ [][Next]_vars
----------------------------------------------------------------------------
TypeOK ==
    /\ current \in OutcomeClassification
    /\ history \in Seq(OutcomeTransition)
    /\ Len(history) <= MaxHistory

\* The history is one unbroken path from UNKNOWN to the current outcome: every
\* entry leaves where the previous one arrived, along a row of the table.
HistoryIsPath ==
    /\ current = IF history = <<>> THEN "Unknown" ELSE history[Len(history)].to
    /\ \A i \in DOMAIN history :
          /\ history[i].from = IF i = 1 THEN "Unknown" ELSE history[i - 1].to
          /\ IsValidTransition(history[i].from, history[i].to)

\* However many disputes and re-evaluations it takes, a decision is settled at
\* most once: SUCCESS, FAIL or PARTIAL is never followed by another of them.
DecidedOnce ==
    \A i, j \in DOMAIN history :
        history[i].to \in Decided /\ history[j].to \in Decided => i = j

\* is_terminal() and the table agree: it answers true in exactly those states
\* that no call of transition() can leave.
TerminalIffStuck ==
    IsTerminal(current) <=> ~ \E to \in OutcomeClassification : IsValidTransition(current, to)

\* Only UNKNOWN repeats: once it has been left, at most three more transitions
\* can follow (TIMEOUT, DISPUTED, a decision, REVERSED is the longest way).
ConcludesAfterUnknown ==
    \A i \in DOMAIN history : history[i].to # "Unknown" => Len(history) - i <= 3

\* The machine implements the lifecycle it promises; the verdict is read off
\* the history, so a reversed decision still shows what was reversed.
PhaseOf(c) ==
    CASE c = "Unknown" -> "open" [] c = "Timeout" -> "timed_out"
      [] c = "Disputed" -> "contested" [] c = "Reversed" -> "reversed"
      [] OTHER -> "decided"

DecidedSteps == {i \in DOMAIN history : history[i].to \in Decided}

RecordedVerdict ==
    IF DecidedSteps = {} THEN "None"
    ELSE history[CHOOSE i \in DecidedSteps : TRUE].to

Lifecycle == INSTANCE DecisionLifecycle
    WITH Verdicts <- Decided, phase <- PhaseOf(current), verdict <- RecordedVerdict

ImplementsLifecycle == Lifecycle!Spec

\* README.md:92 "UNKNOWN -> SUCCESS after timeout refund is forbidden": once an
\* outcome has timed out, this settlement never becomes SUCCESS.
NoSuccessAfterTimeout ==
    current = "Success" => \A i \in DOMAIN history : history[i].to # "Timeout"
=============================================================================
