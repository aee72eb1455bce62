------------------------- MODULE DecisionLifecycle -------------------------
(***************************************************************************)
(* What an outcome state machine promises, with no table and no history:   *)
(* a settlement decision is open, may time out, may be contested, is       *)
(* decided at most once with one verdict, and a decided one may be         *)
(* reversed.  A verdict, once given, is never replaced: a reversal keeps   *)
(* it on record.                                                           *)
(***************************************************************************)
CONSTANT Verdicts       \* the outcomes that settle a decision

VARIABLES phase, verdict

vars == <<phase, verdict>>

None == "None"

Init == phase = "open" /\ verdict = None

TimeOut == phase = "open" /\ phase' = "timed_out" /\ UNCHANGED verdict

Contest == phase \in {"open", "timed_out"} /\ phase' = "contested" /\ UNCHANGED verdict

Decide(v) == phase \in {"open", "contested"} /\ phase' = "decided" /\ verdict' = v

Reverse == phase = "decided" /\ phase' = "reversed" /\ UNCHANGED verdict

Next == TimeOut \/ Contest \/ (\E v \in Verdicts : Decide(v)) \/ Reverse

Spec == Init /\ [][Next]_vars
=============================================================================
