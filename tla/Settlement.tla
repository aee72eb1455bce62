------------------------------ MODULE Settlement ------------------------------
(***************************************************************************)
(* One settlement from the hold to the end of its reversal window: a host  *)
(* that calls the crates in the order of the integration test, and goes on *)
(* where the test stops.  Nothing in the crates calls two components; what *)
(* the host does is what README.md says of each outcome: SUCCESS releases  *)
(* the funds, FAIL returns them, a reversal is journaled and undoes what   *)
(* was done by then, be it a SUCCESS half paid out or a FAIL.  TIMEOUT and *)
(* DISPUTED leave the hold where it is.  PARTIAL has no rule and is not    *)
(* decided.                                                                *)
(*                                                                         *)
(* The parties that act on reports of reversals (Holders) share the        *)
(* outcome, the chain and the journal, and each have a copy of the         *)
(* finality class.                                                         *)
(***************************************************************************)
EXTENDS Money, FiniteSets

CONSTANTS
    Payer, Payees,          \* who pays, and the list of those who are paid
    Contracts,              \* payments and how they are shared among payees
    Conditions, Threshold,  \* what must be shown, and with which confidence
    Confidences,            \* the confidences evidence comes with
    Holders, Reasons, Window, ConfirmBy, MaxTime,   \* see Finality
    This, Other,            \* this settlement, and another one of the journal
    MaxHistory, MaxEvidence \* bounds on the lists

ASSUME SettlementAssumption ==
    /\ This # Other
    /\ Len(Payees) \in Nat /\ DOMAIN Payees = 1..Len(Payees)
    /\ MaxHistory \in Nat
    /\ Window \in Nat /\ ConfirmBy \in Nat /\ MaxTime \in Nat

\* What a contract says: a payment that is not negative, and a share for each of
\* the payees, who are different parties.
ASSUME ContractsAssumption ==
    /\ \A i, j \in DOMAIN Payees : Payees[i] = Payees[j] => i = j
    /\ \A i \in DOMAIN Payees : Payees[i] # Payer
    /\ \A c \in Contracts :
          /\ c.payment \in Monies /\ c.payment.amount_minor_units >= 0
          /\ c.shares \in Seq(BasisPoints) /\ Len(c.shares) = Len(Payees)

VARIABLES
    contract,                       \* what was agreed
    money, next_money_id,           \* the money ledger
    evidence, next_evidence_id,     \* the evidence ledger
    current, history,               \* the outcome machine
    chain,                          \* the receipts
    clock, settled, held, confirmed,    \* finality: see Finality
    journal                         \* the reversal journal

outcomeVars == <<current, history>>
moneyVars == <<money, next_money_id>>
evidenceVars == <<evidence, next_evidence_id>>
finalityVars == <<clock, settled, held, confirmed>>
vars == <<contract, moneyVars, evidenceVars, outcomeVars, chain, finalityVars, journal>>

Outcome == INSTANCE OutcomeStateMachine
Finality == INSTANCE Finality
Evidence == INSTANCE EvidenceLedger
    WITH entries <- evidence, next_entry_id <- next_evidence_id, MaxEntries <- MaxEvidence
Journal == INSTANCE ReversalJournal WITH entries <- journal

\* A receipt, as far as it is read here: the outcome, and the evidence that was
\* there.  A receipt of each step of the outcome machine goes into the chain.
Receipt(outcome) ==
    [outcome |-> outcome, evidence |-> {evidence[i].entry_id : i \in DOMAIN evidence}]

Chain == INSTANCE VerityChain
    WITH entries <- chain, VerityIds <- Nat, MaxEntries <- MaxHistory,
         Contents <- [outcome : Outcome!OutcomeClassification, evidence : SUBSET Nat],
         Unserializable <- "unserializable"

NotSettled == [adapter |-> "none", at |-> 0]
NoClass == [class |-> "none"]

\* The payees' parts.
Parts == SplitBps(contract.payment, contract.shares).value

Movement(agent, direction, amount) ==
    [entry_id |-> 0, agent_id |-> agent, direction |-> direction, amount |-> amount]

Hold == Movement(Payer, "Debit", contract.payment)
Returned == Movement(Payer, "Credit", contract.payment)
\* The payouts to the first k payees, and those taken back, the last one first.
PaidOut(k) == [i \in 1..k |-> Movement(Payees[i], "Credit", Parts[i])]
TakenBack(k) == [i \in 1..k |-> Movement(Payees[k + 1 - i], "Debit", Parts[k + 1 - i])]

\* How many payees the ledger credits.
Credited ==
    {i \in DOMAIN Payees :
        \E j \in DOMAIN money : money[j].agent_id = Payees[i] /\ money[j].direction = "Credit"}
PayoutsMade == Cardinality(Credited)

\* The movements the outcome asks for, in order.  A reversal asks for those made
\* before it to be undone: the payouts there were, then the hold.
Due ==
    CASE current = "Success" -> <<Hold>> \o PaidOut(Len(Payees))
      [] current = "Fail" -> <<Hold, Returned>>
      [] current = "Reversed" ->
            <<Hold>> \o PaidOut(PayoutsMade) \o TakenBack(PayoutsMade) \o <<Returned>>
      [] OTHER -> <<Hold>>

Ledger == INSTANCE MoneyLedger
    WITH entries <- money, next_entry_id <- next_money_id, MaxEntries <- 2 + 2 * Len(Payees),
         Agents <- {Payer} \cup {Payees[i] : i \in DOMAIN Payees},
         Movements <- Monies, CallerIds <- {0}
----------------------------------------------------------------------------
\* A contract whose payment cannot be split is refused before anything moves.
Init ==
    /\ contract \in {c \in Contracts : IsOk(SplitBps(c.payment, c.shares))}
    /\ Ledger!Init /\ Evidence!Init /\ Outcome!Init /\ Chain!Init /\ Journal!Init
    /\ clock = 0 /\ settled = NotSettled /\ held = [h \in Holders |-> NoClass] /\ confirmed = {}

\* The next movement that is due, appended on its own: other calls come between.
Move ==
    /\ Len(money) < Len(Due)
    /\ Ledger!AppendEntry(Due[Len(money) + 1])
    /\ UNCHANGED <<contract, evidenceVars, outcomeVars, chain, finalityVars, journal>>

\* Evidence comes at any moment, before the hold and after a verdict too.
Submit(condition, confidence) ==
    /\ Evidence!AppendEvidence(Evidence!EvidenceEntry(condition, confidence))
    /\ UNCHANGED <<contract, moneyVars, outcomeVars, chain, finalityVars, journal>>

\* The rules of the test, over the entries of these places: a condition passes
\* when evidence for it reaches the threshold; all of them must pass.
Passes(condition, indices) ==
    \E i \in Evidence!EntriesForCondition(condition) \cap indices :
        evidence[i].confidence_bps >= Threshold[condition]

Supported(outcome, indices) ==
    CASE outcome = "Success" -> \A condition \in Conditions : Passes(condition, indices)
      [] outcome = "Fail" ->
            \E condition \in Conditions :
                /\ Evidence!EntriesForCondition(condition) \cap indices # {}
                /\ ~Passes(condition, indices)
      [] OTHER -> outcome \in {"Unknown", "Disputed", "Timeout"}

\* transition()? of the outcome machine, then the receipt of it.
Step(outcome) ==
    /\ Outcome!TransitionOk(outcome)
    /\ Chain!AppendOk(Len(chain) + 1, Receipt(outcome))

Decide(outcome) ==
    /\ money # <<>>
    /\ Supported(outcome, DOMAIN evidence)
    /\ Step(outcome)
    /\ UNCHANGED <<contract, moneyVars, evidenceVars, finalityVars, journal>>

\* The finality class of the adapter that paid out, given to every holder.
Settle(adapter) ==
    /\ settled = NotSettled /\ current = "Success" /\ Len(money) = Len(Due)
    /\ settled' = [adapter |-> adapter, at |-> clock]
    /\ held' = [h \in Holders |-> Finality!DefaultFinality(adapter, clock)]
    /\ UNCHANGED <<contract, moneyVars, evidenceVars, outcomeVars, chain, clock, confirmed, journal>>

\* Time is only told from the settlement on.
Later ==
    \/ settled # NotSettled /\ Finality!Tick
    \/ \E h \in Holders : Finality!Confirm(h) \/ Finality!CheckWindowExpiry(h)

Wait ==
    /\ Later
    /\ UNCHANGED <<contract, moneyVars, evidenceVars, outcomeVars, chain, journal>>

Entry(settlement, reversed_at, reason, original, verity_id) ==
    [settlement_id |-> settlement, reversed_at |-> reversed_at, reason |-> reason,
     original_outcome |-> original, reversed_outcome |-> "Reversed",
     reversal_verity_id |-> verity_id]

(***************************************************************************)
(* A holder acts on the report of an event: reverse()? on its own copy,    *)
(* transition()? of the shared outcome, its receipt, then the journal.  An *)
(* Err on the way leaves everything as it was: what reverse() returned is  *)
(* dropped.                                                                *)
(***************************************************************************)
Reverse(h, reason, t) ==
    /\ Finality!Reverse(h, reason, t)
    /\ Step("Reversed")
    /\ Journal!Record(Entry(This, t, reason, current, Len(chain) + 1))
    /\ UNCHANGED <<contract, moneyVars, evidenceVars>>

\* A verdict nobody has a class of is reversed: a FAIL, refunded or not, or a
\* SUCCESS before its settlement, at whatever payout.  There is no window to ask.
Correct(reason) ==
    /\ settled = NotSettled
    /\ Step("Reversed")
    /\ Journal!Record(Entry(This, clock, reason, current, Len(chain) + 1))
    /\ UNCHANGED <<contract, moneyVars, evidenceVars, finalityVars>>

ReverseErr(h, t) ==
    /\ settled # NotSettled
    /\ ~Finality!ReverseOk(held[h], t) \/ ~Outcome!IsValidTransition(current, "Reversed")
    /\ UNCHANGED vars

\* The journal is shared: another settlement is reversed, once here.
OtherReversed(reason) ==
    /\ Journal!EntriesForSettlement(Other) = {}
    /\ Journal!Record(Entry(Other, clock, reason, "Success", 1))
    /\ UNCHANGED <<contract, moneyVars, evidenceVars, outcomeVars, chain, finalityVars>>

Next ==
    \/ Move
    \/ \E condition \in Conditions, confidence \in Confidences : Submit(condition, confidence)
    \/ \E outcome \in Outcome!OutcomeClassification : Decide(outcome)
    \/ \E adapter \in Finality!AdapterType : Settle(adapter)
    \/ Wait
    \/ \E h \in Holders, t \in 0..clock :
          ReverseErr(h, t) \/ \E reason \in Reasons : Reverse(h, reason, t)
    \/ \E reason \in Reasons : Correct(reason) \/ OtherReversed(reason)

Spec == Init /\ [][Next]_vars
----------------------------------------------------------------------------
\* The movements made are always the first of those the outcome asks for as it
\* is now.  Between any two movements a dispute, a verdict or a reversal may come,
\* of a SUCCESS after any number of payouts or of a FAIL before or after its
\* refund: none strands a movement already made, and a reversal undoes the
\* payouts there were and no others.
MoneyFollowsOutcome ==
    LET due == Due
    IN  /\ Len(money) <= Len(due)
        /\ \A i \in DOMAIN money : money[i] = [due[i] EXCEPT !.entry_id = i]

\* Once a verdict's last movement is made, the books close: verify_balance() is
\* true, the payer is down the payment after SUCCESS and by nothing otherwise,
\* and the payees, who may have no movements, have their parts or nothing, to the
\* minor unit, wherever between the payouts a reversal came.
BooksClose ==
    current \in {"Success", "Fail", "Reversed"} /\ Len(money) = Len(Due) =>
        LET paid == IF current = "Success" THEN contract.payment.amount_minor_units ELSE 0
            net(agent) ==
                IF Ledger!EntriesForAgent(agent) = {} THEN 0
                ELSE Ledger!NetBalance(agent).value.amount_minor_units
            parts == [i \in DOMAIN Payees |-> net(Payees[i])]
        IN  /\ Ledger!VerifyBalance = Ok(TRUE)
            /\ net(Payer) = -paid
            /\ Total(parts) = paid /\ \A i \in DOMAIN parts : parts[i] >= 0

\* Whichever reports reach whichever stale copies, the settlement is reversed at
\* most once: its journal has one entry exactly when its outcome is REVERSED.
\* record() takes any number of entries (test_reversal_journal records two): that
\* there is one is the host's doing, who asks the shared outcome before it records.
ReversedOnce ==
    Cardinality(Journal!EntriesForSettlement(This)) = IF current = "Reversed" THEN 1 ELSE 0

\* The journal, the copies, the outcome and the chain tell of one reversal: of the
\* verdict the history has before it, with its receipt; and once settled, of one
\* by Stripe, by an event inside the window that one holder's copy records too.
JournalTellsReversal ==
    \A i \in Journal!EntriesForSettlement(This) :
        LET e == journal[i]
            copies == {held[h] : h \in {g \in Holders : held[g].class = "Reversed"}}
        IN
        /\ history[Len(history)] = [from |-> e.original_outcome, to |-> "Reversed"]
        /\ chain[e.reversal_verity_id].content_hash.outcome = "Reversed"
        /\ IF settled = NotSettled THEN copies = {}
           ELSE /\ settled.adapter = "Stripe"
                /\ e.reversed_at < settled.at + Window
                /\ copies = {Finality!Reversed(e.reversed_at, e.reason,
                                 Finality!WithinReversalWindow(settled.at + Window))}

\* The chain verifies and has one receipt to each step of the outcome machine,
\* in order; a later receipt rests on all the evidence an earlier one had.
ReceiptsTellHistory ==
    /\ Chain!Verify(chain)
    /\ Len(chain) = Len(history)
    /\ \A i \in DOMAIN chain :
          /\ chain[i].content_hash.outcome = history[i].to
          /\ \A j \in 1..i : chain[j].content_hash.evidence \subseteq chain[i].content_hash.evidence

\* A verdict replays: whatever evidence arrived after it, the ids its receipt
\* names are those of as many entries, and the rules, over these entries as they
\* are now, support the verdict still.
VerdictReplays ==
    \A r \in {chain[i].content_hash : i \in DOMAIN chain} :
        r.outcome \in {"Success", "Fail"} =>
            LET named == {i \in DOMAIN evidence : evidence[i].entry_id \in r.evidence} IN
            /\ Cardinality(named) = Cardinality(r.evidence)
            /\ Supported(r.outcome, named)
=============================================================================
