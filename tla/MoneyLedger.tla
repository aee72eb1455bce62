----------------------------- MODULE MoneyLedger -----------------------------
(***************************************************************************)
(* crates/verity-ledgers, money_ledger.rs: the movements of money of one   *)
(* settlement, and the two sums taken over them.  Entry type, timestamp    *)
(* and reference are left out: nothing reads them.                         *)
(***************************************************************************)
EXTENDS Money, FiniteSetsExt

CONSTANTS
    Agents,         \* the parties money moves between
    Movements,      \* the monies moved, of either sign
    CallerIds,      \* the entry ids callers fill in (external)
    MaxEntries      \* bound on the length of the ledger

ASSUME MoneyLedgerAssumption ==
    /\ IsFiniteSet(Agents)
    /\ Movements \subseteq Monies /\ CallerIds \subseteq Nat /\ MaxEntries \in Nat

VARIABLES entries, next_entry_id

vars == <<entries, next_entry_id>>

MoneyDirection == {"Credit", "Debit", "Hold", "Release"}

\* Id n stands for the string "mle_n", and 0 for the empty string.
MoneyEntry ==
    [entry_id : Nat \ {0}, agent_id : Agents, direction : MoneyDirection, amount : Movements]

\* Seeded fault: a release counts as a hold does.
DeltaReleaseOut(e) ==
    IF e.direction = "Credit" THEN e.amount.amount_minor_units ELSE -e.amount.amount_minor_units

\* What an entry does to a balance.
Delta(e) ==
    IF e.direction \in {"Credit", "Release"}
    THEN e.amount.amount_minor_units ELSE -e.amount.amount_minor_units
----------------------------------------------------------------------------
Init == entries = <<>> /\ next_entry_id = 1

\* Seeded fault: the id the caller filled in is kept.
AppendEntryKeepingId(e) ==
    /\ Len(entries) < MaxEntries
    /\ entries' = Append(entries, e)
    /\ next_entry_id' = next_entry_id + 1

\* append: the id the caller filled in is overwritten.
AppendEntry(e) ==
    /\ Len(entries) < MaxEntries
    /\ entries' = Append(entries, [e EXCEPT !.entry_id = next_entry_id])
    /\ next_entry_id' = next_entry_id + 1

Next ==
    \E id \in CallerIds, a \in Agents, d \in MoneyDirection, m \in Movements :
        AppendEntry([entry_id |-> id, agent_id |-> a, direction |-> d, amount |-> m])

Spec == Init /\ [][Next]_vars
----------------------------------------------------------------------------
\* The entries of an agent (entries_for_agent) and those in a currency, by index.
EntriesForAgent(agent) == {i \in DOMAIN entries : entries[i].agent_id = agent}
EntriesIn(c) == {i \in DOMAIN entries : entries[i].amount.currency = c}

Deltas == [i \in DOMAIN entries |-> Delta(entries[i])]

First(indices) == CHOOSE i \in indices : \A j \in indices : i <= j

\* Seeded fault: the entries of other currencies are added in.
NetBalanceMixed(agent) ==
    LET own == EntriesForAgent(agent)
        net == Running(OnlyAt(Deltas, own))
    IN  IF own = {} THEN Err("LedgerError")
        ELSE IF \E i \in own : ~Fits(net[i]) THEN Err("ArithmeticOverflow")
        ELSE Ok(MoneyOf(net[Len(entries)], entries[First(own)].amount.currency))

(***************************************************************************)
(* net_balance: the loop stops at the first entry that is in another       *)
(* currency than the agent's first one, or that takes the checked running  *)
(* balance out of range.                                                   *)
(***************************************************************************)
NetBalance(agent) ==
    LET own == EntriesForAgent(agent)
        currency == entries[First(own)].amount.currency
        net == Running(OnlyAt(Deltas, own))
        mismatches == own \ EntriesIn(currency)
        stops == mismatches \cup {i \in own : ~Fits(net[i])}
    IN  IF own = {} THEN Err("LedgerError")
        ELSE IF stops = {} THEN Ok(MoneyOf(net[Len(entries)], currency))
        ELSE Err(IF First(stops) \in mismatches THEN "CurrencyMismatch" ELSE "ArithmeticOverflow")

\* The accumulator of a currency after each entry, if it never overflows.
Accumulator(c) == Running(OnlyAt(Deltas, EntriesIn(c)))

BalanceOverflows ==
    \E i \in DOMAIN entries :
        ~Fits(Deltas[i]) \/ \E c \in Currency : ~Fits(Accumulator(c)[i])

\* Seeded fault: only one currency's accumulator is looked at in the end.
VerifyBalanceOneCurrency ==
    IF OverflowChecks /\ BalanceOverflows THEN Panic
    ELSE Ok(Wrap(Accumulator("USD")[Len(entries)]) = 0)

(***************************************************************************)
(* verify_balance: the negation and the three accumulators are unchecked;  *)
(* where nothing panics they leave the exact totals, wrapped.              *)
(***************************************************************************)
VerifyBalance ==
    IF OverflowChecks /\ BalanceOverflows THEN Panic
    ELSE Ok(\A c \in Currency : Wrap(Accumulator(c)[Len(entries)]) = 0)
----------------------------------------------------------------------------
TypeOK ==
    /\ entries \in Seq(MoneyEntry)
    /\ Len(entries) <= MaxEntries
    /\ next_entry_id \in Nat \ {0}

\* Ids name entries: they count from 1 in the order of the appends, whatever
\* the callers filled in, so no two entries share one.
IdsSequential ==
    /\ next_entry_id = Len(entries) + 1
    /\ \A i \in DOMAIN entries : entries[i].entry_id = i

\* The two sides of an account, over some of the entries.
Amounts == [i \in DOMAIN entries |-> entries[i].amount.amount_minor_units]
Going(directions) == {i \in DOMAIN entries : entries[i].direction \in directions}

Incoming(indices) == Total(OnlyAt(Amounts, indices \cap Going({"Credit", "Release"})))
Outgoing(indices) == Total(OnlyAt(Amounts, indices \cap Going({"Debit", "Hold"})))

\* net_balance() answers for one currency only, and then exactly: what came in
\* less what went out, and nothing of the agent's in another currency.
NetBalanceSound ==
    \A a \in Agents : IsOk(NetBalance(a)) =>
        LET net == NetBalance(a).value IN
        /\ net.amount_minor_units = Incoming(EntriesForAgent(a)) - Outgoing(EntriesForAgent(a))
        /\ EntriesForAgent(a) \subseteq EntriesIn(net.currency)

\* money_ledger.rs:99 "total credits + releases == total debits + holds (per
\* currency)": that is exactly what the answer of verify_balance() says.
BalanceVerdictExact ==
    IsOk(VerifyBalance) =>
        (VerifyBalance.value <=> \A c \in Currency : Incoming(EntriesIn(c)) = Outgoing(EntriesIn(c)))

\* An agent's net balance in a currency, and what those of all agents add up to.
NetAmount(a, c) ==
    LET r == NetBalance(a) IN
    IF IsOk(r) /\ r.value.currency = c THEN r.value.amount_minor_units ELSE 0

NetSum(c) == MapThenSumSet(LAMBDA a : NetAmount(a, c), Agents)

\* The two sums agree: in a ledger that balances, the agents' net balances
\* cancel out in every currency.
BalancedNetsCancel ==
    /\ VerifyBalance = Ok(TRUE)
    /\ \A a \in Agents : EntriesForAgent(a) # {} => IsOk(NetBalance(a))
    => \A c \in Currency : NetSum(c) = 0
=============================================================================
