---------------------------- MODULE EvidenceLedger ----------------------------
(***************************************************************************)
(* crates/verity-ledgers, evidence_ledger.rs: what was submitted for the   *)
(* conditions of one settlement.  Of an entry only what a verdict reads is *)
(* kept: the condition and the confidence.                                 *)
(***************************************************************************)
EXTENDS Naturals, Sequences

CONSTANT MaxEntries     \* bound on the length of the ledger

VARIABLES entries, next_entry_id

\* Id n stands for the string "eve_n", and 0 for the empty string.
EvidenceEntry(condition_id, confidence_bps) ==
    [entry_id |-> 0, condition_id |-> condition_id, confidence_bps |-> confidence_bps]

Init == entries = <<>> /\ next_entry_id = 1

\* Seeded fault: the id is taken before the counter moves on from the first one.
AppendEvidenceFirstId(e) ==
    /\ Len(entries) < MaxEntries
    /\ entries' = Append(entries, [e EXCEPT !.entry_id = 1])
    /\ next_entry_id' = next_entry_id + 1

\* append: the id the caller filled in is overwritten.
AppendEvidence(e) ==
    /\ Len(entries) < MaxEntries
    /\ entries' = Append(entries, [e EXCEPT !.entry_id = next_entry_id])
    /\ next_entry_id' = next_entry_id + 1

\* entries_for_condition, by index.
EntriesForCondition(condition_id) ==
    {i \in DOMAIN entries : entries[i].condition_id = condition_id}
=============================================================================
