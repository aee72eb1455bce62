--------------------------- MODULE ReversalJournal ---------------------------
(***************************************************************************)
(* crates/verity-finality, ReversalJournal: the list of all reversals, of  *)
(* every settlement.  record checks nothing and cannot fail.               *)
(***************************************************************************)
EXTENDS Naturals, Sequences

VARIABLE entries

Init == entries = <<>>

Record(entry) == entries' = Append(entries, entry)

\* entries_for_settlement, by index.
EntriesForSettlement(id) == {i \in DOMAIN entries : entries[i].settlement_id = id}
=============================================================================
