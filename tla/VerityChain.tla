----------------------------- MODULE VerityChain -----------------------------
(***************************************************************************)
(* crates/verity-integrity, chain.rs: the hash chain of one settlement's   *)
(* receipts.                                                               *)
(*                                                                         *)
(* SHA-256 is taken to have no collisions: the canonical hash of a value   *)
(* is the value itself, so two hashes are equal exactly when what they     *)
(* were computed from is.  A position is a u32 in the code; MaxEntries     *)
(* stands for its range.                                                   *)
(***************************************************************************)
EXTENDS Naturals, Sequences

CONSTANTS
    VerityIds,      \* the ids of receipts
    Contents,       \* the receipts that serialize
    Unserializable, \* a content whose canonical_hash is an Err
    MaxEntries      \* bound on the length of the chain

ASSUME VerityChainAssumption == Unserializable \notin Contents /\ MaxEntries \in Nat

VARIABLE entries

vars == entries

\* Option<String>: the hash of an entry's predecessor, if it has one.
None == <<>>
Some(hash) == <<hash>>

\* Seeded fault: the previous hash is left out of the hash.
ChainHashContentOnly(content_hash, previous_hash) == [content_hash |-> content_hash]

\* canonical_hash of a ChainHashInput: the content's hash and the previous one.
ChainHash(content_hash, previous_hash) ==
    [content_hash |-> content_hash, previous_hash |-> previous_hash]

\* Seeded fault: every entry names the first one as its predecessor.
LatestHashOfFirst == IF entries = <<>> THEN None ELSE Some(entries[1].chain_hash)

\* latest_hash, and the previous_hash of the next entry.
LatestHash == IF entries = <<>> THEN None ELSE Some(entries[Len(entries)].chain_hash)

Entry(verity_id, content_hash, previous_hash, position) ==
    [position      |-> position,
     verity_id     |-> verity_id,
     content_hash  |-> content_hash,
     previous_hash |-> previous_hash,
     chain_hash    |-> ChainHash(content_hash, previous_hash)]
----------------------------------------------------------------------------
Init == entries = <<>>

\* Seeded fault: positions count from 0.
AppendOkFromZero(verity_id, content) ==
    /\ Len(entries) < MaxEntries
    /\ content \in Contents
    /\ entries' = Append(entries, Entry(verity_id, content, LatestHash, Len(entries)))

AppendOk(verity_id, content) ==
    /\ Len(entries) < MaxEntries
    /\ content \in Contents
    /\ entries' = Append(entries, Entry(verity_id, content, LatestHash, Len(entries) + 1))

\* Seeded fault: the entry is pushed whether or not its content has a hash.
AppendErrPushed(content) ==
    /\ Len(entries) < MaxEntries
    /\ content \notin Contents
    /\ \E id \in VerityIds :
          entries' = Append(entries, Entry(id, content, LatestHash, Len(entries) + 1))

\* The first ? returns before the chain is touched.
AppendErr(content) == content \notin Contents /\ UNCHANGED vars

Next ==
    \E id \in VerityIds, content \in Contents \cup {Unserializable} :
        AppendOk(id, content) \/ AppendErr(content)

Spec == Init /\ [][Next]_vars
----------------------------------------------------------------------------
\* Seeded fault: a chain hash is only compared with what its successor names.
EntryVerifiesUnhashed(chain, i) ==
    /\ chain[i].position = i
    /\ chain[i].previous_hash = IF i = 1 THEN None ELSE Some(chain[i - 1].chain_hash)

(***************************************************************************)
(* verify, over any list of entries: positions count from 1, every entry   *)
(* names its predecessor's chain hash, and its own can be recomputed.      *)
(***************************************************************************)
EntryVerifies(chain, i) ==
    /\ chain[i].position = i
    /\ chain[i].previous_hash = IF i = 1 THEN None ELSE Some(chain[i - 1].chain_hash)
    /\ chain[i].chain_hash = ChainHash(chain[i].content_hash, chain[i].previous_hash)

Verify(chain) == \A i \in DOMAIN chain : EntryVerifies(chain, i)

----------------------------------------------------------------------------
TypeOK ==
    /\ Len(entries) \in 0..MaxEntries
    /\ \A i \in DOMAIN entries :
          /\ entries[i].verity_id \in VerityIds
          /\ entries[i].content_hash \in Contents

\* What append builds, whatever fails in between, verify accepts.
AppendedVerifies == Verify(entries)

\* A chain hash names one position: it never comes twice, though the same
\* receipt may be appended any number of times.
ChainHashesDistinct ==
    \A i, j \in DOMAIN entries : entries[i].chain_hash = entries[j].chain_hash => i = j
=============================================================================
