----------------------------- MODULE StoredChain -----------------------------
(***************************************************************************)
(* A VerityChain altered where it is kept: a field overwritten, as         *)
(* test_tamper_detection of chain.rs does, a chain hash computed anew, an  *)
(* entry lost, repeated or moved; and what verify() then says of it.       *)
(***************************************************************************)
EXTENDS VerityChain

CONSTANTS
    Junk,           \* a digest that no receipt has
    MaxAlterations  \* bound on the alterations

ASSUME StoredChainAssumption == Junk \notin Contents /\ MaxAlterations \in Nat

VARIABLES
    written,        \* the chain as it was before the first alteration
    alterations     \* how many alterations there were

storedVars == <<entries, written, alterations>>

StoredInit == Init /\ written = <<>> /\ alterations = 0

Write ==
    /\ alterations = 0
    /\ Next
    /\ written' = entries'
    /\ UNCHANGED alterations

Alter(chain) ==
    /\ alterations < MaxAlterations
    /\ chain # entries
    /\ entries' = chain
    /\ alterations' = alterations + 1
    /\ UNCHANGED written

Digests == {Junk} \cup {entries[i].chain_hash : i \in DOMAIN entries}

\* One field of one entry is overwritten.
Overwrite(i) ==
    \/ \E n \in 0..MaxEntries : Alter([entries EXCEPT ![i].position = n])
    \/ \E id \in VerityIds : Alter([entries EXCEPT ![i].verity_id = id])
    \/ \E content \in Contents \cup {Junk} : Alter([entries EXCEPT ![i].content_hash = content])
    \/ \E hash \in {None} \cup {Some(d) : d \in Digests} :
          Alter([entries EXCEPT ![i].previous_hash = hash])
    \/ \E hash \in Digests : Alter([entries EXCEPT ![i].chain_hash = hash])

\* An entry's chain hash is computed anew from what the entry holds.
Rehash(i) ==
    Alter([entries EXCEPT ![i].chain_hash =
              ChainHash(entries[i].content_hash, entries[i].previous_hash)])

Lose(i) == Alter(SubSeq(entries, 1, i - 1) \o SubSeq(entries, i + 1, Len(entries)))

Repeat(i) ==
    /\ Len(entries) < MaxEntries
    /\ Alter(SubSeq(entries, 1, i) \o SubSeq(entries, i, Len(entries)))

Swap(i, j) == Alter([entries EXCEPT ![i] = entries[j], ![j] = entries[i]])

StoredNext ==
    \/ Write
    \/ \E i \in DOMAIN entries :
          Overwrite(i) \/ Rehash(i) \/ Lose(i) \/ Repeat(i) \/ \E j \in DOMAIN entries : Swap(i, j)

StoredSpec == StoredInit /\ [][StoredNext]_storedVars
----------------------------------------------------------------------------
\* The alterations are counted, and until the first one the chain holds
\* receipts that serialize, under ids of receipts.
StoredTypeOK == alterations \in 0..MaxAlterations /\ (alterations = 0 => TypeOK)

\* verify() accepts every chain that append() built, whatever failed in between.
UnalteredVerifies == alterations = 0 => AppendedVerifies

\* What the hashes cover of an entry: everything but the receipt's id.
Covered(e) ==
    [position |-> e.position, content_hash |-> e.content_hash,
     previous_hash |-> e.previous_hash, chain_hash |-> e.chain_hash]

CoveredPrefix(chain, n) == [i \in 1..n |-> Covered(chain[i])]

\* The head hash fixes the history: a chain that verifies and ends in the hash
\* append() returned last holds the receipts appended, all of them, in order,
\* however many alterations and recomputed hashes came in between.
HeadFixesHistory ==
    Verify(entries) /\ entries # <<>> /\ written # <<>>
        /\ entries[Len(entries)].chain_hash = written[Len(written)].chain_hash
    => /\ Len(entries) = Len(written)
       /\ CoveredPrefix(entries, Len(entries)) = CoveredPrefix(written, Len(written))

\* Without the head, one alteration goes unseen only if it touched an id or
\* cut off the end: what is left is a prefix of what was written.
OneAlterationSeen ==
    alterations = 1 /\ Verify(entries) =>
        /\ Len(entries) <= Len(written)
        /\ CoveredPrefix(entries, Len(entries)) = CoveredPrefix(written, Len(entries))

\* chain.rs:56 "Verify the entire chain is intact (no gaps, no tampering)": a
\* chain that verifies is the chain that was written.
VerifiedIsIntact == Verify(entries) => entries = written
=============================================================================
