-------------------------- MODULE IntegrityProofs --------------------------
(***************************************************************************)
(* What holds of VerityChain for chains of every length, of StoredChain    *)
(* for any number of alterations, and of MerkleTree for any number of      *)
(* leaves.                                                                 *)
(***************************************************************************)
EXTENDS StoredChain, MerkleTree, Induction

\* In a list of m entries, the one after the entry j from the end.
LEMMA OneNearer ==
    ASSUME NEW m \in Nat, NEW j \in Nat \ {0}, j < m
    PROVE  /\ m - j + 1 \in 1..m /\ m - j + 1 # 1
           /\ m - j + 1 - 1 = m - j /\ m - j + 1 = m - (j - 1)
           /\ j - 1 \in Nat /\ j - 1 < m /\ ~(j <= j - 1)
  OBVIOUS

\* The hash of no entry is also the hash of one with another content or
\* another predecessor.
LEMMA HashInjective ==
    ASSUME NEW c1, NEW p1, NEW c2, NEW p2, ChainHash(c1, p1) = ChainHash(c2, p2)
    PROVE  c1 = c2 /\ p1 = p2
  <1>1. ChainHash(c1, p1).content_hash = ChainHash(c2, p2).content_hash
    OBVIOUS
  <1>2. ChainHash(c1, p1).previous_hash = ChainHash(c2, p2).previous_hash
    OBVIOUS
  <1>. QED BY <1>1, <1>2 DEF ChainHash

\* A predecessor hash names one hash, and is not the absence of one.
LEMMA SomeInjective ==
    ASSUME NEW h1, NEW h2
    PROVE  (Some(h1) = Some(h2) => h1 = h2) /\ Some(h1) # None
  BY DEF Some, None
----------------------------------------------------------------------------
IInv ==
    /\ TypeOK
    /\ IsList(entries)
    /\ AppendedVerifies
    /\ ChainHashesDistinct

\* The empty chain satisfies the inductive invariant.
LEMMA InitIInv == Init => IInv
  BY VerityChainAssumption
  DEF Init, IInv, TypeOK, IsList, AppendedVerifies, Verify, ChainHashesDistinct

\* append keeps it, whether it returns Ok or Err.
LEMMA StepIInv == IInv /\ [Next]_vars => IInv'
  <1>. SUFFICES ASSUME IInv, [Next]_vars PROVE IInv'
    OBVIOUS
  <1>1. ASSUME NEW id \in VerityIds, NEW content, AppendOk(id, content)
        PROVE  IInv'
    <2>. DEFINE n == Len(entries)
                e == Entry(id, content, LatestHash, n + 1)
    <2>1. /\ n \in Nat /\ n < MaxEntries /\ content \in Contents
          /\ DOMAIN entries = 1..n
          /\ entries' = Append(entries, e)
      BY <1>1, ListDomain DEF IInv, AppendOk
    <2>2. /\ e.position = n + 1 /\ e.verity_id = id /\ e.content_hash = content
          /\ e.previous_hash = LatestHash
          /\ e.chain_hash = ChainHash(content, LatestHash)
      BY DEF Entry
    <2>3. LatestHash = IF n = 0 THEN None ELSE Some(entries[n].chain_hash)
      BY <2>1 DEF LatestHash, IInv, IsList
    <2>. HIDE DEF n, e
    <2>4. /\ IsList(entries')
          /\ Len(entries') = n + 1
          /\ DOMAIN entries' = 1..(n + 1)
          /\ entries'[n + 1] = e
          /\ \A i \in 1..n : entries'[i] = entries[i]
      BY <2>1, AppendToList DEF IInv, n
    <2>5. TypeOK'
      BY <2>1, <2>2, <2>4, VerityChainAssumption DEF IInv, TypeOK
    <2>6. AppendedVerifies'
      <3>. SUFFICES ASSUME NEW i \in 1..(n + 1) PROVE EntryVerifies(entries', i)
        BY <2>4 DEF AppendedVerifies, Verify, EntryVerifies
      <3>1. CASE i \in 1..n
        <4>1. EntryVerifies(entries, i)
          BY <3>1, <2>1 DEF IInv, AppendedVerifies, Verify
        <4>2. i = 1 \/ i - 1 \in 1..n
          BY <3>1, <2>1
        <4>. QED BY <3>1, <4>1, <4>2, <2>4 DEF EntryVerifies
      <3>2. CASE i = n + 1
        <4>1. n = 0 \/ n \in 1..n
          BY <2>1
        <4>. QED BY <3>2, <4>1, <2>1, <2>2, <2>3, <2>4 DEF EntryVerifies
      <3>. QED BY <3>1, <3>2, <2>1
    <2>7. ASSUME NEW i \in 1..n PROVE entries[i].chain_hash # e.chain_hash
      <3>. SUFFICES ASSUME entries[i].chain_hash = e.chain_hash PROVE FALSE
        OBVIOUS
      <3>1. EntryVerifies(entries, i)
        BY <2>1 DEF IInv, AppendedVerifies, Verify
      <3>2. ChainHash(entries[i].content_hash, entries[i].previous_hash) = ChainHash(content, LatestHash)
        BY <3>1, <2>2 DEF EntryVerifies
      <3>3. entries[i].previous_hash = Some(entries[n].chain_hash)
        BY <3>2, <2>1, <2>3, HashInjective
      <3>4. i # 1
        BY <3>1, <3>3, SomeInjective DEF EntryVerifies
      <3>5. entries[i - 1].chain_hash = entries[n].chain_hash
        BY <3>1, <3>3, <3>4, SomeInjective DEF EntryVerifies
      <3>6. i - 1 \in 1..n /\ n \in 1..n
        BY <3>4, <2>1
      <3>7. i - 1 = n
        BY <3>5, <3>6, <2>1 DEF IInv, ChainHashesDistinct
      <3>. QED BY <3>7, <2>1
    <2>8. ChainHashesDistinct'
      <3>. SUFFICES ASSUME NEW i \in 1..(n + 1), NEW j \in 1..(n + 1),
                           entries'[i].chain_hash = entries'[j].chain_hash
                    PROVE  i = j
        BY <2>4 DEF ChainHashesDistinct
      <3>1. CASE i \in 1..n /\ j \in 1..n
        BY <3>1, <2>1, <2>4 DEF IInv, ChainHashesDistinct
      <3>2. CASE i = n + 1 /\ j \in 1..n
        BY <3>2, <2>4, <2>7
      <3>3. CASE j = n + 1 /\ i \in 1..n
        BY <3>3, <2>4, <2>7
      <3>. QED BY <3>1, <3>2, <3>3, <2>1
    <2>. QED BY <2>4, <2>5, <2>6, <2>8 DEF IInv
  <1>2. CASE UNCHANGED vars
    BY <1>2 DEF IInv, vars, TypeOK, AppendedVerifies, ChainHashesDistinct
  <1>. QED BY <1>1, <1>2 DEF Next, AppendErr

\* The inductive invariant holds of every chain append() builds.
LEMMA SpecIInv == Spec => []IInv
  BY InitIInv, StepIInv, PTL DEF Spec

\* Entries hold receipts that serialize, under ids of receipts.
THEOREM TypeCorrect == Spec => []TypeOK
  <1>1. IInv => TypeOK BY DEF IInv
  <1>. QED BY <1>1, SpecIInv, PTL

\* verify() accepts every chain that append() built.
THEOREM AppendsVerify == Spec => []AppendedVerifies
  <1>1. IInv => AppendedVerifies BY DEF IInv
  <1>. QED BY <1>1, SpecIInv, PTL

\* No two positions of a chain have the same chain hash.
THEOREM HashesDistinct == Spec => []ChainHashesDistinct
  <1>1. IInv => ChainHashesDistinct BY DEF IInv
  <1>. QED BY <1>1, SpecIInv, PTL
----------------------------------------------------------------------------
(***************************************************************************)
(* The head hash fixes the history.  Walking back from the heads, k        *)
(* entries in both chains, the chain hashes agree as long as both have an  *)
(* entry: at the least k where they differ, the entries after it would     *)
(* have different predecessors and yet one chain hash.                     *)
(***************************************************************************)
LEMMA WalkBack ==
    ASSUME NEW E, NEW W, IsList(E), IsList(W), Verify(E), Verify(W),
           E # <<>>, W # <<>>, E[Len(E)].chain_hash = W[Len(W)].chain_hash,
           NEW k \in Nat, k < Len(E), k < Len(W)
    PROVE  E[Len(E) - k].chain_hash = W[Len(W) - k].chain_hash
  <1>. DEFINE m == Len(E)
              n == Len(W)
              T == {j \in Nat : j < m /\ j < n /\ E[m - j].chain_hash # W[n - j].chain_hash}
  <1>1. m \in Nat /\ n \in Nat /\ DOMAIN E = 1..m /\ DOMAIN W = 1..n
    BY ListDomain
  <1>. SUFFICES ASSUME T # {} PROVE FALSE
    BY <1>1
  <1>2. PICK j \in T : \A i \in T : j <= i
    <2>1. T \in SUBSET Nat
      OBVIOUS
    <2>. HIDE DEF T
    <2>. QED BY <2>1, HasLeast
  <1>3. j \in Nat /\ j < m /\ j < n /\ E[m - j].chain_hash # W[n - j].chain_hash
    OBVIOUS
  <1>4. j # 0
    <2>. SUFFICES ASSUME j = 0 PROVE FALSE
      OBVIOUS
    <2>1. m - j = m /\ n - j = n
      BY <1>1
    <2>. QED BY <1>3, <2>1
  <1>. DEFINE a == m - j + 1
              b == n - j + 1
  <1>5. /\ a \in 1..m /\ b \in 1..n /\ a # 1 /\ b # 1
        /\ a - 1 = m - j /\ b - 1 = n - j
        /\ a = m - (j - 1) /\ b = n - (j - 1)
        /\ j - 1 \in Nat /\ j - 1 < m /\ j - 1 < n /\ ~(j <= j - 1)
    <2>1. j \in Nat \ {0}
      BY <1>3, <1>4
    <2>. QED BY ONLY <1>1, <1>3, <2>1, OneNearer
  <1>6. E[a].chain_hash = W[b].chain_hash
    <2>1. j - 1 \notin T
      BY <1>2, <1>5
    <2>. QED BY <2>1, <1>5
  <1>. HIDE DEF a, b, T, m, n
  <1>7. EntryVerifies(E, a) /\ EntryVerifies(W, b)
    BY <1>1, <1>5 DEF Verify
  <1>8. E[a].previous_hash = W[b].previous_hash
    <2>1. ChainHash(E[a].content_hash, E[a].previous_hash)
            = ChainHash(W[b].content_hash, W[b].previous_hash)
      BY <1>6, <1>7 DEF EntryVerifies
    <2>. QED BY <2>1, HashInjective
  <1>9. E[a - 1].chain_hash = W[b - 1].chain_hash
    BY <1>5, <1>7, <1>8, SomeInjective DEF EntryVerifies
  <1>. QED BY <1>3, <1>5, <1>9

\* Two verified chains with one head hash agree on what the hashes cover.
LEMMA HeadFixes ==
    ASSUME NEW E, NEW W, IsList(E), IsList(W), Verify(E), Verify(W),
           E # <<>>, W # <<>>, E[Len(E)].chain_hash = W[Len(W)].chain_hash
    PROVE  /\ Len(E) = Len(W)
           /\ CoveredPrefix(E, Len(E)) = CoveredPrefix(W, Len(W))
  <1>. DEFINE m == Len(E)
              n == Len(W)
  <1>1. /\ m \in Nat /\ n \in Nat /\ DOMAIN E = 1..m /\ DOMAIN W = 1..n
        /\ m # 0 /\ n # 0
    BY ListDomain DEF IsList
  <1>2. \A k \in Nat : k < m /\ k < n => E[m - k].chain_hash = W[n - k].chain_hash
    BY WalkBack
  <1>. HIDE DEF m, n
  <1>3. \A i \in 1..m : EntryVerifies(E, i)
    BY <1>1 DEF Verify
  <1>4. \A i \in 1..n : EntryVerifies(W, i)
    BY <1>1 DEF Verify
  <1>5. ASSUME NEW i \in 1..m, NEW j \in 1..n, E[i].chain_hash = W[j].chain_hash
        PROVE  /\ E[i].content_hash = W[j].content_hash
               /\ E[i].previous_hash = W[j].previous_hash
               /\ i = 1 <=> j = 1
    <2>1. EntryVerifies(E, i) /\ EntryVerifies(W, j)
      BY <1>3, <1>4
    <2>2. E[i].content_hash = W[j].content_hash /\ E[i].previous_hash = W[j].previous_hash
      <3>1. ChainHash(E[i].content_hash, E[i].previous_hash)
              = ChainHash(W[j].content_hash, W[j].previous_hash)
        BY <1>5, <2>1 DEF EntryVerifies
      <3>. QED BY <3>1, HashInjective
    <2>. QED BY <2>1, <2>2, SomeInjective DEF EntryVerifies
  <1>6. m = n
    <2>1. CASE m < n
      <3>1. m - 1 \in Nat /\ m - 1 < m /\ m - 1 < n /\ m - (m - 1) = 1
            /\ n - (m - 1) \in 1..n /\ n - (m - 1) # 1 /\ 1 \in 1..m
        BY <2>1, <1>1
      <3>2. E[1].chain_hash = W[n - (m - 1)].chain_hash
        BY <3>1, <1>2
      <3>. QED BY <3>1, <3>2, <1>5
    <2>2. CASE n < m
      <3>1. n - 1 \in Nat /\ n - 1 < n /\ n - 1 < m /\ n - (n - 1) = 1
            /\ m - (n - 1) \in 1..m /\ m - (n - 1) # 1 /\ 1 \in 1..n
        BY <2>2, <1>1
      <3>2. E[m - (n - 1)].chain_hash = W[1].chain_hash
        BY <3>1, <1>2
      <3>. QED BY <3>1, <3>2, <1>5
    <2>. QED BY <2>1, <2>2, <1>1
  <1>7. ASSUME NEW i \in 1..m PROVE Covered(E[i]) = Covered(W[i])
    <2>1. m - i \in Nat /\ m - i < m /\ m - (m - i) = i /\ n - (m - i) = i
      BY <1>1, <1>6
    <2>2. E[i].chain_hash = W[i].chain_hash
      BY <2>1, <1>2, <1>6
    <2>3. /\ E[i].content_hash = W[i].content_hash
          /\ E[i].previous_hash = W[i].previous_hash
      BY <2>2, <1>5, <1>6
    <2>4. E[i].position = W[i].position
      BY <1>3, <1>4, <1>6 DEF EntryVerifies
    <2>. QED BY <2>2, <2>3, <2>4 DEF Covered
  <1>. QED BY <1>6, <1>7 DEF CoveredPrefix, m, n
----------------------------------------------------------------------------
(***************************************************************************)
(* Until the first alteration what is kept is what was written; after it   *)
(* what is kept is still a list, and what was written stays as it is.      *)
(***************************************************************************)
StoredIInv ==
    /\ IsList(entries)
    /\ IsList(written) /\ Verify(written)
    /\ alterations \in 0..MaxAlterations
    /\ alterations = 0 => IInv /\ entries = written

\* A sequence is the list of its entries.
LEMMA SequenceIsList ==
    ASSUME NEW T, NEW s \in Seq(T)
    PROVE  IsList(s)
  <1>1. Len(s) \in Nat /\ DOMAIN s = 1..Len(s)
    OBVIOUS
  <1>2. s \in [1..Len(s) -> {s[i] : i \in DOMAIN s}]
    BY <1>1
  <1>. QED BY <1>1, <1>2 DEF IsList

\* Overwriting an entry of a list leaves a list.
LEMMA ReplacedIsList ==
    ASSUME NEW s, IsList(s), NEW i \in DOMAIN s, NEW x
    PROVE  /\ IsList([s EXCEPT ![i] = x])
           /\ DOMAIN [s EXCEPT ![i] = x] = DOMAIN s
  <1>. DEFINE T == {s[j] : j \in DOMAIN s} \cup {x}
  <1>1. s \in Seq(T) /\ x \in T
    BY DEF IsList
  <1>2. [s EXCEPT ![i] = x] \in Seq(T)
    BY <1>1
  <1>. QED BY <1>2, SequenceIsList

\* Whatever the alteration of a stored chain, a list is left.
LEMMA AlteredIsList ==
    ASSUME IsList(entries), NEW i \in DOMAIN entries,
           Overwrite(i) \/ Rehash(i) \/ Lose(i) \/ Repeat(i) \/ \E j \in DOMAIN entries : Swap(i, j)
    PROVE  IsList(entries') /\ written' = written /\ alterations' = alterations + 1
  <1>. DEFINE S == {entries[j] : j \in DOMAIN entries}
  <1>0. entries \in Seq(S) /\ Len(entries) \in Nat /\ DOMAIN entries = 1..Len(entries)
    BY ListDomain DEF IsList
  <1>1. CASE Overwrite(i)
    <2>1. PICK x : entries' = [entries EXCEPT ![i] = x]
      BY <1>1 DEF Overwrite, Alter
    <2>2. written' = written /\ alterations' = alterations + 1
      BY <1>1 DEF Overwrite, Alter
    <2>3. IsList([entries EXCEPT ![i] = x])
      BY ReplacedIsList
    <2>. QED BY <2>1, <2>2, <2>3
  <1>2. CASE Rehash(i)
    <2>1. PICK x : entries' = [entries EXCEPT ![i] = x]
      BY <1>2 DEF Rehash, Alter
    <2>2. written' = written /\ alterations' = alterations + 1
      BY <1>2 DEF Rehash, Alter
    <2>3. IsList([entries EXCEPT ![i] = x])
      BY ReplacedIsList
    <2>. QED BY <2>1, <2>2, <2>3
  <1>3. CASE Lose(i)
    <2>1. /\ entries' = SubSeq(entries, 1, i - 1) \o SubSeq(entries, i + 1, Len(entries))
          /\ written' = written /\ alterations' = alterations + 1
      BY <1>3 DEF Lose, Alter
    <2>2. SubSeq(entries, 1, i - 1) \in Seq(S)
      BY <1>0
    <2>3. SubSeq(entries, i + 1, Len(entries)) \in Seq(S)
      BY <1>0
    <2>. HIDE DEF S
    <2>4. entries' \in Seq(S)
      BY <2>1, <2>2, <2>3
    <2>. QED BY <2>1, <2>4, SequenceIsList
  <1>4. CASE Repeat(i)
    <2>1. /\ entries' = SubSeq(entries, 1, i) \o SubSeq(entries, i, Len(entries))
          /\ written' = written /\ alterations' = alterations + 1
      BY <1>4 DEF Repeat, Alter
    <2>2. SubSeq(entries, 1, i) \in Seq(S)
      BY <1>0
    <2>3. SubSeq(entries, i, Len(entries)) \in Seq(S)
      BY <1>0
    <2>. HIDE DEF S
    <2>4. entries' \in Seq(S)
      BY <2>1, <2>2, <2>3
    <2>. QED BY <2>1, <2>4, SequenceIsList
  <1>5. ASSUME NEW j \in DOMAIN entries, Swap(i, j)
        PROVE  IsList(entries') /\ written' = written /\ alterations' = alterations + 1
    <2>. DEFINE half == [entries EXCEPT ![i] = entries[j]]
    <2>1. /\ entries' = [half EXCEPT ![j] = entries[i]]
          /\ written' = written /\ alterations' = alterations + 1
      BY <1>5 DEF Swap, Alter
    <2>2. IsList(half) /\ DOMAIN half = DOMAIN entries
      BY ReplacedIsList
    <2>. HIDE DEF half
    <2>. QED BY <2>1, <2>2, ReplacedIsList
  <1>. QED BY <1>1, <1>2, <1>3, <1>4, <1>5

\* Nothing is altered at first.
LEMMA InitStored == StoredInit => StoredIInv
  <1>. SUFFICES ASSUME StoredInit PROVE StoredIInv
    OBVIOUS
  <1>1. IInv /\ written = <<>> /\ entries = <<>> /\ alterations = 0
    BY InitIInv DEF StoredInit, Init
  <1>. QED BY <1>1, StoredChainAssumption DEF StoredIInv, IInv, AppendedVerifies

\* Writing keeps the chain verified and a copy of it; altering keeps a list.
LEMMA StepStored == StoredIInv /\ [StoredNext]_storedVars => StoredIInv'
  <1>. SUFFICES ASSUME StoredIInv, [StoredNext]_storedVars PROVE StoredIInv'
    OBVIOUS
  <1>1. CASE Write
    <2>1. IInv'
      BY <1>1, StepIInv DEF Write, StoredIInv
    <2>2. written' = entries' /\ alterations' = alterations
      BY <1>1 DEF Write
    <2>. QED BY <2>1, <2>2 DEF StoredIInv, IInv, AppendedVerifies
  <1>2. ASSUME NEW i \in DOMAIN entries,
               Overwrite(i) \/ Rehash(i) \/ Lose(i) \/ Repeat(i) \/ \E j \in DOMAIN entries : Swap(i, j)
        PROVE  StoredIInv'
    <2>1. IsList(entries') /\ written' = written /\ alterations' = alterations + 1
      BY <1>2, AlteredIsList DEF StoredIInv
    <2>2. IsList(written)' /\ Verify(written)'
      BY <2>1 DEF StoredIInv, IsList, Verify, EntryVerifies
    <2>3. alterations < MaxAlterations
      BY <1>2 DEF Overwrite, Rehash, Lose, Repeat, Swap, Alter
    <2>4. alterations' \in 0..MaxAlterations /\ alterations' # 0
      BY <2>1, <2>3, StoredChainAssumption DEF StoredIInv
    <2>. QED BY <2>1, <2>2, <2>4 DEF StoredIInv
  <1>3. CASE UNCHANGED storedVars
    BY <1>3 DEF storedVars, StoredIInv, IInv, IsList, TypeOK, AppendedVerifies,
                ChainHashesDistinct, Verify, EntryVerifies
  <1>. QED BY <1>1, <1>2, <1>3 DEF StoredNext

\* Writing and altering keep the stored chain's inductive invariant.
LEMMA StoredSpecIInv == StoredSpec => []StoredIInv
  BY InitStored, StepStored, PTL DEF StoredSpec

\* The stored chain has its type, and until it is altered append()'s.
THEOREM StoredTypeCorrect == StoredSpec => []StoredTypeOK
  <1>1. StoredIInv => StoredTypeOK
    BY DEF StoredIInv, StoredTypeOK, IInv
  <1>. QED BY <1>1, StoredSpecIInv, PTL

\* verify() accepts every stored chain that nobody altered.
THEOREM UnalteredChainsVerify == StoredSpec => []UnalteredVerifies
  <1>1. StoredIInv => UnalteredVerifies
    BY DEF StoredIInv, UnalteredVerifies, IInv
  <1>. QED BY <1>1, StoredSpecIInv, PTL

\* The head hash append() returned fixes the history: however often the kept
\* chain was altered, if it verifies and ends in that hash it holds what was
\* appended, at every position.
THEOREM HeadHashFixesHistory == StoredSpec => []HeadFixesHistory
  <1>1. StoredIInv => HeadFixesHistory
    BY HeadFixes DEF StoredIInv, HeadFixesHistory
  <1>. QED BY <1>1, StoredSpecIInv, PTL
----------------------------------------------------------------------------
(***************************************************************************)
(* One alteration.  It leaves every entry near one that was written: the   *)
(* same entry, perhaps elsewhere, or in its place with one side of its     *)
(* hash as it was.                                                         *)
(***************************************************************************)
SameInput(e, w) == e.content_hash = w.content_hash /\ e.previous_hash = w.previous_hash

Near(list, e, k) ==
    \/ \E m \in DOMAIN list : e = list[m]
    \/ k \in DOMAIN list /\ (SameInput(e, list[k]) \/ e.chain_hash = list[k].chain_hash)

\* Every entry has the fields of one.
Shaped ==
    \A k \in DOMAIN entries :
        DOMAIN entries[k] =
            {"position", "verity_id", "content_hash", "previous_hash", "chain_hash"}

OneOff ==
    /\ alterations = 0 => Shaped
    /\ alterations = 1 => \A k \in DOMAIN entries : Near(written, entries[k], k)

\* Overwriting one entry leaves every other one as it was.
LEMMA OthersStay ==
    ASSUME NEW i \in DOMAIN entries, NEW x, entries = written,
           Near(written, x, i), entries' = [entries EXCEPT ![i] = x]
    PROVE  \A k \in DOMAIN entries' : Near(written, entries'[k], k)
  <1>1. DOMAIN entries' = DOMAIN entries
    OBVIOUS
  <1>2. ASSUME NEW k \in DOMAIN entries' PROVE Near(written, entries'[k], k)
    <2>1. CASE k = i
      BY <2>1 DEF Near, SameInput
    <2>2. CASE k # i
      BY <2>2 DEF Near
    <2>. QED BY <2>1, <2>2
  <1>. QED BY <1>2

\* Moving entries about makes up none.
LEMMA MovedAreNear ==
    ASSUME entries = written,
           \A k \in DOMAIN entries' : \E m \in DOMAIN entries : entries'[k] = entries[m]
    PROVE  \A k \in DOMAIN entries' : Near(written, entries'[k], k)
  BY DEF Near

\* The first alteration leaves every entry near one that was written.
LEMMA AlteredIsNear ==
    ASSUME Shaped, IsList(entries), entries = written, NEW i \in DOMAIN entries,
           Overwrite(i) \/ Rehash(i) \/ Lose(i) \/ Repeat(i) \/ \E j \in DOMAIN entries : Swap(i, j)
    PROVE  \A k \in DOMAIN entries' : Near(written, entries'[k], k)
  <1>. DEFINE n == Len(entries)
              S == {entries[m] : m \in DOMAIN entries}
  <1>0. entries \in Seq(S) /\ n \in Nat /\ DOMAIN entries = 1..n
    BY ListDomain DEF IsList
  <1>2. DOMAIN entries[i] = {"position", "verity_id", "content_hash", "previous_hash", "chain_hash"}
    BY DEF Shaped
  <1>3. CASE Overwrite(i)
    <2>1. ASSUME NEW v, entries' = [entries EXCEPT ![i].position = v]
          PROVE  \A k \in DOMAIN entries' : Near(written, entries'[k], k)
      <3>1. Near(written, [entries[i] EXCEPT !.position = v], i)
        BY <1>2 DEF Near, SameInput
      <3>. QED BY <2>1, <3>1, OthersStay
    <2>2. ASSUME NEW v, entries' = [entries EXCEPT ![i].verity_id = v]
          PROVE  \A k \in DOMAIN entries' : Near(written, entries'[k], k)
      <3>1. Near(written, [entries[i] EXCEPT !.verity_id = v], i)
        BY <1>2 DEF Near, SameInput
      <3>. QED BY <2>2, <3>1, OthersStay
    <2>3. ASSUME NEW v, entries' = [entries EXCEPT ![i].content_hash = v]
          PROVE  \A k \in DOMAIN entries' : Near(written, entries'[k], k)
      <3>1. Near(written, [entries[i] EXCEPT !.content_hash = v], i)
        BY <1>2 DEF Near
      <3>. QED BY <2>3, <3>1, OthersStay
    <2>4. ASSUME NEW v, entries' = [entries EXCEPT ![i].previous_hash = v]
          PROVE  \A k \in DOMAIN entries' : Near(written, entries'[k], k)
      <3>1. Near(written, [entries[i] EXCEPT !.previous_hash = v], i)
        BY <1>2 DEF Near
      <3>. QED BY <2>4, <3>1, OthersStay
    <2>5. ASSUME NEW v, entries' = [entries EXCEPT ![i].chain_hash = v]
          PROVE  \A k \in DOMAIN entries' : Near(written, entries'[k], k)
      <3>1. Near(written, [entries[i] EXCEPT !.chain_hash = v], i)
        BY <1>2 DEF Near, SameInput
      <3>. QED BY <2>5, <3>1, OthersStay
    <2>. QED BY <1>3, <2>1, <2>2, <2>3, <2>4, <2>5 DEF Overwrite, Alter
  <1>4. CASE Rehash(i)
    <2>. DEFINE hash == ChainHash(entries[i].content_hash, entries[i].previous_hash)
    <2>1. entries' = [entries EXCEPT ![i].chain_hash = hash]
      BY <1>4 DEF Rehash, Alter
    <2>. HIDE DEF hash
    <2>2. Near(written, [entries[i] EXCEPT !.chain_hash = hash], i)
      BY <1>2 DEF Near, SameInput
    <2>. QED BY <2>1, <2>2, OthersStay
  <1>5. CASE Lose(i)
    <2>1. entries' = SubSeq(entries, 1, i - 1) \o SubSeq(entries, i + 1, n)
      BY <1>5 DEF Lose, Alter
    <2>2. SubSeq(entries, 1, i - 1) \in Seq(S) /\ SubSeq(entries, i + 1, n) \in Seq(S)
      BY <1>0
    <2>. HIDE DEF S
    <2>3. entries' \in Seq(S)
      BY <2>1, <2>2
    <2>4. \A k \in DOMAIN entries' : entries'[k] \in S
      BY <2>3
    <2>5. \A k \in DOMAIN entries' : \E m \in DOMAIN entries : entries'[k] = entries[m]
      BY <2>4 DEF S
    <2>. QED BY <2>5, MovedAreNear
  <1>6. CASE Repeat(i)
    <2>1. entries' = SubSeq(entries, 1, i) \o SubSeq(entries, i, n)
      BY <1>6 DEF Repeat, Alter
    <2>2. SubSeq(entries, 1, i) \in Seq(S) /\ SubSeq(entries, i, n) \in Seq(S)
      BY <1>0
    <2>. HIDE DEF S
    <2>3. entries' \in Seq(S)
      BY <2>1, <2>2
    <2>4. \A k \in DOMAIN entries' : entries'[k] \in S
      BY <2>3
    <2>5. \A k \in DOMAIN entries' : \E m \in DOMAIN entries : entries'[k] = entries[m]
      BY <2>4 DEF S
    <2>. QED BY <2>5, MovedAreNear
  <1>7. ASSUME NEW j \in DOMAIN entries, Swap(i, j)
        PROVE  \A k \in DOMAIN entries' : Near(written, entries'[k], k)
    <2>1. entries' = [entries EXCEPT ![i] = entries[j], ![j] = entries[i]]
      BY <1>7 DEF Swap, Alter
    <2>2. \A k \in DOMAIN entries' : k \in DOMAIN entries
            /\ entries'[k] \in {entries[k], entries[i], entries[j]}
      BY <2>1
    <2>3. \A k \in DOMAIN entries' : \E m \in DOMAIN entries : entries'[k] = entries[m]
      BY <2>2
    <2>. QED BY <2>3, MovedAreNear
  <1>. QED BY <1>3, <1>4, <1>5, <1>6, <1>7

\* A verified entry near one that was written is what was written in its place.
LEMMA NearAndVerified ==
    ASSUME IsList(entries), IsList(written), Verify(written), Verify(entries),
           NEW k \in DOMAIN entries, Near(written, entries[k], k)
    PROVE  k \in DOMAIN written /\ Covered(entries[k]) = Covered(written[k])
  <1>. DEFINE e == entries[k]
  <1>1. e.position = k /\ e.chain_hash = ChainHash(e.content_hash, e.previous_hash)
    BY DEF Verify, EntryVerifies
  <1>2. \A m \in DOMAIN written :
            /\ written[m].position = m
            /\ written[m].chain_hash = ChainHash(written[m].content_hash, written[m].previous_hash)
    BY DEF Verify, EntryVerifies
  <1>3. CASE \E m \in DOMAIN written : e = written[m]
    BY <1>1, <1>2, <1>3 DEF Covered
  <1>4. CASE k \in DOMAIN written /\ SameInput(e, written[k])
    BY <1>1, <1>2, <1>4 DEF Covered, SameInput
  <1>5. CASE k \in DOMAIN written /\ e.chain_hash = written[k].chain_hash
    <2>1. ChainHash(e.content_hash, e.previous_hash)
            = ChainHash(written[k].content_hash, written[k].previous_hash)
      BY <1>1, <1>2, <1>5
    <2>2. SameInput(e, written[k])
      BY <2>1, HashInjective DEF SameInput
    <2>. QED BY <1>1, <1>2, <1>5, <2>2 DEF Covered, SameInput
  <1>. QED BY <1>3, <1>4, <1>5 DEF Near

\* Nothing is altered at first, so nothing is off.
LEMMA InitOneOff == StoredInit => OneOff
  BY DEF StoredInit, Init, OneOff, Shaped

\* The second alteration is the last that could break it, and says nothing.
LEMMA StepOneOff == StoredIInv /\ OneOff /\ [StoredNext]_storedVars => OneOff'
  <1>. SUFFICES ASSUME StoredIInv, OneOff, [StoredNext]_storedVars PROVE OneOff'
    OBVIOUS
  <1>1. CASE Write
    <2>1. alterations = 0 /\ alterations' = 0 /\ Shaped /\ IsList(entries)
      BY <1>1 DEF Write, OneOff, StoredIInv
    <2>2. ASSUME NEW id \in VerityIds, NEW content, AppendOk(id, content) PROVE Shaped'
      <3>. DEFINE e == Entry(id, content, LatestHash, Len(entries) + 1)
      <3>1. DOMAIN e = {"position", "verity_id", "content_hash", "previous_hash", "chain_hash"}
        BY DEF Entry
      <3>2. entries' = Append(entries, e)
        BY <2>2 DEF AppendOk
      <3>. HIDE DEF e
      <3>3. DOMAIN entries = 1..Len(entries) /\ Len(entries) \in Nat
        BY <2>1, ListDomain
      <3>4. /\ DOMAIN entries' = 1..(Len(entries) + 1) /\ entries'[Len(entries) + 1] = e
            /\ \A k \in 1..Len(entries) : entries'[k] = entries[k]
        BY <2>1, <3>2, AppendToList
      <3>. QED BY <2>1, <3>1, <3>3, <3>4 DEF Shaped
    <2>3. ASSUME UNCHANGED entries PROVE Shaped'
      BY <2>1, <2>3 DEF Shaped
    <2>. QED BY <1>1, <2>1, <2>2, <2>3 DEF Write, Next, AppendErr, vars, OneOff
  <1>2. ASSUME NEW i \in DOMAIN entries,
               Overwrite(i) \/ Rehash(i) \/ Lose(i) \/ Repeat(i) \/ \E j \in DOMAIN entries : Swap(i, j)
        PROVE  OneOff'
    <2>1. alterations' = alterations + 1 /\ written' = written
      BY <1>2, AlteredIsList DEF StoredIInv
    <2>2. alterations \in Nat
      BY StoredChainAssumption DEF StoredIInv
    <2>3. CASE alterations = 0
      <3>1. Shaped /\ IsList(entries) /\ entries = written
        BY <2>3 DEF StoredIInv, OneOff
      <3>. QED BY <1>2, <2>1, <2>3, <3>1, AlteredIsNear DEF OneOff
    <2>4. CASE alterations # 0
      BY <2>1, <2>2, <2>4 DEF OneOff
    <2>. QED BY <2>3, <2>4
  <1>3. CASE UNCHANGED storedVars
    BY <1>3 DEF storedVars, OneOff, Shaped, Near, SameInput
  <1>. QED BY <1>1, <1>2, <1>3 DEF StoredNext

\* A single alteration of a chain of any length, of any field, order or number
\* of entries, fails verify() unless it touched an id or cut off the end.
THEOREM OneAlterationIsSeen == StoredSpec => []OneAlterationSeen
  <1>1. StoredIInv /\ OneOff => OneAlterationSeen
    <2>. SUFFICES ASSUME StoredIInv, OneOff, alterations = 1, Verify(entries)
                  PROVE  /\ Len(entries) <= Len(written)
                         /\ CoveredPrefix(entries, Len(entries)) = CoveredPrefix(written, Len(entries))
      BY DEF OneAlterationSeen
    <2>1. /\ Len(entries) \in Nat /\ DOMAIN entries = 1..Len(entries)
          /\ Len(written) \in Nat /\ DOMAIN written = 1..Len(written)
      BY ListDomain DEF StoredIInv
    <2>2. \A k \in DOMAIN entries :
              k \in DOMAIN written /\ Covered(entries[k]) = Covered(written[k])
      BY NearAndVerified DEF StoredIInv, OneOff
    <2>3. Len(entries) <= Len(written)
      <3>1. CASE Len(entries) = 0
        BY <2>1, <3>1
      <3>2. CASE Len(entries) # 0
        <4>1. Len(entries) \in DOMAIN entries
          BY <2>1, <3>2
        <4>. QED BY <2>1, <2>2, <4>1
      <3>. QED BY <3>1, <3>2
    <2>. QED BY <2>1, <2>2, <2>3 DEF CoveredPrefix
  <1>2. StoredSpec => [](StoredIInv /\ OneOff)
    BY InitStored, StepStored, InitOneOff, StepOneOff, PTL DEF StoredSpec
  <1>. QED BY <1>1, <1>2, PTL
----------------------------------------------------------------------------
\* A round halves a list, rounding up.
LEMMA RoundHalves ==
    ASSUME NEW level, IsList(level)
    PROVE  /\ IsList(NextLevel(level))
           /\ Len(NextLevel(level)) = (Len(level) + 1) \div 2
           /\ \A i \in 1..((Len(level) + 1) \div 2) :
                 NextLevel(level)[i] =
                     Parent(level[2 * i - 1], level[IF 2 * i <= Len(level) THEN 2 * i ELSE 2 * i - 1])
  <1>. DEFINE m == (Len(level) + 1) \div 2
              f == NextLevel(level)
  <1>1. m \in Nat
    BY ListDomain
  <1>2. /\ f = [i \in 1..m |-> f[i]]
        /\ \A i \in 1..m : f[i] = Parent(level[2 * i - 1], level[IF 2 * i <= Len(level) THEN 2 * i ELSE 2 * i - 1])
    BY DEF NextLevel
  <1>. HIDE DEF f, m
  <1>3. IsList(f) /\ Len(f) = m
    BY <1>1, <1>2, ListOf
  <1>. QED BY <1>2, <1>3 DEF f, m

\* Equal parents have equal children.
LEMMA ParentInjective ==
    ASSUME NEW l1, NEW r1, NEW l2, NEW r2, Parent(l1, r1) = Parent(l2, r2)
    PROVE  l1 = l2 /\ r1 = r2
  <1>1. Parent(l1, r1).left = Parent(l2, r2).left /\ Parent(l1, r1).right = Parent(l2, r2).right
    OBVIOUS
  <1>. QED BY <1>1 DEF Parent

\* A round loses nothing of a list of known length.
LEMMA RoundInjective ==
    ASSUME NEW s, NEW t, IsList(s), IsList(t), Len(s) = Len(t), NextLevel(s) = NextLevel(t)
    PROVE  s = t
  <1>. DEFINE n == Len(s)
              m == (n + 1) \div 2
  <1>1. n \in Nat
    BY ListDomain
  <1>2. ASSUME NEW j \in 1..m
        PROVE  /\ s[2 * j - 1] = t[2 * j - 1]
               /\ 2 * j <= n => s[2 * j] = t[2 * j]
    <2>1. Parent(s[2 * j - 1], s[IF 2 * j <= n THEN 2 * j ELSE 2 * j - 1])
            = Parent(t[2 * j - 1], t[IF 2 * j <= n THEN 2 * j ELSE 2 * j - 1])
      BY <1>1, RoundHalves
    <2>. QED BY <2>1, ParentInjective
  <1>3. ASSUME NEW i \in 1..n PROVE s[i] = t[i]
    <2>. DEFINE j == (i + 1) \div 2
    <2>1. j \in 1..m /\ (i = 2 * j - 1 \/ (i = 2 * j /\ 2 * j <= n))
      BY <1>1
    <2>. HIDE DEF j, m
    <2>. QED BY <2>1, <1>2
  <1>. QED BY <1>3, ListsEqual
----------------------------------------------------------------------------
\* One step of each of the two recursions over levels.
RoundOf(below) == IF Len(below) > 1 THEN NextLevel(below) ELSE below

Base(list) == [last |-> Len(list) - 1, node |-> [i \in Nat |-> list[i + 1]]]
Above(below) ==
    [last |-> below.last \div 2,
     node |-> [i \in Nat |->
         Parent(below.node[2 * i], below.node[IF 2 * i < below.last THEN 2 * i + 1 ELSE 2 * i])]]

IsRounds(f, list, n) == f = [k \in 0..n |-> IF k = 0 THEN list ELSE RoundOf(f[k - 1])]
IsLevels(f, list, n) == f = [k \in 0..n |-> IF k = 0 THEN Base(list) ELSE Above(f[k - 1])]

\* The recursion over the code's rounds has a solution.
LEMMA RoundsExist ==
    ASSUME NEW list, NEW n \in Nat
    PROVE  \E f : IsRounds(f, list, n)
  <1>. DEFINE T == {k \in Nat : \E f : IsRounds(f, list, k)}
  <1>1. 0 \in T
    <2>1. IsRounds([k \in 0..0 |-> list], list, 0)
      BY DEF IsRounds
    <2>. QED BY <2>1
  <1>2. ASSUME NEW k \in 1..n, k - 1 \in T PROVE k \in T
    <2>1. PICK g : IsRounds(g, list, k - 1)
      BY <1>2
    <2>. DEFINE f == [j \in 0..k |-> IF j = k THEN RoundOf(g[k - 1]) ELSE g[j]]
    <2>2. \A j \in 0..(k - 1) : g[j] = IF j = 0 THEN list ELSE RoundOf(g[j - 1])
      BY <2>1 DEF IsRounds
    <2>3. ASSUME NEW j \in 0..k PROVE f[j] = IF j = 0 THEN list ELSE RoundOf(f[j - 1])
      <3>1. CASE j = k
        <4>1. j # 0 /\ j - 1 \in 0..k /\ j - 1 # k
          BY <3>1
        <4>. QED BY <3>1, <4>1
      <3>2. CASE j # k
        <4>1. j \in 0..(k - 1) /\ (j # 0 => j - 1 \in 0..k /\ j - 1 # k)
          BY <3>2
        <4>. QED BY <3>2, <4>1, <2>2
      <3>. QED BY <3>1, <3>2
    <2>4. f = [j \in 0..k |-> f[j]]
      OBVIOUS
    <2>. HIDE DEF f
    <2>5. IsRounds(f, list, k)
      BY <2>3, <2>4 DEF IsRounds
    <2>. QED BY <2>5
  <1>. HIDE DEF T
  <1>3. n \in T
    BY <1>1, <1>2, Reaches
  <1>. QED BY <1>3 DEF T

\* The recursion over the levels of the tree has a solution.
LEMMA LevelsExist ==
    ASSUME NEW list, NEW n \in Nat
    PROVE  \E f : IsLevels(f, list, n)
  <1>. DEFINE T == {k \in Nat : \E f : IsLevels(f, list, k)}
  <1>1. 0 \in T
    <2>1. IsLevels([k \in 0..0 |-> Base(list)], list, 0)
      BY DEF IsLevels
    <2>. QED BY <2>1
  <1>2. ASSUME NEW k \in 1..n, k - 1 \in T PROVE k \in T
    <2>1. PICK g : IsLevels(g, list, k - 1)
      BY <1>2
    <2>. DEFINE f == [j \in 0..k |-> IF j = k THEN Above(g[k - 1]) ELSE g[j]]
    <2>2. \A j \in 0..(k - 1) : g[j] = IF j = 0 THEN Base(list) ELSE Above(g[j - 1])
      BY <2>1 DEF IsLevels
    <2>3. ASSUME NEW j \in 0..k PROVE f[j] = IF j = 0 THEN Base(list) ELSE Above(f[j - 1])
      <3>1. CASE j = k
        <4>1. j # 0 /\ j - 1 \in 0..k /\ j - 1 # k
          BY <3>1
        <4>. QED BY <3>1, <4>1
      <3>2. CASE j # k
        <4>1. j \in 0..(k - 1) /\ (j # 0 => j - 1 \in 0..k /\ j - 1 # k)
          BY <3>2
        <4>. QED BY <3>2, <4>1, <2>2
      <3>. QED BY <3>1, <3>2
    <2>4. f = [j \in 0..k |-> f[j]]
      OBVIOUS
    <2>. HIDE DEF f
    <2>5. IsLevels(f, list, k)
      BY <2>3, <2>4 DEF IsLevels
    <2>. QED BY <2>5
  <1>. HIDE DEF T
  <1>3. n \in T
    BY <1>1, <1>2, Reaches
  <1>. QED BY <1>3 DEF T

\* The code's rounds, one at a time.
LEMMA RoundsDef ==
    ASSUME NEW list, Len(list) \in Nat
    PROVE  /\ DOMAIN Rounds(list) = 0..Len(list)
           /\ Rounds(list)[0] = list
           /\ \A k \in 1..Len(list) : Rounds(list)[k] = RoundOf(Rounds(list)[k - 1])
  <1>. DEFINE r == Rounds(list)
  <1>1. r = CHOOSE f : IsRounds(f, list, Len(list))
    BY DEF Rounds, IsRounds, RoundOf
  <1>2. IsRounds(r, list, Len(list))
    BY <1>1, RoundsExist
  <1>. HIDE DEF r
  <1>. QED BY <1>2 DEF IsRounds, r

\* The levels of the tree, one at a time.
LEMMA LevelsDef ==
    ASSUME NEW list, Len(list) \in Nat
    PROVE  /\ DOMAIN Levels(list) = 0..Len(list)
           /\ Levels(list)[0] = Base(list)
           /\ \A k \in 1..Len(list) : Levels(list)[k] = Above(Levels(list)[k - 1])
  <1>. DEFINE r == Levels(list)
  <1>1. r = CHOOSE f : IsLevels(f, list, Len(list))
    BY DEF Levels, IsLevels, Base, Above
  <1>2. IsLevels(r, list, Len(list))
    BY <1>1, LevelsExist
  <1>. HIDE DEF r
  <1>. QED BY <1>2 DEF IsLevels, r
----------------------------------------------------------------------------
\* level is level k of the tree over list, as the code's rounds make it and as
\* it is defined from above, and no level below it has a single node.
AtLevel(list, level, k) ==
    LET ref == Levels(list)[k] IN
    /\ level = Rounds(list)[k]
    /\ IsList(level)
    /\ ref.last \in Nat /\ Len(level) = ref.last + 1
    /\ \A i \in 0..ref.last : level[i + 1] = ref.node[i]
    /\ k + Len(level) <= Len(list)
    /\ \A j \in 0..(k - 1) : Levels(list)[j].last # 0

\* The leaves are level 0.
LEMMA LeavesAreLevel ==
    ASSUME NEW list, IsList(list), list # <<>>
    PROVE  AtLevel(list, list, 0)
  <1>. DEFINE n == Len(list)
              ref == Levels(list)[0]
  <1>1. n \in Nat /\ n # 0
    BY ListDomain DEF IsList
  <1>2. Rounds(list)[0] = list /\ ref = Base(list)
    BY <1>1, RoundsDef, LevelsDef
  <1>3. ref.last = n - 1 /\ ref.node = [i \in Nat |-> list[i + 1]]
    BY <1>2 DEF Base
  <1>. HIDE DEF ref, n
  <1>4. \A i \in 0..ref.last : list[i + 1] = ref.node[i]
    BY <1>1, <1>3
  <1>. QED BY <1>1, <1>2, <1>3, <1>4 DEF AtLevel, ref, n

\* A round takes a level with two nodes or more to the next one.
LEMMA RoundIsLevel ==
    ASSUME NEW list, IsList(list), NEW level, NEW k \in Nat, AtLevel(list, level, k), Len(level) > 1
    PROVE  k + 1 \in 0..Len(list) /\ AtLevel(list, NextLevel(level), k + 1)
  <1>. DEFINE n == Len(list)
              m == Len(level)
              L == Levels(list)
              last == L[k].last
              next == NextLevel(level)
              ref == L[k + 1]
  <1>1. /\ n \in Nat /\ m \in Nat /\ m > 1 /\ m = last + 1 /\ k + m <= n
        /\ last \in Nat /\ IsList(level) /\ level = Rounds(list)[k]
        /\ \A i \in 0..last : level[i + 1] = L[k].node[i]
        /\ \A j \in 0..(k - 1) : L[j].last # 0
    BY ListDomain DEF AtLevel
  <1>2. k + 1 \in 1..n /\ (k + 1) - 1 = k
    BY <1>1
  <1>3. next = Rounds(list)[k + 1]
    <2>1. Rounds(list)[k + 1] = RoundOf(Rounds(list)[k])
      BY <1>1, <1>2, RoundsDef
    <2>. QED BY <1>1, <2>1 DEF RoundOf
  <1>4. ref = Above(L[k])
    BY <1>1, <1>2, LevelsDef
  <1>5. /\ ref.last = last \div 2
        /\ \A i \in Nat : ref.node[i] = Parent(L[k].node[2 * i], L[k].node[IF 2 * i < last THEN 2 * i + 1 ELSE 2 * i])
    BY <1>4 DEF Above
  <1>6. /\ IsList(next) /\ Len(next) = (m + 1) \div 2
        /\ \A i \in 1..((m + 1) \div 2) :
              next[i] = Parent(level[2 * i - 1], level[IF 2 * i <= m THEN 2 * i ELSE 2 * i - 1])
    BY <1>1, RoundHalves
  <1>. HIDE DEF n, m, L, last, next, ref
  <1>7. ref.last \in Nat /\ Len(next) = ref.last + 1 /\ k + 1 + Len(next) <= n
    BY <1>1, <1>5, <1>6
  <1>8. ASSUME NEW i \in 0..ref.last PROVE next[i + 1] = ref.node[i]
    <2>1. /\ i \in Nat /\ i + 1 \in 1..((m + 1) \div 2) /\ 2 * i \in 0..last
          /\ 2 * (i + 1) - 1 = 2 * i + 1 /\ 2 * (i + 1) = (2 * i + 1) + 1
          /\ (2 * (i + 1) <= m) <=> (2 * i < last)
          /\ (2 * i < last => 2 * i + 1 \in 0..last)
      BY <1>1, <1>5, <1>7
    <2>2. next[i + 1] = Parent(level[2 * i + 1], level[IF 2 * i < last THEN (2 * i + 1) + 1 ELSE 2 * i + 1])
      BY <1>6, <2>1
    <2>3. level[2 * i + 1] = L[k].node[2 * i]
      BY <1>1, <2>1
    <2>4. 2 * i < last => level[(2 * i + 1) + 1] = L[k].node[2 * i + 1]
      BY <1>1, <2>1
    <2>5. ref.node[i] = Parent(L[k].node[2 * i], L[k].node[IF 2 * i < last THEN 2 * i + 1 ELSE 2 * i])
      BY <1>5, <2>1
    <2>. QED BY <2>2, <2>3, <2>4, <2>5
  <1>9. \A j \in 0..((k + 1) - 1) : L[j].last # 0
    <2>1. L[k].last # 0
      BY <1>1 DEF last
    <2>2. \A j \in 0..((k + 1) - 1) : j = k \/ j \in 0..(k - 1)
      BY <1>2
    <2>. QED BY <1>1, <2>1, <2>2
  <1>. QED BY <1>2, <1>3, <1>6, <1>7, <1>8, <1>9 DEF AtLevel, n, L, next, ref

\* The level with a single node is the top, and further rounds leave it.
LEMMA TopIsRoot ==
    ASSUME NEW list, IsList(list), NEW level, NEW k \in Nat, AtLevel(list, level, k), Len(level) <= 1
    PROVE  /\ Len(level) = 1
           /\ level[1] = RootOf(list)
           /\ Rounds(list)[Len(list)] = level
  <1>. DEFINE n == Len(list)
              L == Levels(list)
  <1>1. /\ n \in Nat /\ k \in 0..n /\ Len(level) = 1 /\ L[k].last = 0
        /\ level[1] = L[k].node[0] /\ level = Rounds(list)[k]
        /\ \A j \in 0..(k - 1) : L[j].last # 0
    <2>1. /\ n \in Nat /\ L[k].last \in Nat /\ Len(level) = L[k].last + 1 /\ k + Len(level) <= n
          /\ \A i \in 0..L[k].last : level[i + 1] = L[k].node[i]
          /\ level = Rounds(list)[k]
          /\ \A j \in 0..(k - 1) : L[j].last # 0
      BY ListDomain DEF AtLevel
    <2>. HIDE DEF n, L
    <2>2. L[k].last = 0 /\ Len(level) = 1 /\ k \in 0..n
      BY <2>1
    <2>3. level[0 + 1] = L[k].node[0]
      BY <2>1, <2>2
    <2>. QED BY <2>1, <2>2, <2>3
  <1>2. DOMAIN L = 0..n
    BY <1>1, LevelsDef
  <1>3. Top(L) = k
    <2>. DEFINE IsTop(t) == t \in 0..n /\ L[t].last = 0 /\ \A j \in 0..(t - 1) : L[j].last # 0
                top == Top(L)
    <2>1. top = CHOOSE t \in DOMAIN L : L[t].last = 0 /\ \A j \in 0..(t - 1) : L[j].last # 0
      BY DEF Top
    <2>. HIDE DEF L, n, top
    <2>2. top \in 0..n /\ L[top].last = 0 /\ \A j \in 0..(top - 1) : L[j].last # 0
      BY <1>1, <1>2, <2>1
    <2>3. ~(top < k) /\ ~(k < top)
      <3>1. top < k => top \in 0..(k - 1)
        BY <1>1, <2>2
      <3>2. k < top => k \in 0..(top - 1)
        BY <1>1, <2>2
      <3>. QED BY <1>1, <2>2, <3>1, <3>2
    <2>4. top = k
      BY <1>1, <2>2, <2>3
    <2>. QED BY <2>4 DEF top
  <1>4. level[1] = RootOf(list)
    BY <1>1, <1>3 DEF RootOf
  <1>5. Rounds(list)[n] = level
    <2>. DEFINE r == Rounds(list)
                T == {j \in Nat : k + j <= n => r[k + j] = level}
    <2>1. \A j \in 1..n : r[j] = RoundOf(r[j - 1])
      BY <1>1, RoundsDef
    <2>2. RoundOf(level) = level
      BY <1>1 DEF RoundOf
    <2>. HIDE DEF n, r
    <2>3. 0 \in T
      BY <1>1 DEF r
    <2>4. ASSUME NEW j \in 1..n, j - 1 \in T PROVE j \in T
      <3>. SUFFICES ASSUME k + j <= n PROVE r[k + j] = level
        OBVIOUS
      <3>1. k + (j - 1) <= n /\ (k + j) - 1 = k + (j - 1) /\ k + j \in 1..n
        BY <1>1
      <3>2. r[k + (j - 1)] = level
        BY <2>4, <3>1
      <3>. QED BY <2>1, <2>2, <3>1, <3>2
    <2>. HIDE DEF T
    <2>5. n - k \in T
      <3>1. n - k \in 0..n
        BY <1>1
      <3>. QED BY <1>1, <2>3, <2>4, <3>1, Reaches
    <2>6. k + (n - k) = n /\ n <= n
      BY <1>1
    <2>. QED BY <2>5, <2>6 DEF T, n, r
  <1>. QED BY <1>1, <1>4, <1>5

\* What is left of a list after a round, or after none.
LEMMA RoundOfLength ==
    ASSUME NEW below, IsList(below)
    PROVE  /\ IsList(RoundOf(below))
           /\ Len(RoundOf(below)) = IF Len(below) > 1 THEN (Len(below) + 1) \div 2 ELSE Len(below)
  <1>1. CASE Len(below) > 1
    <2>1. RoundOf(below) = NextLevel(below)
      BY <1>1 DEF RoundOf
    <2>. QED BY <1>1, <2>1, RoundHalves
  <1>2. CASE ~(Len(below) > 1)
    BY <1>2 DEF RoundOf
  <1>. QED BY <1>1, <1>2

\* Lists of one length stay of one length, round by round.
LEMMA SameLengths ==
    ASSUME NEW s, NEW t, IsList(s), IsList(t), Len(s) = Len(t)
    PROVE  \A k \in 0..Len(s) :
              /\ IsList(Rounds(s)[k]) /\ IsList(Rounds(t)[k])
              /\ Len(Rounds(s)[k]) = Len(Rounds(t)[k])
  <1>. DEFINE n == Len(s)
              p == Rounds(s)
              q == Rounds(t)
              Same(k) == IsList(p[k]) /\ IsList(q[k]) /\ Len(p[k]) = Len(q[k])
              T == {k \in Nat : Same(k)}
  <1>1. n \in Nat /\ Len(t) = n
    BY ListDomain
  <1>2. /\ p[0] = s /\ \A k \in 1..n : p[k] = RoundOf(p[k - 1])
        /\ q[0] = t /\ \A k \in 1..n : q[k] = RoundOf(q[k - 1])
    BY <1>1, RoundsDef
  <1>. HIDE DEF p, q
  <1>3. 0 \in T
    BY <1>2
  <1>4. ASSUME NEW k \in 1..n, k - 1 \in T PROVE k \in T
    <2>1. Same(k - 1) /\ p[k] = RoundOf(p[k - 1]) /\ q[k] = RoundOf(q[k - 1])
      BY <1>2, <1>4
    <2>2. Same(k)
      BY <2>1, RoundOfLength
    <2>. QED BY <2>2
  <1>. HIDE DEF T, n
  <1>5. 0..n \subseteq T
    BY <1>1, <1>3, <1>4, Reaches
  <1>. QED BY <1>5 DEF T, n, p, q

\* Going down from one and the same top, the rounds were the same all along.
LEMMA TopFixesList ==
    ASSUME NEW s, NEW t, IsList(s), IsList(t), Len(s) = Len(t),
           Rounds(s)[Len(s)] = Rounds(t)[Len(s)]
    PROVE  s = t
  <1>. DEFINE n == Len(s)
              p == Rounds(s)
              q == Rounds(t)
              T == {j \in Nat : p[n - j] = q[n - j]}
  <1>1. n \in Nat /\ Len(t) = n
    BY ListDomain
  <1>2. /\ p[0] = s /\ \A k \in 1..n : p[k] = RoundOf(p[k - 1])
        /\ q[0] = t /\ \A k \in 1..n : q[k] = RoundOf(q[k - 1])
    BY <1>1, RoundsDef
  <1>3. \A k \in 0..n : IsList(p[k]) /\ IsList(q[k]) /\ Len(p[k]) = Len(q[k])
    BY SameLengths
  <1>. HIDE DEF p, q
  <1>4. 0 \in T
    BY <1>1 DEF p, q
  <1>5. ASSUME NEW j \in 1..n, j - 1 \in T PROVE j \in T
    <2>. DEFINE k == n - (j - 1)
    <2>1. k \in 1..n /\ k - 1 = n - j /\ k - 1 \in 0..n
      BY <1>1
    <2>2. p[k] = q[k]
      BY <1>5
    <2>. HIDE DEF k
    <2>3. RoundOf(p[k - 1]) = RoundOf(q[k - 1])
      BY <1>2, <2>1, <2>2
    <2>4. IsList(p[k - 1]) /\ IsList(q[k - 1]) /\ Len(p[k - 1]) = Len(q[k - 1])
      BY <1>3, <2>1
    <2>5. p[k - 1] = q[k - 1]
      BY <2>3, <2>4, RoundInjective DEF RoundOf
    <2>. QED BY <2>1, <2>5
  <1>. HIDE DEF T, n
  <1>6. n \in T
    <2>1. 0..n \subseteq T
      BY <1>1, <1>4, <1>5, Reaches
    <2>. QED BY <1>1, <2>1
  <1>7. p[n - n] = q[n - n] /\ n - n = 0
    BY <1>1, <1>6 DEF T
  <1>. QED BY <1>2, <1>7 DEF p, q
----------------------------------------------------------------------------
\* What is cached is the top of the tree over the leaves, and what the loop
\* holds is one of its levels.
TreeIInv ==
    /\ TreeTypeOK
    /\ computing => leaves # <<>> /\ \E k \in 0..Len(leaves) : AtLevel(leaves, current_level, k)
    /\ root # NoRoot =>
          /\ root = Cached(RootOf(leaves))
          /\ Rounds(leaves)[Len(leaves)] = <<RootOf(leaves)>>

\* A new tree has no leaves and no root.
LEMMA InitTree == TreeInit => TreeIInv
  <1>. SUFFICES ASSUME TreeInit PROVE TreeIInv
    OBVIOUS
  <1>1. leaves \in Seq(Hashes) /\ Len(leaves) <= MaxLeaves
    BY MerkleTreeAssumption DEF TreeInit
  <1>2. Len(root) <= 1 /\ ~(root # NoRoot)
    BY DEF TreeInit, NoRoot
  <1>3. computing \in BOOLEAN /\ ~computing /\ current_level = <<>>
    BY DEF TreeInit
  <1>. QED BY <1>1, <1>2, <1>3 DEF TreeIInv, TreeTypeOK

\* Adding a leaf forgets the root, a round climbs a level, the exit caches the top.
LEMMA StepTree == TreeIInv /\ [TreeNext]_treeVars => TreeIInv'
  <1>. SUFFICES ASSUME TreeIInv, [TreeNext]_treeVars PROVE TreeIInv'
    OBVIOUS
  <1>0. /\ leaves \in Seq(Hashes) /\ IsList(leaves) /\ Len(leaves) \in Nat
        /\ leaves # <<>> => Len(leaves) \in 1..Len(leaves)
    <2>1. leaves \in Seq(Hashes)
      BY DEF TreeIInv, TreeTypeOK
    <2>2. Len(leaves) \in Nat /\ DOMAIN leaves = 1..Len(leaves) /\ leaves = [i \in 1..Len(leaves) |-> leaves[i]]
      BY <2>1
    <2>3. IsList(leaves)
      BY <2>2, ListOf
    <2>. QED BY <2>1, <2>2, <2>3
  <1>1. ASSUME NEW hash \in Hashes, AddLeaf(hash) PROVE TreeIInv'
    <2>1. /\ leaves' \in Seq(Hashes) /\ Len(leaves') <= MaxLeaves
          /\ root' = NoRoot /\ computing' = computing /\ ~computing /\ current_level' = <<>>
      BY <1>0, <1>1, MerkleTreeAssumption DEF AddLeaf, TreeIInv, TreeTypeOK
    <2>2. Len(root') <= 1 /\ ~(root' # NoRoot)
      BY <2>1 DEF NoRoot
    <2>3. computing' \in BOOLEAN /\ ~computing'
      BY <2>1 DEF TreeIInv, TreeTypeOK
    <2>. QED BY <2>1, <2>2, <2>3 DEF TreeIInv, TreeTypeOK
  <1>2. CASE ComputeRoot
    <2>1. /\ leaves' = leaves /\ root' = root /\ computing' = TRUE /\ current_level' = leaves
          /\ leaves # <<>>
      BY <1>2 DEF ComputeRoot
    <2>2. AtLevel(leaves, leaves, 0) /\ 0 \in 0..Len(leaves)
      BY <1>0, <2>1, LeavesAreLevel
    <2>3. TreeTypeOK'
      BY <1>0, <2>1 DEF TreeIInv, TreeTypeOK
    <2>. QED BY <2>1, <2>2, <2>3 DEF TreeIInv
  <1>3. CASE Round
    <2>1. /\ leaves' = leaves /\ root' = root /\ computing' = computing /\ computing
          /\ current_level' = NextLevel(current_level) /\ Len(current_level) > 1
      BY <1>3 DEF Round
    <2>2. PICK k \in 0..Len(leaves) : AtLevel(leaves, current_level, k)
      BY <2>1 DEF TreeIInv
    <2>3. /\ k + 1 \in 0..Len(leaves)
          /\ AtLevel(leaves, NextLevel(current_level), k + 1)
      BY <1>0, <2>1, <2>2, RoundIsLevel
    <2>4. Len(NextLevel(current_level)) \in 1..Len(leaves)
      BY <1>0, <2>3 DEF AtLevel
    <2>5. TreeTypeOK'
      BY <2>1, <2>4 DEF TreeIInv, TreeTypeOK
    <2>. QED BY <2>1, <2>3, <2>5 DEF TreeIInv
  <1>4. CASE Computed
    <2>1. /\ leaves' = leaves /\ root' = Cached(current_level[1]) /\ computing' = FALSE /\ computing
          /\ current_level' = <<>> /\ Len(current_level) <= 1
      BY <1>4 DEF Computed
    <2>2. PICK k \in 0..Len(leaves) : AtLevel(leaves, current_level, k)
      BY <2>1 DEF TreeIInv
    <2>3. /\ Len(current_level) = 1 /\ current_level[1] = RootOf(leaves)
          /\ Rounds(leaves)[Len(leaves)] = current_level
      BY <1>0, <2>1, <2>2, TopIsRoot
    <2>4. current_level = <<RootOf(leaves)>>
      <3>1. IsList(current_level)
        BY <2>2 DEF AtLevel
      <3>. QED BY <2>3, <3>1 DEF IsList
    <2>5. TreeTypeOK'
      <3>1. Len(root') <= 1
        BY <2>1 DEF Cached
      <3>2. computing' \in BOOLEAN /\ ~computing'
        BY <2>1
      <3>3. leaves' \in Seq(Hashes) /\ Len(leaves') <= MaxLeaves
        BY <2>1 DEF TreeIInv, TreeTypeOK
      <3>. QED BY <2>1, <3>1, <3>2, <3>3 DEF TreeTypeOK
    <2>. QED BY <2>1, <2>3, <2>4, <2>5 DEF TreeIInv
  <1>5. CASE UNCHANGED treeVars
    BY <1>5 DEF treeVars, TreeIInv, TreeTypeOK
  <1>. QED BY <1>1, <1>2, <1>3, <1>4, <1>5 DEF TreeNext, ComputeRootErr

\* The inductive invariant holds of every tree.
LEMMA SpecTree == TreeSpec => []TreeIInv
  BY InitTree, StepTree, PTL DEF TreeSpec

\* The loop of compute_root always has a node, so its unwrap() cannot fail.
THEOREM TreeTypeCorrect == TreeSpec => []TreeTypeOK
  <1>1. TreeIInv => TreeTypeOK BY DEF TreeIInv
  <1>. QED BY <1>1, SpecTree, PTL

\* A cached root is the root of the leaves in the tree, for any number of them.
THEOREM RootIsFresh == TreeSpec => []RootFresh
  <1>1. TreeIInv => RootFresh BY DEF TreeIInv, RootFresh
  <1>. QED BY <1>1, SpecTree, PTL

\* A cached root has one list of leaves of the tree's length.
THEOREM RootFixes == TreeSpec => []RootFixesLeaves
  <1>1. TreeIInv => RootFixesLeaves
    <2>. DEFINE n == Len(leaves)
    <2>. SUFFICES ASSUME TreeIInv, root # NoRoot, NEW others \in [1..n -> Hashes],
                         Cached(Rounds(others)[n][1]) = root
                  PROVE  others = leaves
      BY DEF RootFixesLeaves
    <2>1. leaves \in Seq(Hashes) /\ n \in Nat /\ leaves = [i \in 1..n |-> leaves[i]]
      BY DEF TreeIInv, TreeTypeOK
    <2>2. others = [i \in 1..n |-> others[i]]
      OBVIOUS
    <2>3. Rounds(leaves)[n] = <<RootOf(leaves)>> /\ root = Cached(RootOf(leaves))
      BY DEF TreeIInv
    <2>. HIDE DEF n
    <2>4. IsList(leaves) /\ IsList(others) /\ Len(others) = n /\ Len(leaves) = n
      BY <2>1, <2>2, ListOf DEF n
    <2>5. /\ IsList(Rounds(others)[n]) /\ IsList(Rounds(leaves)[n])
          /\ Len(Rounds(others)[n]) = Len(Rounds(leaves)[n])
      <3>1. n \in 0..n
        BY <2>1
      <3>2. \A k \in 0..Len(others) :
              /\ IsList(Rounds(others)[k]) /\ IsList(Rounds(leaves)[k])
              /\ Len(Rounds(others)[k]) = Len(Rounds(leaves)[k])
        BY <2>4, SameLengths
      <3>. QED BY <2>4, <3>1, <3>2
    <2>6. Rounds(others)[n][1] = RootOf(leaves)
      BY <2>3 DEF Cached
    <2>7. Rounds(others)[n] = Rounds(leaves)[n]
      BY <2>3, <2>5, <2>6, ListsEqual
    <2>. QED BY <2>4, <2>7, TopFixesList
  <1>. QED BY <1>1, SpecTree, PTL

\* Every round of compute_root's loop shortens the level, and leaves a node: of
\* any number of leaves, the rounds end, and end at one node.
THEOREM RoundsShorten ==
    TreeSpec => [][Round => /\ Len(current_level') >= 1
                           /\ Len(current_level') < Len(current_level)]_treeVars
  <1>1. ASSUME TreeIInv, Round
        PROVE  Len(current_level') >= 1 /\ Len(current_level') < Len(current_level)
    <2>1. /\ computing /\ Len(current_level) > 1
          /\ current_level' = NextLevel(current_level)
      BY <1>1 DEF Round
    <2>2. IsList(current_level)
      BY <1>1, <2>1 DEF TreeIInv, AtLevel
    <2>3. Len(current_level') = (Len(current_level) + 1) \div 2 /\ Len(current_level) \in Nat
      BY <2>1, <2>2, RoundHalves, ListDomain
    <2>. QED BY <2>1, <2>3
  <1>. QED BY <1>1, SpecTree, PTL DEF TreeSpec
=============================================================================
