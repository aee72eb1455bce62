# Verity Engine: specification, model checking and proofs

TLA+ modules for the Rust workspace in `src/crates`, TLC configurations that
check them on small instances, and theorems about them that TLAPS checks for
every value of the constants.

## 1. The system

Verity is a library: five crates of plain values and in-memory structures that a
settlement host calls. It has no threads, no I/O, no storage and no scheduler of
its own; every method runs to its end before the next one starts. What is hard
in it is therefore not scheduling but long sequences of legal calls, copies of
values that move apart, boundaries of time and of `i64`, calls that fail half
way, and data that is checked long after it was written.

| Component | Source | State | Operations | Correct when |
|---|---|---|---|---|
| Outcome state machine | `verity-outcomes/src/lib.rs` | `current`, `history` | `new`, `transition` (Ok/Err), `is_terminal` | history is a path of the table, a decision is settled once, a reversal keeps the verdict on record |
| Finality class | `verity-finality/src/lib.rs` | none: a value every holder copies | `reverse`, `confirm`, `check_window_expiry`, `default_finality`, `is_reversible`, `is_final` | reversals happen inside the window, nothing is final early, a verdict stays |
| Reversal journal | `verity-finality/src/lib.rs` | `entries` | `record`, `entries_for_settlement` | append-only; one entry per reversal (the host's duty) |
| Money, basis points | `verity-kernel/src/money.rs`, `basis_points.rs` | none | `add`, `subtract`, `split_bps`, `apply_modifier_bps`, `validate_shares` | no minor unit is made or lost, no overflow goes unnoticed |
| Money ledger | `verity-ledgers/src/money_ledger.rs` | `entries`, `next_entry_id` | `append`, `entries_for_agent`, `net_balance`, `verify_balance` | ids name entries, both sums are exact, and they agree |
| Evidence ledger | `verity-ledgers/src/evidence_ledger.rs` | `entries`, `next_entry_id` | `append`, `entries_for_condition` | ids name entries, filtering loses nothing |
| Receipt chain | `verity-integrity/src/chain.rs` | `entries` | `append` (Ok/Err), `verify`, `latest_hash` | what was appended verifies, what was altered does not |
| Merkle tree | `verity-integrity/src/merkle.rs` | `leaves`, cached `root` | `add_leaf`, `compute_root`, `root` | the cached root is never stale, a root fixes its leaves |
| Canonical form | `verity-kernel/src/canonical.rs` | none | `canonical_serialize`, `canonical_hash` | equal values, equal bytes, whatever the key order; other values, other bytes |
| Replay and policy hashes | `verity-integrity/src/replay.rs`, `policy.rs` | none | compute, verify, `canonical_json` | a hash is accepted for exactly what it was computed from; both canonical texts are one |
| Signing, attestation | `verity-integrity/src/signing.rs`, `attestation.rs` | a key | sign, verify | verification accepts exactly what was signed, and what does not decode is an error |
| Timestamp authority | `verity-integrity/src/timestamp.rs` | none | `todo!()` | nothing implemented |
| Ids | `verity-kernel/src/ids.rs` | none | `new`, `generate` | a kind of id takes exactly what it gives out |
| Time, errors | `verity-kernel/src/time.rs`, `error.rs` | none | comparison, additions; parsing, formatting | the comparisons are those finality relies on |
| Host flow | `verity-tests/tests/` | all of the above | a test that strings the components together | evidence, outcome, chain, ledger and finality tell one story |

Components interact only through their callers: a host runs the outcome machine,
asks an adapter for a finality class, appends receipts to the chain and movements
to the ledgers. No crate calls another one's operations, except that ledgers and
splits use `Money`, and chain and replay use the canonical form.

The hazards, each at its line and with the properties that would catch it, are in
`PROJECT.json`. There is no crash recovery, message passing or lock in the code
and none is modelled. What replaces them here: several holders of stale copies,
reports that come late or twice, calls of one settlement in any order, a call
that fails between two others, and data that is stored or carried between the
moment it is written and the moment it is checked.

## 2. Modules

| Module | Models | Kind |
|---|---|---|
| `DecisionLifecycle` | what an outcome machine promises: open, timed out, contested, decided once, reversed | abstract specification |
| `OutcomeStateMachine` | `verity-outcomes`; implements `DecisionLifecycle` | component |
| `Finality` (+ `MCFinality`) | copies of one settlement's `FinalityClass`, reports of past events, a clock | component |
| `Sums` | running totals, as the loops form them | operators |
| `MachineInt` | `i64` at a width a run can enumerate; a build that panics on overflow and one that wraps | operators |
| `Money` | `money.rs`, `basis_points.rs` | operators |
| `PaymentSplit` (+ `MCPaymentSplit`) | `split_bps` over every payment and every list of shares | operators over inputs |
| `MoneyLedger` (+ `MCMoneyLedger`) | `money_ledger.rs` | component |
| `VerityChain` | `chain.rs` | component |
| `StoredChain` (+ `MCStoredChain`) | a `VerityChain` altered where it is stored, and what `verify` then says | composition |
| `MerkleTree` | `merkle.rs`, the loop of `compute_root` round by round | component |
| `EvidenceLedger`, `ReversalJournal` | `evidence_ledger.rs`; the journal of `verity-finality` | components |
| `Settlement` (+ `MCSettlement`) | the host flow of `integration_test.rs`, continued to the end of the reversal window | composition of `OutcomeStateMachine`, `Finality`, `MoneyLedger`, `EvidenceLedger`, `VerityChain`, `ReversalJournal`, `Money` |
| `CanonicalForm` | `canonical.rs` and `canonical_json` of `policy.rs` | operators |
| `Signing` | `signing.rs`, `attestation.rs` | operators |
| `ReceiptHashes` | `replay.rs` and the hashes of `policy.rs` | operators |
| `Identifiers` | `ids.rs` | operators |
| `ReceiptExchange` (+ `MCReceiptExchange`) | receipts and attestations from the engine that makes them to the party that checks them | composition of the four modules above |
| `Induction` | lists, least numbers, running totals, sums of differences, machine arithmetic | lemmas |
| `OutcomeProofs`, `FinalityProofs`, `SplitProofs`, `LedgerProofs`, `IntegrityProofs` (chain and Merkle tree), `SettlementProofs`, `ReceiptProofs` | theorems about the modules they extend | proofs |

Conventions. An operation that returns `Result` is two actions, `...Ok` and
`...Err`, or a value `Ok(v)`, `Err(e)` or `Panic` where it has no state. The Err
action leaves the state alone, as the early returns do. A definition introduced by "Seeded fault" is a
plausible mistake in the definition below it; the model never uses it, and
putting it in that definition's place must break a property. Names follow the code.

### How state and actions correspond to the code

- `OutcomeStateMachine`: `current` and `history` are the two fields. The table is
  the union of four sets of pairs, one per comment of `is_valid_transition`.
  `TransitionOk` appends the entry, then moves, as `transition` does;
  `TransitionErr` is its early return. Timestamp and reason of an entry are left
  out: nothing reads them. The refinement reads phase off `current` and the
  verdict off the history.
- `Finality`: the methods take `&self` and return a new class, so a host's parties
  hold copies. `held[h]` is the copy of holder `h`; each action replaces one copy
  by what a method returns for it. `reverse` takes the instant of the event, any
  instant up to the present; `check_window_expiry` takes the present. Lengths of
  window and confirmation time are constants. `confirmed` is a history variable:
  the holders whose `confirm` returned `Ok`. `is_reversible` has no time to look
  at and stays true after the window; `OneWayOut` says what makes that harmless.
- `MachineInt`/`Money`: `Fits` and `Wrap` are the range and the wrap-around of an
  `i64`, `OverflowChecks` chooses the build (the workspace sets no profile, so
  tests and debug builds panic and release builds wrap). `SplitBps` keeps the
  order of the code: validation, products, sum, remainder, first payee. Every
  unchecked intermediate result that may leave the range is a disjunct of
  `overflows`. `SplitBpsIn` has the build as an argument, so that one run compares
  both. `add` and `subtract` are checked operations in both builds.
- `MoneyLedger`: `append` overwrites the caller's id and counts. `NetBalance`
  returns what the loop returns: the first entry of another currency or the first
  running balance out of range decides the error. `VerifyBalance` panics where an
  unchecked addition or negation leaves the range, and otherwise answers; where
  additions wrap, wrapping once at the end is the same as wrapping at each one.
- `VerityChain`: a SHA-256 digest is a constructor, so equal digests have equal
  inputs (no collisions). `verify` is the conjunction of the three checks of its
  loop for every entry. `verity_id` is in no hash input, as in the code.
- `MerkleTree`: `compute_root` takes `&mut self`, so no leaf is added while its loop
  runs; the loop is still modelled round by round, because that it ends and what it
  holds in between is what can be wrong. A parent is the pair of its children;
  leaves are digests of one length, so concatenating two of them loses nothing.
  The root does not fix the number of leaves: an odd last leaf and the same leaf
  twice have one parent.
- `StoredChain`: fields are private and no method changes an entry, so a change
  can only come from where the chain is kept; `test_tamper_detection` does it to
  one field. Overwriting any one field, recomputing an entry's hash, losing,
  repeating and swapping entries are the alterations.

- `EvidenceLedger`, `ReversalJournal`: the two lists and their filters, by index.
  Of an entry what a verdict or an audit reads is kept.
- `Settlement`: the host of `test_full_settlement_flow`. The test's straight line
  is opened up into actions, one per call or per chain of calls that `?` joins:
  the hold and each payout (`Move`), evidence (`Submit`), `transition` with the
  receipt of it (`Decide`), `default_finality` (`Settle`), the finality methods
  (`Wait`), a report of a reversal (`Reverse`): `reverse` on one holder's
  copy, `transition`, the receipt, the journal; and the reversal of a verdict nobody
  has a class of (`Correct`): a FAIL, which the tests of the outcome machine reverse
  as an "incorrect failure", or a SUCCESS whose payouts are not all made. Evidence is
  appended at any moment, also after a verdict or a reversal, as `append` takes it.
  What the test does not say is taken from the repository's README.md: SUCCESS
  releases the funds, FAIL returns them, a reversal is journaled. `Due` is the list of
  movements an outcome asks for: after a reversal, those made before it and their
  reverse, the payouts there were (`PayoutsMade`, read off the ledger), then the hold.
  `Parts` are the payees' amounts, computed by `split_bps`, where the test has
  the numbers written out. What a host is free to do otherwise is listed in section 5.
- `CanonicalForm`: a JSON value is a tagged record, a text a sequence of symbols. The
  members of an object are in an order, as in serde_json's `Map` when
  any crate of a build turns `preserve_order` on; without it they are sorted already
  and the sort changes nothing. Two ways to write a text
  differ in whether keys are escaped, which is what the two implementations differ in.
  The constants are the symbols of texts (`Symbols`), the keys in byte order (`KeyOrder`) and
  how deep values may be nested (`MaxDepth`; serde_json parses no deeper than 128). `Values[n]`
  is the set of all values of depth n; the recursive functions of the code (`sort_json_value`,
  `canonical_json`) are functions of the level, each made of the one below (`SortedFrom`,
  `TextFrom`), so that they can be proved about. An escape is made of two characters, the
  quote and the backslash; control characters, which serde_json writes as longer escapes,
  are not in texts.
- `Signing`, `ReceiptHashes`: a digest is the text it was computed from, a signature the
  key and the bytes. `Wire` is what prefix, alphabet, padding and length leave of
  bytes in a text, all that decoding looks at. `verify_attestation` takes a hash
  of any length, and a key and a signature only whole, as the code does.
- `Identifiers`: a text is its part up to the underscore and a sequence of
  characters; two digits stand for sixteen.
- `ReceiptExchange`: the maker signs `decision_content` of the test; carriers
  reverse the members of every object; what arrives may differ in some fields. The
  code is in what makes and what checks a message, the way between them is external.
  Its assumption says what hosts pass in: decisions and documents of the right types and depth,
  ids that `generate()` returned, and payloads of an attestation of the types of
  `AttestationPayload`: any text as the condition's id; a number, a bool and a timestamp
  ("ISO 8601 UTC", attestation.rs:16), which hold no punctuation mark or, the last, no quote.

## 3. Runs

Fairness is assumed once: a call of `compute_root` that has been made runs on, so
`MerkleTree` has weak fairness of the rounds and the exit of its loop, and of
nothing else. Every other method is one step. The code has no timer or thread that
promises to call a method again, so any other liveness property would rest on an
assumption nobody can point to; that a pending confirmation may stay pending for
ever (`FinalOnlyConfirmed`) is stated as what it may not become instead.

`CHECK_DEADLOCK FALSE` is set where a run ends because its bound is reached.

| Run | Question | Bounds, and why they are enough |
|---|---|---|
| `outcome` | do all sequences of calls follow the table, settle once, implement the lifecycle? | histories of 8: the longest way out of UNKNOWN has 4 steps, so up to four re-evaluations come before it |
| `outcome_timeout` (violated) | "UNKNOWN -> SUCCESS after timeout refund is forbidden" (README.md:92) | |
| `finality` | reports, confirmations and expiry checks in any order on two copies | window 3, clock to 6: settlements early and late, events before, at and after the last instant; two holders suffice to disagree |
| `split` | is a split exact, fair, payable, and when does it fail? | the code's scale 10000 in a 28 bit register, amounts around the point where products overflow, both signs, up to 3 payees; what is left of a split where products wrap is checked on the same inputs |
| `money_ledger` | are both sums exact, and do they agree? | a 4 bit register that two movements overflow from either side, the value whose negation does not fit, two currencies, two agents, 3 entries |
| `ledger_release` (violated) | the doc of `verify_balance` where sums wrap | the same |
| `stored_chain` | does everything appended verify, with distinct hashes, and what does `verify` see of alterations? | 3 entries of 2 receipts: the same receipt twice in a row, and failing ones in between; 3 alterations: overwriting a receipt, rehashing it and one alteration more |
| `merkle` | is the cached root the present one, does it fix the leaves, does its loop end? | 2 digests, 7 leaves: odd levels at the bottom (3, 5, 7), above it (5, 6) and none (2, 4); all 128 lists of the same length are compared |
| `stored_chain_intact` (violated) | "Verify the entire chain is intact (no gaps, no tampering)." (chain.rs:56) | |
| `receipts` | do the checks of a receipt and an attestation accept exactly what was made, and do they err exactly for what does not decode? | 2 messages (two receipts, two attestations, or one of each) of 2 keys, so that a signature has another one to be taken for; 2 changed fields, enough to exchange a field and the hash or signature that covers it; 6 documents with the same members nested, listed, quoted and reordered; 4 payloads, one with a quote in its condition's id; ids of 2 digits |
| `policy` (violated) | "This MUST produce identical output across all implementations." (policy.rs:28) | the same |
| `settlement` | do money, evidence, outcome, receipts, finality and journal tell one story? | a payment of 99 that does not divide by 7:3, and shares that are no whole; 2 holders of stale classes; window 2, clock to 2: its last instant and the one after; 3 outcome steps: a dispute or time out, a verdict, a reversal; 3 pieces of evidence, before and after the verdict; reversals after none, one or both payouts, before and after a refund; one entry of another settlement in the journal |

What the violated runs show:

- `outcome_timeout`: UNKNOWN, TIMEOUT, DISPUTED, SUCCESS is a path of the table.
- `ledger_release`: entries whose sides differ by the size of the register count as balanced.
- `stored_chain_intact`: a chain cut at the end, or with another `verity_id`, verifies.
- `policy`: a key with a quote in it is escaped by `canonical_serialize` and not by
  `canonical_json`, so the two hashes of the document differ.

Not a run, because it compares a document of the submission protocol with a
function of another crate: SUBMISSION_SPEC.md:155-166 computes `replay_hash` from
input state, rules and `outcome.state`, `compute_replay_hash` from input state,
rules and computation.

## 4. Proofs

All theorems hold for every value of the constants under the named assumptions of
the modules (`...Assumption`), which are typing only, but for `ContractsAssumption` (below). The type invariants of the outcome
machine, finality and the money ledger are proved (`TypeCorrect`) and not listed in a run.

- **Outcome** (`OutcomeProofs`): the inductive invariant adds to `TypeOK` and
  `HistoryIsPath` that each step climbs a rank (UNKNOWN below TIMEOUT below
  DISPUTED below decided below REVERSED). Ranks bound what follows the exit from
  UNKNOWN (`Concludes`) and forbid a second decision (`SettledOnce`); neither is
  inductive alone. `Implements` proves the refinement step by step, using that
  the decided step of a history is unique.
- **Finality** (`FinalityProofs`): every copy is one of few shapes, each tied to
  the settlement's adapter and instant, and to `confirmed`; all six safety
  properties and the action property `VerdictStable` follow from it.
- **Sums** (`Induction`): a data induction without an induction rule. A set of
  counterexamples has a least member (`HasLeast`, from the well-foundedness of the
  naturals), which gives existence and recursion of `Running`, and that sums of
  differences are differences of sums.
- **Split** (`SplitProofs`): replacing the first cut changes the total by the
  remainder; with overflow checks nothing wraps (`SplitIsExact`), without them
  everything wraps by whole turns of the register (`SplitIsExactWrapped`, from
  the lemmas on machine arithmetic of `Induction`). What rounding takes from each payee
  (`leaves`) is less than a minor unit and on the payment's side of zero; together it
  is the remainder (`RemainderIsLeft`). From this follow fairness (`SplitIsFair`),
  that all subtotals lie between nothing and the payment (`CutsWithin`, `PartsWithin`), so that
  none overflows (`SafeRangeIsSafe`), and that the parts can be paid out and taken back
  one by one (`PayoutSucceeds`).
- **Ledger** (`LedgerProofs`): `IdsSequential` is inductive with typing. The two
  sums are taken over deltas; `SidesDiffer` shows that deltas add up to what comes
  in less what goes out, for any set of entries. That balanced books mean balances
  that cancel (`BalancedNetsDoCancel`) relates a sum over entries to one over agents, taken
  in an order nobody knows: by induction on the number of agents already counted, it is what
  their entries add up to (`NetsAddUp`).
- **Chain** (`IntegrityProofs`): chain hashes are distinct because a second equal one
  would equal its predecessor's predecessor all the way down. The head hash fixes
  the history: walking back from two equal heads, the least place where two
  verified chains differ contradicts the injectivity of the hash. The invariant of
  `VerityChain` holds of what was written, alterations change only what is stored.
  That one alteration is seen needs `OneOff`: after the first one every stored entry
  is near one that was written, either that entry, perhaps elsewhere, or the entry of
  its place with one side of its hash kept; an entry near a written one that
  `verify` accepts is the one written in its place.
- **Merkle** (`IntegrityProofs`): what the loop holds is a level of the tree, both as
  the code's rounds make it and as it is defined from above (`RoundIsLevel`), and
  the first level with one node is the top. Lists of one length stay of one
  length, a round is injective on them, so equal tops are followed down to equal
  leaves (`TopFixesList`), again by least numbers.

- **Settlement** (`SettlementProofs`), for any payees, contracts, holders and
  window. `IInv` says that the journal has one entry of this settlement exactly when
  its outcome is REVERSED and none before, that this entry tells what every reversed copy
  and the receipt it names tell, that a copy in its window is the one the adapter gave, and
  that the movements made are the first of `Due`. The parts need each other: a second reversal
  is refused by the outcome machine, whose table is what makes the stale copies harmless.
  `Due` of a reversal depends on the ledger itself, so a second invariant goes with the
  prefix: the payees credited are the first ones, as many as payouts were made
  (`PayoutsOK`), and appending what is due takes none back (`DueShape` names the k-th
  movement of each outcome). Before a reversal, a movement stays right because `Due` of an
  outcome begins with `Due` of every outcome it can follow, which is false of the table with
  one row more; at the reversal itself, because what was made is what `Due` then begins
  with (`MoneyReversed`). `RInv` adds that ids of evidence count its appends, and that the
  entries a receipt names are still those it named, with what they show (`Rests`): a verdict is
  supported by them as it was, whatever came later. The chain and the history grow together.
  `BooksAreClosed` joins three components: `MoneyFollowsOutcome` says which movements were
  made, the lemmas of `SplitProofs` (as an instance over the contract) that their parts are
  not negative and add up to the payment, and the sums `verify_balance` and `net_balance`
  take are written down place by place and proved to be those (`VerifyIs`, `NetIs`).
  `ContractsAssumption` says that a payment is not negative and that the payees are different
  parties, none of them the payer: a contract of the integration test, where each party has one
  account. With a payee listed twice, the balances of the list would count its account twice.

- **The parts of the flow** (`SettlementProofs`): nothing in the crates says that a host that
  interleaves its calls uses each component as the component expects. It does: its calls are
  behaviours of `OutcomeStateMachine` (`FlowRunsMachine`), `VerityChain` (`FlowRunsChain`) and
  `MoneyLedger` (`FlowRunsLedger`), and from the settlement on of `Finality`, which does not move
  before (`FlowRunsFinality`). Each needs what the flow has proved of itself: a receipt
  serializes because ids of evidence are numbers (`RInv`), a movement is one the ledger takes because
  every part of a split fits the register, in either build (`PartsAreMonies`). What is proved
  of a component then holds in the flow, through instances of its module of proofs: the lifecycle
  of the decision (`FlowIsLifecycle`), the rules of the copies (`FlowKeepsCopyRules`,
  `FlowKeepsVerdicts`), and the ledger's answers while movements are still due, of
  which `BooksAreClosed` says nothing (`FlowKeepsBooks`, `FlowBalanceExact`).

- **Receipts** (`ReceiptProofs`), for any symbols, keys and depth, any number of messages and of
  changes. Data are recursive here, and the proof system has no induction over data: what is
  proved of all values is proved of their levels, by least numbers again (`Inherits`).
  Underneath are facts of texts. A joined list is read from its front: each item is known by
  what it begins with and ends at a comma or a closing mark, which no item begins
  with (`SamePieces`, `JoinedApart`); a quoted text ends at the first quote that is not
  escaped (`EscapedApart`). So the text of a value tells the value, even with more text behind it
  (`TextsReadable`), except that a scalar must be followed by a punctuation mark or nothing.
  Sorting makes two values one exactly if they mean the same (`SortedMeans`), and the two together
  are `CanonicalExact`. Both implementations write one text of a value whose keys
  need no escape (`PlainExact`). That an object ends with its brace makes a separator between the
  three texts of a replay hash unnecessary, as the middle one, the rules block, is an object
  (`TripleExact`). The text of an attestation cannot be read from its front, since a quote in the
  condition's id is not escaped; read from its end, field by field, it can
  (`AttestationTextExact`), because no field but the id holds the mark before it.
  The verdicts are invariants but not inductive. `MessagesAre` is: every message made is as its maker made
  it, and what arrives has the parts of a message and the bytes of a signature some maker
  computed, of whatever message and in whatever form. Each verdict then follows in one
  step from what the texts tell (`BytesMean`, `SignaturesBind`, `ReplaysBind`, `PoliciesBind`,
  `AttestationsBind`, `IdsKeepKind`). `MessagesAre` was checked on the bounds of `receipts` before it was proved.

Only model-checked: `Returns` (liveness). Its measure is proved: a round leaves a shorter
level, of at least one node (`RoundsShorten`); that a round is taken at all is the fairness.
`VerdictIsExact`, `BalancedNetsDoCancel`, `SplitIsExact`, `SplitIsFair`, `PayoutSucceeds`,
`BooksAreClosed` and `FlowBalanceExact` assume the build with
overflow checks; in the other build the first is false (`ledger_release`).

## 5. Order of the work, and what is left

Written: the outcome machine first, because every other component records or
reacts to its verdict; then finality (time), money and the ledger (arithmetic),
the chain and the Merkle tree (integrity), the evidence ledger and the journal with
the settlement that composes them, and the forms in which receipts travel. Every property
of a passing run but `Returns` is a theorem.

Not modelled:

- Texts of errors and of timestamps, RFC 3339 parsing, `now()`: chrono's, and
  no property reads them.
- Random bytes of keys and ids, base64 and ed25519 themselves: libraries, taken as ideal.
- The timestamp authority: `request` and `verify` are `todo!()`.
- `DecisionType`: a label that no code branches on.
- What a host of `Settlement` might do otherwise. No code or document fixes these; they are
  conventions of the modelled host, and its properties are relative to them:
  - PARTIAL is not decided: nothing says what happens to the funds. `OutcomeStateMachine`
    has it.
  - No outcome is decided before the hold, the order of the test; a dispute or a time out
    leaves the hold where it is.
  - A reversal undoes what was made. A reversed FAIL so leaves the funds returned: REVERSED is
    terminal, and no verdict would back a payout after it.
  - From the settlement on a reversal goes through a holder's class (`Reverse`), before it, or
    after a FAIL, there is no class to ask (`Correct`).
  - A transition and its receipt are one step. Between them no other call is made, since
    the receipt reads `current()`; `append` returns Err only where the content does not
    serialize, and this content does (`FlowRunsChain`). The failing append is in
    `StoredChain`.
  - That a settlement has one journal entry is the host's doing, who asks the shared outcome
    first: `record` takes any number, and `test_reversal_journal` records two of one settlement.
- Attestations whose `signed_at` is no timestamp: it is a `String` nobody checks, and with
  quotes in both it and the condition's id two payloads can have one text.
