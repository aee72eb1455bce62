--------------------------- MODULE ReceiptExchange ---------------------------
(***************************************************************************)
(* A receipt or an attestation on its way from the engine that made it to  *)
(* a party that checks it: hosts build receipts as the integration test    *)
(* of verity-tests does, carriers parse and write JSON in an order of      *)
(* their own, and what arrives may have been changed on the way.  The code *)
(* is what makes and what checks a message.                                *)
(***************************************************************************)
EXTENDS ReceiptHashes, Identifiers, FiniteSets

CONSTANTS
    Keys,           \* the signing keys
    Decisions,      \* what there is to decide, and how it was decided
    Payloads,       \* what verifiers attest
    Documents,      \* the documents a changed message may hold
    IdTexts,        \* the ids a changed message may name
    MaxIssued,      \* bound on the messages made
    MaxAlterations  \* bound on the changes made on the way

\* A receipt's own keys are among those of documents, and its members are
\* nested one deeper than documents.  Of what an attestation says, the id of
\* its condition may be any text, with quotes that nobody escapes; confidence
\* and result are a number and a bool, and signed_at is a timestamp.
ASSUME ReceiptExchangeAssumption ==
    /\ {<<"verity_id">>, <<"input_state">>, <<"rules_applied">>, <<"computation">>,
        <<"outcome">>, <<"replay_hash">>, <<"version_hash">>} \subseteq DocumentKeys
    /\ {"sha256:", "sha256"} \cup IdPrefixes \cup LowerHex \subseteq Symbols
    /\ MaxDepth > 1
    /\ Documents \subseteq Values[MaxDepth - 1]
    /\ \A d \in Decisions :
          /\ d.verity_id \in Generated("vrt_")
          /\ {d.policy, d.input_state, d.computation} \subseteq Documents
          /\ d.outcome \in Symbols
    /\ Payloads \subseteq
          [condition_id : Seq(Symbols), confidence_bps : Seq(Symbols \ Punctuation),
           result : Seq(Symbols \ Punctuation), signed_at : Seq(Symbols \ {Quote})]
    /\ IdTexts \subseteq [prefix : Symbols, rest : Seq(Symbols)]

VARIABLES issued, received, alterations

vars == <<issued, received, alterations>>

\* The rules block of a receipt names its policy by the policy's hash.
RulesApplied(policy) ==
    Obj(<< <<<<"version_hash">>, Str(PolicyContentHash(policy).bytes)>> >>)

\* decision_content of the test: what is appended to the chain and signed.
DecisionContent(r) ==
    Obj(<< <<<<"verity_id">>, Str(<<r.verity_id.prefix>> \o r.verity_id.rest)>>,
           <<<<"input_state">>, r.input_state>>,
           <<<<"rules_applied">>, r.rules_applied>>,
           <<<<"computation">>, r.computation>>,
           <<<<"outcome">>, Str(<<r.outcome>>)>>,
           <<<<"replay_hash">>, Str(<<r.replay_hash.prefix>> \o r.replay_hash.bytes)>> >>)

Receipt(key, d) ==
    LET rules == RulesApplied(d.policy)
        unsigned ==
            [kind |-> "receipt", signer |-> key, signature |-> <<>>,
             verity_id |-> d.verity_id, policy |-> d.policy,
             input_state |-> d.input_state, rules_applied |-> rules,
             computation |-> d.computation, outcome |-> d.outcome,
             replay_hash |-> ComputeReplayHash(d.input_state, rules, d.computation)]
    IN  [unsigned EXCEPT !.signature = Sign(key, DecisionContent(unsigned))]

Attestation(key, payload) ==
    LET signed == SignAttestation(payload, key)
    IN  [kind |-> "attestation", signer |-> key, signature |-> signed.signature,
         payload |-> payload, payload_hash |-> signed.payload_hash]

Nothing == [kind |-> "nothing"]
Receipts == {m \in issued : m.kind = "receipt"}
Attestations == {m \in issued : m.kind = "attestation"}
----------------------------------------------------------------------------
Init == issued = {} /\ received = Nothing /\ alterations = 0

Make(message) ==
    /\ Cardinality(issued) < MaxIssued
    /\ issued' = issued \cup {message}
    /\ UNCHANGED <<received, alterations>>

Deliver ==
    /\ received = Nothing
    /\ received' \in issued
    /\ UNCHANGED <<issued, alterations>>

\* A carrier writes the members of every object in the opposite order.
ReorderedFrom(v, below) ==
    CASE v.kind = "object" ->
            Obj(Reverse([i \in DOMAIN v.members |-> <<v.members[i][1], below[v.members[i][2]]>>]))
      [] v.kind = "array" -> Arr([i \in DOMAIN v.items |-> below[v.items[i]]])
      [] OTHER -> v

ReorderedAt[n \in 0..MaxDepth] ==
    [v \in Values[n] |-> ReorderedFrom(v, IF n = 0 THEN <<>> ELSE ReorderedAt[n - 1])]

Reordered(v) == ReorderedAt[MaxDepth - 1][v]

Carry ==
    /\ received.kind = "receipt"
    /\ received' = [received EXCEPT !.input_state = Reordered(@),
                                    !.rules_applied = Reordered(@),
                                    !.computation = Reordered(@),
                                    !.policy = Reordered(@)]
    /\ UNCHANGED <<issued, alterations>>

\* Another signature: that of another message, or this one in a form that does
\* not decode, or in the form of the other kind of message.
OtherSignatures ==
    LET s == received.signature IN
    {m.signature : m \in issued} \cup
    {[s EXCEPT !.whole = FALSE], [s EXCEPT !.codec = "hex"], [s EXCEPT !.prefix = "rsa:"],
     Wire("ed25519:", "standard", s.bytes), Wire("", "url_safe_no_pad", s.bytes)}

Replacements(field) ==
    CASE field = "signer" -> Keys
      [] field = "signature" -> OtherSignatures
      [] field \in {"input_state", "computation", "policy"} -> Documents
      [] field = "rules_applied" -> {RulesApplied(policy) : policy \in Documents}
      [] field = "outcome" -> {d.outcome : d \in Decisions}
      [] field = "verity_id" -> IdTexts
      [] field = "replay_hash" -> {m.replay_hash : m \in Receipts}
      [] field = "payload" -> Payloads
      [] field = "payload_hash" -> {AttestationPayloadHash(p) : p \in Payloads}
      [] OTHER -> {}

Alter(field) ==
    /\ alterations < MaxAlterations
    /\ \E value \in Replacements(field) \ {received[field]} :
          received' = [received EXCEPT ![field] = value]
    /\ alterations' = alterations + 1
    /\ UNCHANGED issued

Next ==
    \/ \E key \in Keys :
          \/ \E d \in Decisions : Make(Receipt(key, d))
          \/ \E payload \in Payloads : Make(Attestation(key, payload))
    \/ Deliver
    \/ Carry
    \/ \E field \in DOMAIN received : Alter(field)

Spec == Init /\ [][Next]_vars
----------------------------------------------------------------------------
IsReceipt == received.kind = "receipt"

\* Two documents, member by member: do they say the same?
Same(v, w) == Meaning(v) = Meaning(w)

\* Texts of documents can be told apart, and only by what the documents say:
\* no escape, nesting or order of members makes two meanings share their bytes
\* or gives one meaning two of them.
BytesAreMeaning ==
    IsReceipt => \A r \in Receipts :
        Same(DecisionContent(received), DecisionContent(r))
            <=> CanonicalHash(DecisionContent(received)) = CanonicalHash(DecisionContent(r))

\* verify_signature() accepts exactly what the signer signed: the same decision
\* in whatever order its JSON arrives, and no other.  A signature that does not
\* decode is an Err, never a verdict.
SignatureVerdictExact ==
    IsReceipt =>
        LET s == received.signature
            content == DecisionContent(received)
            signed == \E r \in Receipts :
                        /\ r.signer = received.signer
                        /\ r.signature = s
                        /\ Same(DecisionContent(r), content)
        IN  VerifySignature(received.signer, content, s) =
                IF s.prefix = "ed25519:" /\ s.codec = "standard" /\ s.whole THEN Verdict(signed) ELSE NoVerdict

\* verify_replay_hash() accepts the hash a decision was issued with for that
\* decision's input, rules and computation, each of them, and for nothing else;
\* that no separator stands between the three loses nothing of documents.
ReplayVerdictExact ==
    IsReceipt => \A r \in Receipts :
        VerifyReplayHash(r.replay_hash, received.input_state,
                         received.rules_applied, received.computation) =
            Verdict(/\ Same(received.input_state, r.input_state)
                    /\ Same(received.rules_applied, r.rules_applied)
                    /\ Same(received.computation, r.computation))

\* The documents whose keys are written as they are.
PlainFrom(v, below) ==
    CASE v.kind = "object" ->
            \A m \in ToSet(v.members) : Escaped(m[1]) = m[1] /\ below[m[2]]
      [] v.kind = "array" -> \A item \in ToSet(v.items) : below[item]
      [] OTHER -> TRUE

PlainAt[n \in 0..MaxDepth] ==
    [v \in Values[n] |-> PlainFrom(v, IF n = 0 THEN <<>> ELSE PlainAt[n - 1])]

PlainKeys(v) == PlainAt[MaxDepth][v]

\* The policy a party retrieves has the hash a receipt was issued with exactly
\* if it says the same, and canonical_hash() of it is that hash too: the two
\* implementations agree, as long as no key needs an escape.
PolicyVerdictExact ==
    IsReceipt /\ PlainKeys(received.policy) =>
        /\ PolicyContentHash(received.policy) = CanonicalHash(received.policy)
        /\ \A r \in Receipts : PlainKeys(r.policy) =>
              (VerifyPolicyHash(received.policy, PolicyContentHash(r.policy))
                   <=> Same(received.policy, r.policy))

\* verify_attestation() accepts exactly what a verifier attested under its key,
\* whether the hash comes with the message or is computed from the payload; a
\* receipt's signature is never one of an attestation.
AttestationVerdictExact ==
    received.kind = "attestation" =>
        LET s == received.signature
            attested(hash) == \E a \in Attestations :
                                /\ a.signer = received.signer
                                /\ a.signature = s
                                /\ AttestationPayloadHash(a.payload) = hash
            verdict(hash) == VerifyAttestation(hash, s, PublicKey(received.signer))
            decodes == s.prefix = "" /\ s.codec = "url_safe_no_pad" /\ s.whole
            ofPayload == \E a \in Attestations :
                            a.signer = received.signer /\ a.signature = s
                                /\ a.payload = received.payload
        IN  /\ verdict(received.payload_hash) = IF decodes THEN Verdict(attested(received.payload_hash)) ELSE NoVerdict
            /\ verdict(AttestationPayloadHash(received.payload)) = IF decodes THEN Verdict(ofPayload) ELSE NoVerdict

\* An id is accepted by the kind that could have generated it, and by no other
\* kind: what new() lets in is what generate() gives out.
IdsKeepTheirKind ==
    IsReceipt => \A prefix \in IdPrefixes :
        NewIdOk(prefix, received.verity_id) <=> received.verity_id \in Generated(prefix)

\* policy.rs:28 "This MUST produce identical output across all implementations":
\* canonical_json() writes the text canonical_serialize() writes.
IdenticalOutput ==
    IsReceipt => CanonicalJson(received.policy) = CanonicalSerialize(received.policy)
=============================================================================
