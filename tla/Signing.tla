------------------------------- MODULE Signing -------------------------------
(***************************************************************************)
(* crates/verity-integrity, signing.rs and attestation.rs: the two places  *)
(* where a key signs, each over its own bytes and in its own encoding.     *)
(*                                                                         *)
(* Ed25519 is ideal: a signature is the key and the bytes it was made      *)
(* with.                                                                   *)
(***************************************************************************)
EXTENDS CanonicalForm

ASSUME SigningAssumption ==
    {"condition_id", "confidence_bps", "result", "signed_at"} \subseteq Symbols

Verdict(v) == [result |-> "Ok", value |-> v]
NoVerdict == [result |-> "Err"]

\* The bytes come out again: right prefix, right alphabet and padding, and a
\* length that try_into accepts.
Decodes(wire, prefix, codec) == wire.prefix = prefix /\ wire.codec = codec /\ wire.whole

Signature(key, bytes) == [key |-> key, bytes |-> bytes]
----------------------------------------------------------------------------
\* VeritySigner::sign
Sign(key, content) == Wire("ed25519:", "standard", Signature(key, CanonicalSerialize(content)))

\* Seeded fault: whoever made it, a signature of the content will do.
VerifySignatureAnyKey(public_key, content, signature_str) ==
    IF ~Decodes(signature_str, "ed25519:", "standard") THEN NoVerdict
    ELSE Verdict(signature_str.bytes.bytes = CanonicalSerialize(content))

VerifySignature(public_key, content, signature_str) ==
    IF ~Decodes(signature_str, "ed25519:", "standard") THEN NoVerdict
    ELSE Verdict(signature_str.bytes = Signature(public_key, CanonicalSerialize(content)))
----------------------------------------------------------------------------
PublicKey(key) == Wire("", "url_safe_no_pad", key)

\* One member of the text attestation_payload_hash formats by hand: its value
\* is put in as it is.
Member(key, text) == Quoted(<<key>>) \o <<Colon>> \o text

\* Seeded fault: the result is not among what is hashed.
AttestationTextNoResult(payload) ==
    <<LeftBrace>> \o Joined(<<Member("condition_id", Quoted(payload.condition_id)),
                        Member("confidence_bps", payload.confidence_bps),
                        Member("signed_at", Quoted(payload.signed_at))>>) \o <<RightBrace>>

AttestationText(payload) ==
    <<LeftBrace>> \o Joined(<<Member("condition_id", Quoted(payload.condition_id)),
                        Member("confidence_bps", payload.confidence_bps),
                        Member("result", payload.result),
                        Member("signed_at", Quoted(payload.signed_at))>>) \o <<RightBrace>>

AttestationPayloadHash(payload) == Sha256(AttestationText(payload))

\* sign_attestation: the hash, and a signature of its bytes.
SignAttestation(payload, key) ==
    LET hash == AttestationPayloadHash(payload)
    IN  [payload_hash |-> hash,
         signature |-> Wire("", "url_safe_no_pad", Signature(key, hash.bytes))]

\* A hash of any length is decoded, but one that lost bytes is no digest; a key
\* and a signature must be whole.
VerifyAttestation(payload_hash, signature_b64, public_key_b64) ==
    IF \/ payload_hash.prefix # "sha256:" \/ payload_hash.codec # "hex"
       \/ ~Decodes(signature_b64, "", "url_safe_no_pad")
       \/ ~Decodes(public_key_b64, "", "url_safe_no_pad")
    THEN NoVerdict
    ELSE Verdict(/\ payload_hash.whole
                 /\ signature_b64.bytes = Signature(public_key_b64.bytes, payload_hash.bytes))
=============================================================================
