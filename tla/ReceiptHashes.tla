---------------------------- MODULE ReceiptHashes ----------------------------
(***************************************************************************)
(* crates/verity-integrity, replay.rs and policy.rs: the hashes a receipt  *)
(* carries so that its decision can be checked again.                      *)
(***************************************************************************)
EXTENDS Signing

\* Seeded fault: the rules are left out.
ReplayTextNoRules(input_state, rules_applied, computation) ==
    CanonicalSerialize(input_state) \o CanonicalSerialize(computation)

\* What compute_replay_hash feeds its hasher: three texts, nothing in between.
ReplayText(input_state, rules_applied, computation) ==
    CanonicalSerialize(input_state) \o CanonicalSerialize(rules_applied)
        \o CanonicalSerialize(computation)

ComputeReplayHash(input_state, rules_applied, computation) ==
    Sha256(ReplayText(input_state, rules_applied, computation))

VerifyReplayHash(claimed_hash, input_state, rules_applied, computation) ==
    Verdict(claimed_hash = ComputeReplayHash(input_state, rules_applied, computation))

PolicyContentHash(rules_json) == Sha256(CanonicalJson(rules_json))

VerifyPolicyHash(rules_json, expected_hash) == PolicyContentHash(rules_json) = expected_hash
=============================================================================
