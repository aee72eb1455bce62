----------------------------- MODULE Identifiers -----------------------------
(***************************************************************************)
(* crates/verity-kernel, ids.rs: the six kinds of identifiers, as texts.   *)
(* A text is its part up to the first underscore, one symbol, and a        *)
(* sequence of characters.                                                 *)
(***************************************************************************)
EXTENDS Naturals, Sequences

CONSTANT HexLen         \* the hex digits of an id (8 in the code)

ASSUME IdentifiersAssumption == HexLen \in Nat /\ HexLen % 2 = 0

IdPrefixes == {"agent_", "stl_", "rcpt_", "vrt_", "neg_", "qry_"}

\* Two of the lowercase hex digits stand for all sixteen; a text may also hold
\* an uppercase one ("F") and a letter that is no digit ("g").
LowerHex == {"0", "f"}

IdText(prefix, rest) == [prefix |-> prefix, rest |-> rest]

\* Seeded fault: digits of either case.
NewIdAnyCase(prefix, text) ==
    /\ text.prefix = prefix
    /\ Len(text.rest) = HexLen
    /\ \A i \in DOMAIN text.rest : text.rest[i] \in LowerHex \cup {"F"}

\* new(value) of the kind with this prefix returns Ok.
NewIdOk(prefix, text) ==
    /\ text.prefix = prefix
    /\ Len(text.rest) = HexLen
    /\ \A i \in DOMAIN text.rest : text.rest[i] \in LowerHex

\* What generate() can return: the hex of HexLen / 2 random bytes.
Generated(prefix) ==
    LET hexOfByte == LowerHex \X LowerHex
        digits(bytes) == [i \in 1..HexLen |-> bytes[(i + 1) \div 2][IF i % 2 = 1 THEN 1 ELSE 2]]
    IN  {IdText(prefix, digits(bytes)) : bytes \in [1..HexLen \div 2 -> hexOfByte]}
=============================================================================
