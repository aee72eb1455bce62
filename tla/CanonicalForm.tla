---------------------------- MODULE CanonicalForm ----------------------------
(***************************************************************************)
(* crates/verity-kernel, canonical.rs, and the second implementation of    *)
(* the same idea in crates/verity-integrity, policy.rs.                    *)
(*                                                                         *)
(* A JSON value is a tagged record and a text is a sequence of symbols,    *)
(* one to a literal, a character or a punctuation mark.  The members of an *)
(* object are in the order serde_json's Map iterates over them: that of    *)
(* their insertion where any crate of a build turns preserve_order on,     *)
(* sorted where none does.                                                 *)
(***************************************************************************)
EXTENDS Naturals, SequencesExt

CONSTANTS
    Symbols,        \* what texts are made of
    KeyOrder,       \* the keys of documents, texts all, in byte order
    MaxDepth        \* bound on the nesting of values: serde_json parses no deeper than 128

LeftBrace == "{"
RightBrace == "}"
LeftBracket == "["
RightBracket == "]"
Comma == ","
Colon == ":"
Quote == "\""
Backslash == "\\"

Punctuation ==
    {LeftBrace, RightBrace, LeftBracket, RightBracket, Comma, Colon, Quote, Backslash}

ASSUME CanonicalFormAssumption ==
    /\ Punctuation \subseteq Symbols
    /\ KeyOrder \in Seq(Seq(Symbols)) /\ IsInjective(KeyOrder)
    /\ MaxDepth \in Nat

Scalar(text) == [kind |-> "scalar", text |-> text]      \* number, true, false, null
Str(text) == [kind |-> "string", text |-> text]
Arr(items) == [kind |-> "array", items |-> items]
Obj(members) == [kind |-> "object", members |-> members] \* a sequence of <<key, value>>

Leaves ==
    [kind : {"scalar"}, text : Seq(Symbols \ Punctuation) \ {<<>>}]
        \cup [kind : {"string"}, text : Seq(Symbols)]

DocumentKeys == ToSet(KeyOrder)

\* A Map holds a key once.
MembersOver(S) ==
    {ms \in Seq(DocumentKeys \X S) : \A i, j \in DOMAIN ms : ms[i][1] = ms[j][1] => i = j}

Over(S) ==
    Leaves \cup [kind : {"array"}, items : Seq(S)]
           \cup [kind : {"object"}, members : MembersOver(S)]

\* The values nested no deeper than n.
Values[n \in 0..MaxDepth] == Over(IF n = 0 THEN {} ELSE Values[n - 1])

MemberAt(v, key) == v.members[CHOOSE i \in DOMAIN v.members : v.members[i][1] = key][2]
KeysOf(v) == {v.members[i][1] : i \in DOMAIN v.members}

(***************************************************************************)
(* A recursive function of values is one of their depth: what it makes of  *)
(* a value (its operator of two arguments) from what it makes of the       *)
(* values below.                                                           *)
(***************************************************************************)

\* What a value says: objects are maps, whatever the order of their members.
MeaningFrom(v, below) ==
    CASE v.kind = "object" ->
            [kind |-> "object", map |-> {<<m[1], below[m[2]]>> : m \in ToSet(v.members)}]
      [] v.kind = "array" -> Arr([i \in DOMAIN v.items |-> below[v.items[i]]])
      [] OTHER -> v

MeaningAt[n \in 0..MaxDepth] ==
    [v \in Values[n] |-> MeaningFrom(v, IF n = 0 THEN <<>> ELSE MeaningAt[n - 1])]

Meaning(v) == MeaningAt[MaxDepth][v]
----------------------------------------------------------------------------
\* keys.sort()
SortedKeys(keys) ==
    LET upTo[i \in 0..Len(KeyOrder)] ==
            IF i = 0 THEN <<>>
            ELSE IF KeyOrder[i] \in keys THEN Append(upTo[i - 1], KeyOrder[i]) ELSE upTo[i - 1]
    IN  upTo[Len(KeyOrder)]

\* Seeded fault: members inside an array keep their order.
SortedNotInArrays(v, below) ==
    IF v.kind # "object" THEN v
    ELSE LET keys == SortedKeys(KeysOf(v))
         IN  Obj([i \in DOMAIN keys |-> <<keys[i], below[MemberAt(v, keys[i])]>>])

SortedFrom(v, below) ==
    CASE v.kind = "object" ->
            LET keys == SortedKeys(KeysOf(v))
            IN  Obj([i \in DOMAIN keys |-> <<keys[i], below[MemberAt(v, keys[i])]>>])
      [] v.kind = "array" -> Arr([i \in DOMAIN v.items |-> below[v.items[i]]])
      [] OTHER -> v

SortedAt[n \in 0..MaxDepth] ==
    [v \in Values[n] |-> SortedFrom(v, IF n = 0 THEN <<>> ELSE SortedAt[n - 1])]

\* sort_json_value
SortJsonValue(v) == SortedAt[MaxDepth][v]

Quoted(text) == <<Quote>> \o text \o <<Quote>>

Escaped(text) ==
    FlattenSeq([i \in DOMAIN text |->
                   IF text[i] \in {Quote, Backslash} THEN <<Backslash, text[i]>> ELSE <<text[i]>>])

Joined(texts) ==
    FlattenSeq([i \in DOMAIN texts |-> IF i = 1 THEN texts[1] ELSE <<Comma>> \o texts[i]])

(***************************************************************************)
(* The text of a value, members in the order they are in: as serde_json    *)
(* writes it, or as policy.rs formats it, which puts the keys between      *)
(* quotes as they are.                                                     *)
(***************************************************************************)
TextFrom(v, keysEscaped, below) ==
    CASE v.kind = "object" ->
            LET member(m) == Quoted(IF keysEscaped THEN Escaped(m[1]) ELSE m[1])
                                 \o <<Colon>> \o below[m[2]]
            IN  <<LeftBrace>> \o Joined([i \in DOMAIN v.members |-> member(v.members[i])]) \o <<RightBrace>>
      [] v.kind = "array" ->
            <<LeftBracket>> \o Joined([i \in DOMAIN v.items |-> below[v.items[i]]]) \o <<RightBracket>>
      [] v.kind = "string" -> Quoted(Escaped(v.text))
      [] OTHER -> v.text

TextAt[n \in 0..MaxDepth] ==
    [keysEscaped \in BOOLEAN |-> [v \in Values[n] |->
        TextFrom(v, keysEscaped, IF n = 0 THEN <<>> ELSE TextAt[n - 1][keysEscaped])]]

TextOf(v, keysEscaped) == TextAt[MaxDepth][keysEscaped][v]

\* Seeded fault: the value is written in the order its members are in.
CanonicalSerializeUnsorted(v) == TextOf(v, TRUE)

CanonicalSerialize(v) == TextOf(SortJsonValue(v), TRUE)

\* Bytes on the wire have a prefix and an encoding, and may have lost some of
\* their length.
Wire(prefix, codec, bytes) ==
    [prefix |-> prefix, codec |-> codec, bytes |-> bytes, whole |-> TRUE]

\* SHA-256 has no collisions: a digest stands for the text it was computed
\* from.  The hash functions of the crates return it in hex.
Digest(text) == <<"sha256">> \o text
Sha256(text) == Wire("sha256:", "hex", Digest(text))

CanonicalHash(v) == Sha256(CanonicalSerialize(v))

\* canonical_json of policy.rs: the sort and the formatting in one recursion.
CanonicalJson(v) == TextOf(SortJsonValue(v), FALSE)
=============================================================================
