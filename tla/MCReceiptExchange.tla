------------------------- MODULE MCReceiptExchange -------------------------
(***************************************************************************)
(* ReceiptExchange over documents that are easily taken for each other:    *)
(* the same members nested, listed, quoted or in another order.            *)
(***************************************************************************)
EXTENDS ReceiptExchange

MCSymbols == STRING

Key(name) == <<name>>
QuotedKey == <<"a", "\"">>

MCKeyOrder ==
    <<Key("a"), QuotedKey, Key("b"), Key("computation"), Key("input_state"),
      Key("outcome"), Key("replay_hash"), Key("rules_applied"), Key("verity_id"),
      Key("version_hash")>>

One == Scalar(<<"1">>)
Two == Scalar(<<"2">>)
Pair(x, y) == Obj(<< <<Key("b"), x>>, <<Key("a"), y>> >>)

Flat == Pair(One, Two)
Swapped == Pair(Two, One)
Listed == Obj(<< <<Key("a"), Arr(<<Flat, One>>)>> >>)
Relisted == Obj(<< <<Key("a"), Arr(<<One, Flat>>)>> >>)
Texts == Pair(Str(<<"1">>), Str(<<"\"", ",">>))
Escapes == Obj(<< <<QuotedKey, One>>, <<Key("a"), Obj(<<>>)>> >>)

MCDocuments == {Flat, Swapped, Listed, Relisted, Texts, Escapes}

Id(rest) == IdText("vrt_", rest)
Decision(id, input_state, policy, computation, outcome) ==
    [verity_id |-> id, input_state |-> input_state, policy |-> policy,
     computation |-> computation, outcome |-> outcome]

MCDecisions ==
    {Decision(Id(<<"0", "f">>), Listed, Flat, Texts, "SUCCESS"),
     Decision(Id(<<"f", "0">>), Flat, Listed, Escapes, "FAIL")}

Payload(condition_id, confidence_bps, result) ==
    [condition_id |-> condition_id, confidence_bps |-> confidence_bps, result |-> result,
     signed_at |-> <<"t">>]

\* One attestation, and three that differ from it in one field each: in a quote
\* nobody escapes, in a digit, in the verdict.
MCPayloads ==
    {Payload(<<"c">>, <<"1">>, <<"true">>), Payload(<<"c", "\"">>, <<"1">>, <<"true">>),
     Payload(<<"c">>, <<"1", "0">>, <<"true">>), Payload(<<"c">>, <<"1">>, <<"false">>)}

MCIdTexts ==
    {Id(rest) : rest \in {<<>>, <<"0">>, <<"0", "0">>, <<"0", "F">>, <<"0", "g">>, <<"0", "0", "0">>}}
        \cup {IdText("rcpt_", <<"0", "0">>), IdText("user_", <<"0", "0">>)}

KeySymmetry == Permutations(Keys)
=============================================================================
