SPECIFICATION Spec
CONSTANTS
    Keys = {k1, k2}
    Symbols <- MCSymbols
    KeyOrder <- MCKeyOrder
    MaxDepth = 4
    HexLen = 2
    Decisions <- MCDecisions
    Payloads <- MCPayloads
    Documents <- MCDocuments
    IdTexts <- MCIdTexts
    MaxIssued = 2
    MaxAlterations = 2
SYMMETRY KeySymmetry
INVARIANTS BytesAreMeaning SignatureVerdictExact ReplayVerdictExact PolicyVerdictExact
           AttestationVerdictExact IdsKeepTheirKind
CHECK_DEADLOCK FALSE
