SPECIFICATION Spec
CONSTANTS
    MaxI64 = 1000
    OverflowChecks = TRUE
    FullShare = 10
    Payer = "payer"
    Payees <- MCPayees
    Contracts <- MCContracts
    Conditions = {"http_200_check", "quality_score"}
    Threshold <- MCThreshold
    Confidences = {8, 10}
    Holders = {h1, h2}
    Reasons = {Chargeback}
    Window = 2
    ConfirmBy = 1
    MaxTime = 2
    This = "this"
    Other = "other"
    MaxHistory = 3
    MaxEvidence = 3
SYMMETRY HolderSymmetry
INVARIANTS MoneyFollowsOutcome BooksClose ReversedOnce JournalTellsReversal
           ReceiptsTellHistory VerdictReplays
CHECK_DEADLOCK FALSE
