SPECIFICATION Spec
CONSTANTS
    MaxI64 = 134217727
    OverflowChecks = TRUE
    FullShare = 10000
    Payments <- MCPayments
    Shares <- MCShares
    MaxPayees = 3
INVARIANTS SplitConserves SplitConservesWrapped PayoutAddsUp SplitFair SplitSafeRange
CHECK_DEADLOCK FALSE
