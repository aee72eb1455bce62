SPECIFICATION Spec
CONSTANTS
    Holders = {h1, h2}
    Reasons = {Chargeback, Fraud}
    Window = 3
    ConfirmBy = 1
    MaxTime = 6
SYMMETRY HolderSymmetry
INVARIANTS ReversedInsideWindow NotFinalEarly SplitOnlyAfterWindow
           OneWayOut FinalOnlyConfirmed
PROPERTY VerdictStable
