SPECIFICATION Spec
CONSTANTS
    MaxI64 = 7
    OverflowChecks = FALSE
    FullShare = 10
    Agents = {buyer, seller}
    Movements <- MCMovements
    CallerIds = {0, 7}
    MaxEntries = 3
INVARIANT BalanceVerdictExact
CHECK_DEADLOCK FALSE
