SPECIFICATION Spec
CONSTANTS
    MaxI64 = 7
    OverflowChecks = TRUE
    FullShare = 10
    Agents = {buyer, seller}
    Movements <- MCMovements
    CallerIds = {0, 7}
    MaxEntries = 3
SYMMETRY AgentSymmetry
INVARIANTS IdsSequential NetBalanceSound BalanceVerdictExact BalancedNetsCancel
CHECK_DEADLOCK FALSE
