SPECIFICATION Spec
CONSTANT MaxHistory = 8
INVARIANT NoSuccessAfterTimeout
