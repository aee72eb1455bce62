SPECIFICATION Spec
CONSTANT MaxHistory = 8
INVARIANTS HistoryIsPath DecidedOnce TerminalIffStuck ConcludesAfterUnknown
PROPERTY ImplementsLifecycle
