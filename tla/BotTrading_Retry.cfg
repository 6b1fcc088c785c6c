CONSTANTS
    Bots = {b1}
    SymbolCap = 1
    Attempts = 2
    Alternatives = 2
    MaxDecisions = 1
SPECIFICATION Safe
CHECK_DEADLOCK FALSE
INVARIANT UnknownIsNeverRetried
