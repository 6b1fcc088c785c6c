CONSTANTS
    Threads = {t1}
    Keys = {k1}
    RawCalls = {}
    InComment = {}
    MaxRetries = 0
    MaxEpoch = 1
SPECIFICATION Spec
PROPERTIES
    TerminalOutcomeIsFinal
CHECK_DEADLOCK FALSE
