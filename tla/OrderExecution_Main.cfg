CONSTANTS
    Threads = {t1, t2}
    Keys = {k1}
    RawCalls = {r1}
    InComment = {}
    MaxRetries = 1
    MaxEpoch = 2
SPECIFICATION Spec
INVARIANTS
    TypeOK
    AtMostOnce
    LedgerIsEvidence
    CallerIsNotMisled
PROPERTIES
    UntaggedVerdictIsFinal
    ImplementsPromise
    EveryCallReturns
CHECK_DEADLOCK FALSE
