CONSTANTS
    Bots = {b1}
    SymbolCap = 1
    Attempts = 2
    Alternatives = 1
    MaxDecisions = 2
SPECIFICATION Spec
CHECK_DEADLOCK FALSE
INVARIANTS TypeOK OneOrderWhileSettled CapWhileSettled StopAdmitsOnlyTheRunningStep
PROPERTY StepReturns
