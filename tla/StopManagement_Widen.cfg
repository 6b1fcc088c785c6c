CONSTANTS
    Prices = {7}
    Anchors = {5}
    NoStop <- MCNoStop
    Kinds = {"smart"}
    Breakeven = {TRUE, FALSE}
    Buffer = 3
    Trigger = 8
    LockDistance = 8
    Separation = 9
    StepSize = 1
    EarlyAt = 6
    TrailAt = 20
    Tighten1 = 40
    Tighten2 = 60
    Trail0 = 30
    Trail1 = 20
    Trail2 = 12
    CutAt1 = 20
    CutAt2 = 60
    ManualStop = 40
    StopsLevel = 4
    Lots = 16
    MinLot = 2
    MaxFaults = 0
SPECIFICATION Spec
CHECK_DEADLOCK FALSE
PROPERTY EveryMoveTightens
