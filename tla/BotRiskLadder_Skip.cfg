CONSTANTS
    Equities = {5, 8, 10}
    DailyCap = 25
    HaltAt = 20
    WeeklyCap = 35
    TotalCap = 50
    MaxStreak = 2
    Cooldown = 1
    MaxTrades = 2
    TicksPerDay = 1
    DaysPerWeek = 2
    MaxTime = 2
    MaxUpsets = 1
SPECIFICATION Spec
CHECK_DEADLOCK FALSE
INVARIANT SkippedTickIsFlat
