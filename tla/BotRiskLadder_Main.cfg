CONSTANTS
    Equities = {8, 10}
    DailyCap = 20
    HaltAt = 20
    WeeklyCap = 20
    TotalCap = 20
    MaxStreak = 2
    Cooldown = 1
    MaxTrades = 1
    TicksPerDay = 1
    DaysPerWeek = 2
    MaxTime = 2
    MaxUpsets = 2
SPECIFICATION Spec
CHECK_DEADLOCK FALSE
INVARIANT TypeOK
PROPERTIES NoEntryWhileRuined NoEntryDuringCooldown SavedDayReferenceIsFixed
    SavedPeakOnlyRises WeeklyHaltEndsWithItsWeek
