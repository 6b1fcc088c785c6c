\* a cooldown of one bar, and a target that may be switched off
CONSTANTS
    CooldownBars = 1
    History = 2
    Targets = {0, 2}
    Buffer = 1
    NewsBars = {2}
    NewsAround = 0
    Profits <- LossOrGain
    Gains <- TwoVotes
    Symbol <- HalfSteps
    S <- BotSizing
    MaxBar = 3
    MaxDay = 2
    MaxClosed = 1
\* two threads, a cap of one position, and a day and a week that both turn
CONSTANTS
    Callers = {t1, t2}
    Limits <- TightLimits
    Ranges <- TightRanges
    Edits <- OneGoodOneBad
    Broker <- SmallLots
    Scale <- EngineSizing
    Equities = {100}
    Pnls <- OneLoss
    TicksPerDay = 1
    DaysPerWeek = 1
    WeeksPerYear = 2
    CooldownTicks = 1
    MaxNow = 1
    MaxLosses = 1
    MaxTrades = 1
    Symbols = {"XAU"}
    Markets <- GoodAndBad
    MinScore = 60
    FallbackTarget = TRUE
    FallbackR = 2
    Execute = TRUE
    MaxPositions = 4
    MaxLate = 1
\* an ATR that rises and falls and a window shorter than the series; no tick, one that
\* divides nothing, and one as coarse as the least ATR
CONSTANTS
    Shapes <- FourShapes
    Left = 1
    Right = 1
    Window = 5
    AtrValues = {40, 120}
    Ticks = {0, 7, 40}
    MaxBars = 6
    MinRR = 2
    StopPercent = 220
    LeastPercent = 180
    MostPercent = 320
    BrokerDistance = 5
\* prices on either side of breakeven and of one risk
CONSTANTS
    Open = 1000
    Prices = {980, 1020, 1044, 1090}
    Lows <- NearAndFar
    FirstStops = {0, 40}
    StopsLevel = 2
SYMMETRY ThreadsAlike
SPECIFICATION Spec
INVARIANTS
    TypeOK
    LosingDirectionPauses
    NoEntryAfterLock
    EntryRiskIsBounded
    RiskGateIsSound
    EntryIsDefensible
    NeverLooserThanFirstStop
PROPERTY
    ConfirmedNeverRepaints
CHECK_DEADLOCK FALSE
