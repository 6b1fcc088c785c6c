\* three failures fit below the trainer's limit, and a second watchdog is
\* started while the first still runs
CONSTANTS
    FastFailure = 2
    MaxFailures = 3
    MaxBackoff = 2
    JobTimeout = 2
    JobInterval = 2
    Dogs = {1, 2}
CONSTANTS
    Requests = {"r1", "r2"}
    KeyOf <- OneKey
    KindsOf <- OrderAndAny
    Logins = {"demo", "other"}
    Ttl = 1
    MaxLives = 2
CONSTANTS
    Samples <- FourSamples
    Unsplit = Unsplit
    NoAuc = NoAuc
    Torn = Torn
    NoModel = NoModel
    Trainings = {"t1", "t2"}
    RetrainBars = 2
    AccuracyFloor = 52
    AucFloor = 50
    AccuracyTolerance = 1
    Configs <- ThreeConfigs
CONSTANTS
    MaxBars = 9
    HoldoutBars = 2
    MinNewBars = 1
    MinTrainBars = 2
    Horizon = 1
    Edges <- EdgesAroundNone
    Floor = 0
    EdgeTolerance = 0
    MinEdge = 2
    Unmeasured = Unmeasured
    Unreadable = Unreadable
\* numbers typed as a fraction, as a percentage, and out of range
CONSTANTS
    Bots = {"b1", "b2"}
    Typed = {4, 50, 600}
    Timeframes = {"M1"}
    MaxEdits = 2
    Absent = Absent
\* two decisions; the order of the second carries a comment in which both keys
\* are found, and one reconciliation goes over both while the threads submit them
CONSTANTS
    Threads = {"t1", "t2"}
    Keys = {"k1", "k2"}
    RawCalls = {}
    InComment <- FirstInSecond
    MaxRetries = 0
    MaxEpoch = 1
SPECIFICATION Spec
INVARIANTS
    TypeOK
    OneOrderPerWindow
    VotesAreEarned
    PredictorIsCurrent
    SavedSettingsSurvive
    LedgerIsEvidence
PROPERTIES
    ServicesRecover
    ImplementsPromise
CHECK_DEADLOCK FALSE
