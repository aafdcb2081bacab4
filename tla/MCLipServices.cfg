\* Every service is bounded and stops at its bounds.
SPECIFICATION Spec
CHECK_DEADLOCK FALSE
CONSTANTS
    Parts = {"exploit", "risk", "broadcast", "sticky", "quoting", "ledger",
             "files", "theo", "rest", "life", "earnings"}
\* ExploitRunner
    BidTarget = 2
    AskTarget = 1
    LadderStep = 1
    Patience = 2
    MaxLoss = 2
    MaxRounds = 1
    PredatorOffset = 1
    LevelPrices = {1, 4}
    MaxEntries = 1
    MaxBaits = 3
    ExploitFaults = {"cancel", "place", "rests"}
\* RiskGates
    TickerList <- MCTickerList
    Cap = 1
    MaxPosition = 1
    OrderSize = 1
    MidDelta = 8
    DeepOtm = 5
    DeepItm = 95
    Theos = {5, 47}
    MaxCycles = 3
    MaxManuals = 1
\* Broadcaster
    Tabs = {t1, t2}
    Handlers = {h1}
    MaxVersion = 1
\* StickyDefense
    JumpCents = 2
    StickyDist = 10
    WideDist = 10
    CalmLooks = 2
    TheoDrift = 2
    TheoSpread = 2
    RelaxSteps = 2
    MaxAggressive = 3
    CooldownTime = 1
    StickyPrices = {30, 56, 60}
    StickyFairs = {50, 51}
\* DefaultQuoting
    HalfSpread = 4
    Behind = 1
    Tolerance <- MCTolerance
    PennyTicks = 1
    TailOnly = 0
    DesertGap = 10
    BookBids = {0, 10, 486, 500, 960}
    BookAsks = {1000, 980, 520, 14}
    Fairs = {2, 50}
\* CycleLedger
    Strips = {"a"}
    OtherBooks <- MCOtherBooks
    OwnBids <- MCOwnBids
    OwnLot = 50
    TargetSize = 20
    Discount <- MCDiscount
    MaxTurns = 3
    MaxMoves = 1
\* DecisionFiles
    LastDay = 3
    MaxLines = 3
    MaxBytes = 2
    MaxSweeps = 2
\* TheoSources
    Symbols = {"HG", "LI"}
    StaleAfter = 1
    Freshness = 2
    SlowestPoll = 1
    SettleAt = 5
    Registries <- MCRegistries
    LastTick = 5
    MaxVersions = 2
\* RestClient
    Callers = {"bot", "kill"}
    Burst = 3
    Costs = {1, 3}
    Retries = 2
    MaxWindow = 4
\* BotLifecycle
    Seeds = {"ev"}
    LeftOver = 2
    ListingSize = 1
    MaxPlaced = 3
    LifeFaults = {"list", "cancel", "slow", "event"}
\* EarningsLog
    SampleInterval = 2
    Gains = {0, 1, 3}
    LastSecond = 6
    MaxSessions = 3
INVARIANTS
    BaitsKnown
    OvershootBounded
    ManualsUpsetOnce
    WithinTolerance
    EarnedAtMostPool
    LinesSurvive
    ConfidentIsRecent
    RateHolds
    LeftBehindExplained
    RatesAddUp
PROPERTIES
    ScreensCatchUp
    ReleaseEarned
