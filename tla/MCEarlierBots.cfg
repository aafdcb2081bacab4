\* Every part is bounded and stops at its bounds.
SPECIFICATION Spec
CHECK_DEADLOCK FALSE
CONSTANTS
    Parts = {"mode", "quote", "grain", "positions", "strikes", "socket", "penny",
             "pools", "scores", "capture", "quick", "reanchor", "grid"}
\* LipMode
    EventStrikes <- MCEventStrikes
    ModePrices = {40, 41}
    ListLimit = 1
    Leftovers = 0
    MaxModeOrders = 2
    ModeFaults = {"cancel", "place", "amend", "list", "batch"}
\* LipModeQuote
    ModeHalfSpread = 4
    MaxDist = 1
    ToxicFactor = 2
    ModeTolerance = 2
    MachineDist = 15
    ModeFairs = {3, 50}
    ModeBests = {0, 30, 60, 98}
    MachineSays = {35}
\* GrainBot and PositionBook
    Markets = {"m1"}
    EventOf <- OneGrainEvent
    FillIds = {1, 2, 3}
    FillCounts = {1, 3}
    FillPrices = {33, 70}
    TieUp <- TieToEven
    AggregateCap = 2
    EventCap = 2
    LossCap = 200
    BidPx = 40
    AskPx = 60
    DrawdownLoss = 50
    HedgeThreshold = 1
    GrainListing = 2
    FillWindow = 2
    KillAttempts = 2
    GrainFaults = {"list", "cancel", "place", "fills", "raise", "crash"}
    MaxQuotes = 2
    MaxTrades = 2
    MaxHedges = 1
\* GrainQuotes
    Strikes = {1, 2}
    MinHalf = 2
    MaxHalf = 4
    FeeThreshold = 1
    BaseSize = 50
    Releases = {1500, 1740}
    PullBefore = 1
    PostWindow = 15
    WidenStart = 360
    SizeDownStart = 1440
    LookTimes = {1200, 1499, 1510, 1516, 1741}
    FlowWindow = 20
    FlowCooldown = 30
    MinTrades = 2
    MaxFlow = 2
    Survivals = {50, 48}
    Tops <- MCTops
    Skews <- MCSkews
\* KalshiWs
    WantedChannels <- MCChannels
    MaxAttempts = 2
    MaxConnects = 3
\* PennyBot
    Strike <- MCStrike
    Keys <- MCKeys
    PennyTops <- MCPennyTops
    MovePrices = {70}
    MaxBids = 2
    MaxRequests = 1
    PennyFaults = {"place"}
\* PoolStore
    Periods <- MCPeriods
    PoolSizes = {0, 1, 2}
    LastDate = 3
    MaxChanges = 3
    MaxRefreshes = 2
\* ScoreTracker
    Ticks = {49, 50}
    DecayTicks = 2
    MostResting = 3
    OwnSizes = {3}
    WindowLength <- MCWindows
    MaxTaken = 2
    LastMoment = 1
\* FeedCapture
    EventLists <- MCEventLists
    PageSize = 1
    MaxTape = 2
    MaxPolls <- MCPolls
    CaptureFaults = {"events", "trades"}
\* QuickRounds
    Legs <- MCLegs
    Rounds = 2
    QuickFaults = {"place", "cancel"}
\* Reanchor
    Jobs = {"night", "hand"}
    LastDay = 2
    LastSecond = 1
    MaxStarts = 3
\* EventGrid
    StrikePrices = {1, 2, 3}
    MostMarkets = 3
INVARIANTS
    ModeViewFaithful
    RefreshedWithinTolerance
    BooksBalance
    LeftoversExplained
    NoArbitrage
    SubscriptionsKept
    BotArbsExplained
    OperatorsPoolsHold
    SharesAreShares
    CaptureIsComplete
    OutstandingPulled
    AnchorRecoverable
    GridPartitions
