\* A session whose requests are all answered, to its end.
SPECIFICATION GrainSpec
CONSTANTS
    Markets = {"m1"}
    EventOf <- OneGrainEvent
    FillIds = {1}
    FillCounts = {1}
    FillPrices = {33}
    TieUp <- TieToEven
    AggregateCap = 2
    EventCap = 2
    LossCap = 100
    BidPx = 40
    AskPx = 60
    DrawdownLoss = 50
    HedgeThreshold = 1
    GrainListing = 2
    FillWindow = 2
    KillAttempts = 2
    GrainFaults = {}
    MaxQuotes = 3
    MaxTrades = 3
    MaxHedges = 1
INVARIANT ShutdownClears
CHECK_DEADLOCK FALSE
