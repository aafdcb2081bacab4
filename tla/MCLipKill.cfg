\* One side of two strikes: a kill, manual orders, and a sweep whose requests fail.
SPECIFICATION LipSpec
CONSTANTS
    None = None
    Skip = Skip
    Tickers = {t1, t2}
    Sides = {"bid"}
    Events = {e1}
    EventOf <- OneEvent
    Prices = {1}
    MaxSize = 1
    MaxOrders = 2
    Tasks = {runner, operator, sweeper}
    Booter = runner
    Operators = {operator}
    Cancellers = {operator}
    Sweepers = {sweeper}
    Faults = {}
    SweepFaults = {"some", "raises", "refused", "unreached", "unanswered"}
    BatchLimit = 2
    MaxTries = 1
    MaxCrashes = 0
    CashLevels = {None}
    FullPrice = 3
    KnobValues = {}
    Terms = {"held"}
    MaxVersion = 2
    Requests = {"kill", "manual"}
INVARIANTS
    FewOrdersAfterKill
    KillTriesEverything
