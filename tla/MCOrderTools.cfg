\* A caller of apply(), a cancel-by-id and a sweep on one side of a strike.
SPECIFICATION ToolsSpec
CONSTANTS
    None = None
    Skip = Skip
    Tickers = {t1}
    Sides = {"bid"}
    Prices = {1, 2}
    MaxSize = 1
    MaxOrders = 3
    Tasks = {runner, canceller, sweeper}
    Booter = runner
    Cancellers = {canceller}
    Sweepers = {sweeper}
    Faults <- UnansweredFaults
    SweepFaults = {"some", "raises", "refused", "unreached", "unanswered"}
    BatchLimit = 1
    MaxTries = 1
    MaxCrashes = 0
    CashLevels = {None}
    FullPrice = 3
INVARIANT
    SafeUntilSlip
