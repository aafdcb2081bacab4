\* A caller and a cancel-by-id on one side of a strike, and no faults.
SPECIFICATION ToolsSpec
CONSTANTS
    None = None
    Skip = Skip
    Tickers = {t1}
    Sides = {"bid"}
    Prices = {1, 2}
    MaxSize = 1
    MaxOrders = 3
    Tasks = {runner, canceller}
    Booter = runner
    Cancellers = {canceller}
    Sweepers = {}
    Faults = {}
    SweepFaults = {}
    BatchLimit = 1
    MaxTries = 1
    MaxCrashes = 0
    CashLevels = {None}
    FullPrice = 3
PROPERTY
    CancelForgetsItsOrder
