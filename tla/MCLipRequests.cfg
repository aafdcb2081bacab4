\* One side of a strike, and every request of the operator.
SPECIFICATION LipSpec
CONSTANTS
    None = None
    Skip = Skip
    Tickers = {t1}
    Sides = {"bid"}
    Events = {e1}
    EventOf <- OneEvent
    Prices = {1}
    MaxSize = 1
    MaxOrders = 2
    Tasks = {runner, operator, sweeper}
    Booter = runner
    Operators = {operator}
    Cancellers = {operator}
    Sweepers = {sweeper}
    Faults = {}
    SweepFaults = {}
    BatchLimit = 2
    MaxTries = 1
    MaxCrashes = 0
    CashLevels = {None}
    FullPrice = 3
    KnobValues = {}
    Terms = {"held", "timed"}
    MaxVersion = 2
    Requests = {"kill", "pause", "lock", "manual", "cancel", "events"}
PROPERTY
    HandsOff
