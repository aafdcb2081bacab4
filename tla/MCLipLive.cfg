\* One side of two strikes: kills, recoveries and pauses of a bot that quotes;
\* cancels that are not answered, and a bucket that pays for a batch of one order.
SPECIFICATION LipSpec
CONSTANTS
    None = None
    Skip = Skip
    Tickers = {t1, t2}
    Sides = {"bid"}
    Events = {e1}
    EventOf <- OneEvent
    Prices = {1}
    MaxSize = 1
    MaxOrders = 2
    Tasks = {runner, operator, sweeper}
    Booter = runner
    Operators = {operator}
    Cancellers = {operator}
    Sweepers = {sweeper}
    Faults <- UnansweredFaults
    SweepFaults = {"raises", "unreached"}
    BatchLimit = 1
    MaxTries = 1
    MaxCrashes = 0
    CashLevels = {None}
    FullPrice = 3
    KnobValues = {}
    Terms = {"held"}
    MaxVersion = 2
    Requests = {"kill", "pause"}
PROPERTIES
    PauseClears
    SweepsEnd
    CyclesEnd
