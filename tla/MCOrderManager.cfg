\* Two callers on one side of a strike; two prices, two sizes; a restart.
SPECIFICATION Spec
CONSTANTS
    None = None
    Skip = Skip
    Tickers = {t1}
    Sides = {"bid"}
    Prices = {1, 2}
    MaxSize = 2
    MaxOrders = 3
    Tasks = {runner, operator}
    Booter = runner
    Faults <- MCBenignFaults
    MaxTries = 2
    MaxCrashes = 1
    CashLevels <- MCCash
    FullPrice = 3
INVARIANTS
    OneOrderPerKey
    NothingUntracked
    ViewMatches
PROPERTIES
    ImplementsSlots
    CallsReturn
