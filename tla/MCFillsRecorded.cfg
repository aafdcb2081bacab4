\* One market, whose position changes between two cycles that read its book.
SPECIFICATION LedgerSpec
CONSTANTS
    Strips = {"a"}
    OtherBooks <- MCOtherBooks
    OwnBids <- MCOwnBids
    OwnLot = 50
    TargetSize = 20
    Discount <- MCDiscount
    MaxTurns = 3
    MaxMoves = 1
INVARIANT FillsRecorded
CHECK_DEADLOCK FALSE
