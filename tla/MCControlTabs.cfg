\* A tab on both sides of one strike; locks that expire.
SPECIFICATION Spec
CONSTANTS
    None = None
    Tickers = {t1}
    Sides = {"bid", "ask"}
    Events = {e1}
    EventOf <- OneEvent
    KnobValues = {5, 6}
    KnobInputs = {5, 6, 200}
    Terms = {"held", "timed"}
    MaxVersion = 4
    Tabs = {b1}
INVARIANTS
    OnlyLapsesUnseen
    KilledStaysStopped
PROPERTY
    NarrowerWins
