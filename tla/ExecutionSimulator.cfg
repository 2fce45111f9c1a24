SPECIFICATION Spec
CONSTANTS
    Candles <- MCCandles
    Decisions <- MCDecisions
    BarMinutes = 2
    ExpiryBars = 1
    MaxHolding = 3
    Fee = 1
    Slippage = 5
    Scale = 100
    MaxCandles = 9
    None = None
INVARIANTS
    NoDecisionTwice
    ResultsAreBounded
    TradesMatchDefinition
CHECK_DEADLOCK FALSE
