SPECIFICATION Spec
CONSTANTS
    s1 = s1
    A = A
    Sessions <- OneSession
    Symbols <- OneSymbol
    Capital <- SmallCapital
    Quantities <- SmallQuantities
    Prices <- SmallPrices
    Fee = 1
    Slippage = 1
    MinSellPrice = 5
    MaxTradePct = 60
    MaxDailyLossPct = 3
    MaxDrawdownPct = 4
    MaxOpenPositions = 2
    BreakerAttached = TRUE
    BreakerEquity = 1000
    BreakerDailyPct = 3
    BreakerDrawdownPct = 5
    MaxTrades = 3
    MaxFaults = 1
INVARIANT LedgerDriftBounded
INVARIANT AnsweredMeansDurable
PROPERTY DrawdownStopsBuying
PROPERTY DrawdownNeverForgiven
