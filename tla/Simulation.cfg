SPECIFICATION SimulationSpec
CONSTANTS
    a = a
    b = b
    Absent = Absent
    Universe <- MCSymbols
    BarShapes <- MCBarShapes
    TradingRules <- MCStrategies
    HookRejects <- MCHookRejects
    MaxCapitalPerTradePct = 50
    MaxPortfolioDrawdownPct = 15
    MaxDailyLossPct = 5
    MaxOpenPositions = 1
    Horizon = 5
    SignalFrom = 1
    StartingCapital = 1000
    AllocPermille = 450
    StopPct = 97
    HoldStopPct = 85
    Slip = 1
    BuyCost = 2
    SellCost = 3
INVARIANT CashConserved
INVARIANT StopRespected
INVARIANT MetricsAgree
PROPERTY SalesAtTradedPrices
CHECK_DEADLOCK FALSE
