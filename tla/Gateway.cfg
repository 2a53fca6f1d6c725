SPECIFICATION GatewaySpec
CONSTANTS
    a = a
    t1 = t1
    Equities <- MCEquities
    InitialEquity = 100
    MaxDrawdownPct = 15
    MaxDailyLossPct = 3
    MaxOrderRate = 2
    RateWindow = 2
    HeartbeatTimeout = 0
    RequireEstablished = FALSE
    IOFaults <- MCIOFaults
    Threads <- MCThreads
    OrderIds <- MCOrderIds
    Costs <- MCCosts
    Balances <- MCBalances
INVARIANT ProcessedMeansAcceptedOnce
INVARIANT RateWindowRespected
INVARIANT HaltOnDisk
PROPERTY OrdersOnlyInTheClear
