SPECIFICATION Spec
CONSTANTS
    Equities <- MCEquities
    InitialEquity = 100
    MaxDrawdownPct = 15
    MaxDailyLossPct = 3
    MaxOrderRate = 2
    RateWindow = 2
    HeartbeatTimeout = 0
    RequireEstablished = TRUE
    IOFaults <- MCIOFaults
    Threads <- NoThreads
INVARIANT NormalWithinDrawdown
PROPERTY ImplementsLatch
INVARIANT NormalLeavesNoHalt
PROPERTY HaltLeftOnlyByRearm
