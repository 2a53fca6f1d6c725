SPECIFICATION Spec
CONSTANTS
    b1 = b1
    b2 = b2
    Bots <- MCBots
    None = None
    Corrupt = Corrupt
    Manual = Manual
    Histories <- MCHistories
    DsrValues = {0, 600}
    Benchmarks <- MCBenchmarks
    Markets <- MCMarkets
    Handwritten <- MCHandwritten
    Holidays = {}
    FirstDay = 3
    LastDay = 4
    MaxRuns = 2
CHECK_DEADLOCK FALSE
INVARIANT BuyOnOwnEvidence
