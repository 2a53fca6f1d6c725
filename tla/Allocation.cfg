SPECIFICATION Spec
CONSTANTS
    b1 = b1
    b2 = b2
    Bots <- MCBots
    None = None
    Corrupt = Corrupt
    Manual = Manual
    Histories <- MCHistories
    DsrValues = {600}
    Benchmarks <- MCOneBenchmark
    Markets <- MCTrend
    Handwritten <- MCFewHandwritten
    Holidays = {}
    FirstDay = 3
    LastDay = 4
    MaxRuns = 2
INVARIANT BuysAreWarranted
INVARIANT OneDecisionByOpening
INVARIANT DrawdownGate
SYMMETRY Symmetry
CHECK_DEADLOCK FALSE
