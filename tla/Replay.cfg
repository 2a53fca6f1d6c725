SPECIFICATION Spec
CONSTANTS
    A = A
    B = B
    None = None
    Symbols <- MCSymbols
    Instruments <- MCInstruments
    Rank <- MCRank
    ClosedDays <- MCClosedDays
    Now = 310
    MaxStaleBars = 1
    EngineSpike = 2
    ValidatorSpike = 1
    Datasets <- MCDatasets
    Configs <- MCConfigs
    Strategies <- MCStrategies
    RangeBars = 1
    FastPeriod = 1
    SlowPeriod = 2
    Quantities <- MCQuantities
    InitialCapital = 200
    MaxPositions = 2
    MaxCapitalPct = 50
    Fee = 1
    Slippage = 1
    MaxTrades = 2
    MaxResets = 1
INVARIANT HistoryIsPast
INVARIANT EligibleIsReplayed
INVARIANT EquityExplained
INVARIANT BreaksOwnRange
CHECK_DEADLOCK FALSE
