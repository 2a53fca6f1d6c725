SPECIFICATION RebalanceSpec
CONSTANTS
    a = a
    b = b
    s1 = s1
    s2 = s2
    StrategyIds = {s1, s2}
    MaxSingleWeight = 600
    CashFloor = 50
    MaxAggregateDrawdown = 150
    MaxVolatility = 250
    Assets <- MCSymbols
    StrategyConfigs <- MCConfigs
    Degradations = {100, 500}
    Macros <- MCMacros
    RiskStates <- MCRiskStates
    Schemes = {"EQUAL_WEIGHT", "DEGRADATION_ADJUSTED", "MACRO_ALIGNED"}
    Prices = {10000, 12000}
    Volumes = {0, 30, 100}
    InitialCash = 40050
    InitialPositions <- MCInitialPositions
    MaxTurnover = 600
    FeePermille = 1
    ParticipationPct = 10
    MaxRounds = 2
INVARIANT StaysSolvent
PROPERTY DragExplainsLoss
CHECK_DEADLOCK FALSE
