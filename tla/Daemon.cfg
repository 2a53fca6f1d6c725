SPECIFICATION Spec
CONSTANTS
    A = A
    B = B
    Symbols <- TwoSymbols
    Equities <- MCEquities
    InitialEquity = 100
    KillswitchPermille = 25
    MaxDays = 2
INVARIANT CutoffHandled
INVARIANT OperatorHaltHolds
PROPERTY DecisionOnce
PROPERTY BaselineSurvivesRestart
PROPERTY NoBuyWhileUnresolved
SYMMETRY Symmetry
CHECK_DEADLOCK FALSE
