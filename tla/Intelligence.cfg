SPECIFICATION Spec
CONSTANTS
    A = A
    B = B
    None = None
    Symbols <- MCSymbols
    Banks = {}
    Fixture <- MCFixture
    FixturePage <- MCFixturePage
    Pages <- MCPages
    Infos <- MCInfos
    FirstFeeds <- MCFirstFeeds
    MaxChanges = 1
    Universe <- MCUniverse
    Upsides <- MCUpsides
    Evaluations <- MCEvaluations
    MinScore = 3000
    MaxPortfolio = 1
    MaxCalls = 2
    Interval <- MCInterval
    MaxTime = 2
    MaxFaults = 2
INVARIANT ApprovalsOnLiveEvidence
INVARIANT NoTradeAgainstRedFlags
INVARIANT ReportedIsPublished
INVARIANT MarkedMeansHarvested
CHECK_DEADLOCK FALSE
