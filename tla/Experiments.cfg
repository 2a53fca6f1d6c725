SPECIFICATION Spec
CONSTANTS
    e1 = e1
    c1 = c1
    c2 = c2
    v1 = v1
    v2 = v2
    good = good
    other = other
    s1 = s1
    None = None
    Experiments <- MCExperiments
    Callers <- MCCallers
    PoolSize = 2
    Versions <- MCVersions
    Contents <- MCContents
    Definition <- MCDefinition
    CountOf <- MCCountOf
    TimeframeOf <- MCTimeframeOf
    SymbolsOf <- MCSymbolsOf
    FlawsOf <- MCFlawsOf
    TradesOf <- MCTradesOf
    Declarations <- MCDeclarations
    Loads <- MCLoads
    MaxEdits = 2
    MaxJobs = 2
    MaxFailures = 1
INVARIANT CompletedIsBacked
INVARIANT ResultsReproducible
INVARIANT OutcomeOfOneJob
PROPERTY SubmittedRunEnds
CHECK_DEADLOCK FALSE
