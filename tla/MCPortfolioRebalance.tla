----------------------- MODULE MCPortfolioRebalance -------------------------
(* An instance of PortfolioRebalance for TLC. *)
EXTENDS PortfolioRebalance

CONSTANTS a, b, s1, s2

MCSymbols == <<a, b>>
Config(base, cap, threshold) == [base |-> base, cap |-> cap, threshold |-> threshold]
MCConfigs ==
    {[s \in {s1, s2} |-> IF s = s1 THEN Config(700, 700, 400) ELSE Config(300, 300, 400)],
     [s \in {s1, s2} |-> Config(500, 400, 300)]}
MCRiskStates ==
    {[drawdown |-> 50, volatility |-> 150], [drawdown |-> 200, volatility |-> 150]}
MCInitialPositions == [s \in {a, b} |-> IF s = a THEN 0 ELSE 6]
MCMacros == {-800, 0}

=============================================================================
