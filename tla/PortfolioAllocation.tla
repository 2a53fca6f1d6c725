------------------------ MODULE PortfolioAllocation -------------------------
(***************************************************************************)
(* The weights of the strategies: DynamicAllocationEngine and               *)
(* RiskBudgetingEngine of services/portfolio_optimization, as operators.    *)
(* Weights, scores and rates are in permille, and a rounding to six places  *)
(* is a rounding down.                                                      *)
(***************************************************************************)
EXTENDS Integers, FiniteSets, FiniteSetsExt, Functions

CONSTANTS
    StrategyIds,       \* strategy ids
    MaxSingleWeight,   \* 350: cap on any strategy
    CashFloor,         \* 50: cash_reserve_floor_pct
    MaxAggregateDrawdown, \* 150: max_aggregate_drawdown_pct
    MaxVolatility      \* 250: max_portfolio_volatility_annual

ASSUME BudgetAssumption ==
    /\ MaxSingleWeight \in 0..1000 /\ CashFloor \in 0..1000

Pool == 1000 - CashFloor

Total(w) == FoldFunction(+, 0, w)

\* The factor of a bearish macro score, halved at most when the data is stale.
MacroFactor(macro, stale) ==
    LET bearish == IF macro < 0 THEN Max({200, 1000 + macro \div 2}) ELSE 1000
    IN IF stale THEN Min({bearish, 500}) ELSE bearish

\* The weight of one strategy before the pool is shared out.
RawWeight(cfg, degradation, scheme, macro, stale) ==
    LET factor == MacroFactor(macro, stale)
        schemed == CASE scheme = "DEGRADATION_ADJUSTED" ->
                            (cfg.base * Max({0, 1000 - degradation})) \div 1000
                     [] scheme = "MACRO_ALIGNED" -> (cfg.base * factor) \div 1000
                     [] OTHER -> cfg.base
        scaled == IF macro < 0 \/ stale THEN (schemed * factor) \div 1000 ELSE schemed
    IN IF degradation > cfg.threshold THEN 0 ELSE Min({scaled, cfg.cap})

\* Weights over the pool are scaled down to it.
FitPool(w) ==
    IF Total(w) > Pool THEN [s \in DOMAIN w |-> (w[s] * Pool) \div Total(w)] ELSE w

\* calculate_allocations: refused when the base weights exceed the whole.
Allocate(cfgs, degradation, scheme, macro, stale) ==
    FitPool([s \in StrategyIds |-> RawWeight(cfgs[s], degradation[s], scheme, macro, stale)])

Capped(cfg, weight) == Min({weight, MaxSingleWeight, cfg.cap})

Breached(drawdown, volatility) == drawdown > MaxAggregateDrawdown \/ volatility > MaxVolatility

\* evaluate_risk_budget: a breach leaves everything in cash.
Budget(cfgs, drawdown, volatility, proposed) ==
    IF Breached(drawdown, volatility) THEN [s \in StrategyIds |-> 0]
    ELSE FitPool([s \in StrategyIds |-> Capped(cfgs[s], proposed[s])])

=============================================================================
