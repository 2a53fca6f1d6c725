----------------------------- MODULE RiskEngine -----------------------------
(***************************************************************************)
(* The risk engine of services/risk-engine/engine.py as a decision: what   *)
(* an order proposal must satisfy, given the portfolio its caller reports. *)
(* Money is in ticks and the limits of HardRiskLimits are in percent.      *)
(***************************************************************************)
EXTENDS Integers

CONSTANTS
    MaxCapitalPerTradePct,   \* 5 in production
    MaxPortfolioDrawdownPct, \* 15
    MaxDailyLossPct,         \* 3
    MaxOpenPositions,        \* 10
    HookRejects              \* the symbols a registered hook turns down (hooks.py; none by default)

ASSUME LimitsAssumption ==
    /\ MaxCapitalPerTradePct \in 1..100 /\ MaxPortfolioDrawdownPct \in 1..100
    /\ MaxDailyLossPct \in 1..100 /\ MaxOpenPositions \in Nat \ {0}

\* evaluate: a portfolio has its value now, its value at the last close, its
\* peak and its number of open positions; a loss is never negative.  Checks 5
\* and 7 are one here: 90 percent of the drawdown limit is met first.
Approves(order, portfolio) ==
    /\ order.price > 0 /\ order.qty > 0
    /\ order.stop > 0
    /\ order.price * order.qty * 100 <= portfolio.value * MaxCapitalPerTradePct
    /\ (portfolio.lastClose - portfolio.value) * 100 < portfolio.lastClose * MaxDailyLossPct
    /\ portfolio.positions < MaxOpenPositions
    /\ (portfolio.peak - portfolio.value) * 1000 < portfolio.peak * MaxPortfolioDrawdownPct * 9
    /\ order.sym \notin HookRejects

=============================================================================
