------------------------- MODULE PortfolioRebalance -------------------------
(***************************************************************************)
(* The rebalancing of a portfolio: weights are allocated, the rebalancer    *)
(* turns them into orders at the prices it is given, and the execution      *)
(* router matches the orders one after the other against a later bar, each  *)
(* up to a share of the bar's volume.  An order the cash cannot pay aborts  *)
(* the whole match.  The caller keeps the positions and the cash between    *)
(* rebalances and books what the match returns.                             *)
(***************************************************************************)
EXTENDS PortfolioAllocation, Sequences, SequencesExt

CONSTANTS
    Assets,           \* the assets in alphabetical order: a sequence
    StrategyConfigs,  \* strategy configurations: [StrategyIds -> [base, cap, threshold]]
    Degradations,     \* scores a strategy may have
    Macros,           \* macro regime scores
    RiskStates,       \* [drawdown, volatility] the caller may report
    Schemes,          \* weighting schemes used
    Prices,           \* closes an asset may have
    Volumes,          \* volumes a bar may have
    InitialCash, InitialPositions,
    MaxTurnover,      \* permille of the value one plan may trade
    FeePermille,      \* 1: cost_per_trade_pct
    ParticipationPct, \* 10: max_volume_participation_pct
    MaxRounds         \* bound: rebalances

AssetSet == Range(Assets)

\* What the configurations, the market and the limits of the engines must be.
IsRebalance ==
    /\ IsFiniteSet(StrategyIds) /\ MaxSingleWeight \in 0..1000 /\ CashFloor \in 0..1000
    /\ \A c \in StrategyConfigs : \A s \in StrategyIds : c[s].base \in Nat /\ c[s].cap \in Nat
    /\ Degradations \subseteq Nat /\ \A macro \in Macros : macro \in Int
    /\ Assets \in Seq(AssetSet) /\ \A i, j \in DOMAIN Assets : i # j => Assets[i] # Assets[j]
    /\ InitialCash \in Nat /\ InitialPositions \in [AssetSet -> Nat]
    /\ Prices \subseteq Nat \ {0} /\ Volumes \subseteq Nat
    /\ MaxTurnover \in Nat /\ FeePermille \in 0..1000 /\ ParticipationPct \in 1..100
    /\ MaxRounds \in Nat

ASSUME RebalanceAssumption == IsRebalance

VARIABLES
    stage,      \* "idle", "plan", "route" or "book"
    round,      \* bound: rebalances so far
    cfgs,       \* the configurations in force
    weights,    \* the strategies' final weights
    price,      \* last close of each asset
    volume,     \* volume of the bar the orders are matched against
    bookCash, bookPositions, \* the caller's books
    orders,     \* proposed_orders, in the order they are matched
    fills,      \* fills of the current match
    routerCash  \* cash_balance within the match

rebalanceVars ==
    <<stage, round, cfgs, weights, price, volume, bookCash, bookPositions, orders, fills, routerCash>>

Holdings(pos) == FoldFunction(+, 0, [s \in AssetSet |-> pos[s] * price[s]])
PortfolioValue == bookCash + Holdings(bookPositions)

RebalanceInit ==
    /\ stage = "idle" /\ round = 0
    /\ cfgs \in StrategyConfigs /\ weights = [s \in StrategyIds |-> 0]
    /\ price \in [AssetSet -> Prices] /\ volume = [s \in AssetSet |-> 0]
    /\ bookCash = InitialCash /\ bookPositions = InitialPositions
    /\ orders = <<>> /\ fills = <<>> /\ routerCash = InitialCash

-----------------------------------------------------------------------------
(* Weights and plan.                                                       *)

\* run_portfolio_allocation; base weights above the whole are refused.
RunAllocation ==
    /\ stage = "idle" /\ round < MaxRounds
    /\ Total([s \in StrategyIds |-> cfgs[s].base]) <= 1000
    /\ \E deg \in [StrategyIds -> Degradations], macro \in Macros, stale \in BOOLEAN,
          scheme \in Schemes, risk \in RiskStates :
        weights' = Budget(cfgs, risk.drawdown, risk.volatility,
                          Allocate(cfgs, deg, scheme, macro, stale))
    /\ stage' = "plan" /\ round' = round + 1
    /\ UNCHANGED <<cfgs, price, volume, bookCash, bookPositions, orders, fills, routerCash>>

\* The weight of the strategies is spread evenly over the priced assets; whole
\* shares only, the remainder stays in cash.
TargetQty(s) == ((PortfolioValue * Total(weights)) \div (1000 * Len(Assets))) \div price[s]

Delta(s) == TargetQty(s) - bookPositions[s]
AbsVal(n) == IF n < 0 THEN -n ELSE n

Order(s) == [sym |-> s, side |-> IF Delta(s) > 0 THEN "BUY" ELSE "SELL", qty |-> AbsVal(Delta(s))]

\* The orders in alphabetical order of their symbols, as the router sorts them too.
Proposed ==
    LET moved == {i \in DOMAIN Assets : Order(Assets[i]).qty > 0}
        Place(i) == Cardinality({j \in moved : j < i}) + 1
    IN  [n \in 1..Cardinality(moved) |-> Order(Assets[CHOOSE i \in moved : Place(i) = n])]

Traded(ords, side) ==
    FoldLeft(LAMBDA acc, o : acc + (IF o.side = side THEN o.qty * price[o.sym] ELSE 0), 0, ords)
Turnover(ords) == Traded(ords, "BUY") + Traded(ords, "SELL")

\* Over the cap, an order keeps the whole shares of its part of the cap.
ScaleOrder(o, traded) == [o EXCEPT !.qty = (o.qty * ((PortfolioValue * MaxTurnover) \div 1000)) \div traded]

Limited(ords) ==
    IF Turnover(ords) * 1000 > PortfolioValue * MaxTurnover
    THEN [i \in DOMAIN ords |-> ScaleOrder(ords[i], Turnover(ords))]
    ELSE ords

\* The sales of the plan pay for its purchases and its friction.
Affordable(ords) ==
    Traded(ords, "BUY") * 1000 + Turnover(ords) * FeePermille
        <= (bookCash + Traded(ords, "SELL")) * 1000

\* generate_rebalance_plan: SolvencyError, or the plan.
GeneratePlan ==
    /\ stage = "plan"
    /\ LET plan == Limited(Proposed)
       IN IF Affordable(plan) THEN orders' = plan /\ stage' = "bar"
          ELSE orders' = <<>> /\ stage' = "idle"
    /\ UNCHANGED <<round, cfgs, weights, price, volume, bookCash, bookPositions, fills, routerCash>>

-----------------------------------------------------------------------------
(* The match.                                                              *)

\* The bar the plan is executed in comes after it: prices have moved.
ExecutionBar ==
    /\ stage = "bar"
    /\ price' \in [AssetSet -> Prices] /\ volume' \in [AssetSet -> Volumes]
    /\ stage' = "route" /\ fills' = <<>> /\ routerCash' = bookCash
    /\ UNCHANGED <<round, cfgs, weights, bookCash, bookPositions, orders>>

\* Integer square root, for the impact.
Root(n) == CHOOSE r \in 0..n : r * r <= n /\ n < (r + 1) * (r + 1)

\* calculate_market_impact for the default gamma and volatility and an average
\* daily volume of ten bars: the square root of the share of it, and half a spread.
Impact(qty, vol, p) ==
    IF qty = 0 \/ vol = 0 THEN 0
    ELSE (p * Root((qty * 1000) \div vol)) \div 10000 + (p * 5) \div 10000

Fillable(o) == Min({o.qty, (volume[o.sym] * ParticipationPct) \div 100})

FillPrice(o, qty) ==
    LET p == price[o.sym]  delta == Impact(qty, volume[o.sym], p)
    IN IF o.side = "BUY" THEN p + delta ELSE Max({1, p - delta})

TradeFee(o, qty) == (qty * FillPrice(o, qty) * FeePermille) \div 1000

\* Mutant: a sale is credited before its fee.
SaleProceedsGross(o, qty) == qty * FillPrice(o, qty)

SaleProceeds(o, qty) == qty * FillPrice(o, qty) - TradeFee(o, qty)

\* Mutant: the fee is not part of what a purchase must be able to pay.
CanPayPrice(o, qty) == qty * FillPrice(o, qty) <= routerCash

CanPay(o, qty) == qty * FillPrice(o, qty) + TradeFee(o, qty) <= routerCash

Fill(o, qty) ==
    [sym |-> o.sym, side |-> o.side, qty |-> qty, left |-> o.qty - qty,
     impact |-> Impact(qty, volume[o.sym], price[o.sym]) * qty, fee |-> TradeFee(o, qty)]

Current == orders[Len(fills) + 1]

\* One turn of the loop of match_bar_orders: what the bar's volume allows of an
\* order is filled, none of it when the bar has no volume.
MatchOrder ==
    /\ stage = "route" /\ Len(fills) < Len(orders)
    /\ LET o == Current  qty == Fillable(o)
       IN /\ qty # 0 /\ o.side = "BUY" => CanPay(o, qty)
          /\ fills' = Append(fills, Fill(o, qty))
          /\ routerCash' = IF o.side = "SELL" THEN routerCash + SaleProceeds(o, qty)
                           ELSE routerCash - qty * FillPrice(o, qty) - TradeFee(o, qty)
    /\ UNCHANGED <<stage, round, cfgs, weights, price, volume, bookCash, bookPositions, orders>>

\* SolvencyError: the caller gets no fills, those already matched included.
AbortMatch ==
    /\ stage = "route" /\ Len(fills) < Len(orders)
    /\ Current.side = "BUY" /\ Fillable(Current) # 0 /\ ~CanPay(Current, Fillable(Current))
    /\ stage' = "idle" /\ orders' = <<>> /\ fills' = <<>> /\ routerCash' = bookCash
    /\ UNCHANGED <<round, cfgs, weights, price, volume, bookCash, bookPositions>>

\* The caller books the fills and the cash the match returned.
FilledQty(s, side) ==
    FoldLeft(LAMBDA acc, f : acc + (IF f.sym = s /\ f.side = side THEN f.qty ELSE 0), 0, fills)

After(s) == bookPositions[s] + FilledQty(s, "BUY") - FilledQty(s, "SELL")

BookFills ==
    /\ stage = "route" /\ Len(fills) = Len(orders)
    /\ bookPositions' = [s \in AssetSet |-> After(s)]
    /\ bookCash' = routerCash
    /\ stage' = "idle" /\ orders' = <<>> /\ fills' = <<>>
    /\ UNCHANGED <<round, cfgs, weights, price, volume, routerCash>>

RebalanceNext ==
    \/ RunAllocation \/ GeneratePlan \/ ExecutionBar \/ MatchOrder \/ AbortMatch \/ BookFills

RebalanceSpec == RebalanceInit /\ [][RebalanceNext]_rebalanceVars

\* compute_brinson_attribution: the friction of a match.
FrictionDrag == FoldLeft(LAMBDA acc, f : acc + (f.impact + f.fee), 0, fills)

-----------------------------------------------------------------------------
(* Properties.                                                             *)

\* INV-32 (algo_lab_stage9_specification.md): though the plan lets sales pay for
\* purchases that may come first, and prices move before the match, neither the
\* cash of the books and of the match nor a position ever falls below zero.
StaysSolvent ==
    /\ bookCash >= 0 /\ routerCash >= 0
    /\ \A s \in AssetSet : bookPositions[s] >= 0 /\ After(s) >= 0

\* What a match takes from the portfolio, at the closes of its bar, is exactly the
\* friction the attribution reports for its fills.
DragExplainsLoss ==
    [][BookFills => PortfolioValue - (bookCash' + Holdings(bookPositions')) = FrictionDrag]_rebalanceVars

=============================================================================
