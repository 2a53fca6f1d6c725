---------------------------- MODULE ResearchBot -----------------------------
(***************************************************************************)
(* The computations of AutonomousResearchBot (services/research_engine/     *)
(* decision_bot.py): the regime of the benchmark, the simulation of the     *)
(* four candidate strategies over hourly bars, their metrics and the        *)
(* choice.  A bar is its close and the conditions the indicators show on    *)
(* it.  Returns are in permille.                                            *)
(***************************************************************************)
EXTENDS Integers, Sequences, SequencesExt, FiniteSetsExt

\* The candidates in the order they are evaluated: the condition a candidate
\* enters on, the one it leaves on, and the close below which it gives up, in
\* permille of the entry.
Candidates ==
    <<[name |-> "STRAT_VWAP_REVERSION", enter |-> "below_vwap_band", leave |-> "at_vwap", floor |-> 980],
      [name |-> "STRAT_EMA_MOMENTUM", enter |-> "ema_cross_up", leave |-> "ema_down", floor |-> 980],
      [name |-> "STRAT_DONCHIAN_BREAKOUT", enter |-> "above_high20", leave |-> "below_low20", floor |-> 970],
      [name |-> "STRAT_BOLLINGER_REVERSION", enter |-> "below_lower_bb", leave |-> "at_sma20", floor |-> 985]>>

\* One bar of a candidate's simulation, with the position it holds (its entry
\* price, 0 for none) and the returns of the trades it has closed.
Step(c, s, bar) ==
    IF s.pos = 0
    THEN IF c.enter \in bar.marks THEN [s EXCEPT !.pos = bar.close] ELSE s
    ELSE IF c.leave \in bar.marks \/ bar.close * 1000 < s.pos * c.floor
         THEN [pos |-> 0, trades |-> Append(s.trades, ((bar.close - s.pos) * 1000) \div s.pos)]
         ELSE s

\* A position still open after the last bar counts for nothing.
Simulate(c, bars) ==
    FoldLeft(LAMBDA s, bar : Step(c, s, bar), [pos |-> 0, trades |-> <<>>], bars).trades

\* What the winning trades brought and what the losing ones cost.
Wins(trades) == FoldLeft(LAMBDA acc, x : IF x > 0 THEN acc + x ELSE acc, 0, trades)
Losses(trades) == FoldLeft(LAMBDA acc, x : IF x < 0 THEN acc - x ELSE acc, 0, trades)

\* In hundredths; without a loss the divisor is a millionth.
ProfitFactor(trades) ==
    IF Losses(trades) = 0 THEN Wins(trades) * 100000 ELSE (Wins(trades) * 100) \div Losses(trades)

\* Mutant: the curve starts at the first closed trade.
EquityCurveUnanchored(trades) ==
    Tail(FoldLeft(LAMBDA curve, x : Append(curve, (curve[Len(curve)] * (1000 + x)) \div 1000),
                  <<1000000>>, trades))

\* The compounded equity, from a baseline before the first trade.
EquityCurve(trades) ==
    FoldLeft(LAMBDA curve, x : Append(curve, (curve[Len(curve)] * (1000 + x)) \div 1000),
             <<1000000>>, trades)

\* The worst fall from the running peak, in permille.
MaxDrawdown(curve) ==
    FoldLeft(LAMBDA s, x : LET peak == Max({s.peak, x})
                           IN [peak |-> peak, worst |-> Max({s.worst, ((peak - x) * 1000) \div peak})],
             [peak |-> 0, worst |-> 0], curve).worst

\* _evaluate_strategy_metrics: the deflated Sharpe ratio is given, in permille.
Evaluate(c, trades, dsr) ==
    IF Len(trades) < 3 THEN [strategy |-> c.name, trades |-> trades, robust |-> FALSE, score |-> 0]
    ELSE [strategy |-> c.name, trades |-> trades,
          robust |-> /\ dsr >= 500 /\ ProfitFactor(trades) >= 110
                     /\ MaxDrawdown(EquityCurve(trades)) <= 120,
          score |-> dsr * ProfitFactor(trades)]

\* The ranking puts the robust first, then the higher score, then the earlier.
Outranks(e, i, f, j) ==
    \/ e.robust /\ ~f.robust
    \/ e.robust = f.robust /\ (e.score > f.score \/ (e.score = f.score /\ i < j))

Top(results) ==
    results[CHOOSE i \in DOMAIN results :
        \A j \in DOMAIN results \ {i} : Outranks(results[i], i, results[j], j)]

\* Mutant: the first of the ranking is chosen whatever its verdict.
ChoiceOfBest(results) == IF results = <<>> THEN "WAIT" ELSE Top(results).strategy

\* The strategy allocated: WAIT unless the first of the ranking is robust.
Choice(results) ==
    IF results # <<>> /\ Top(results).robust THEN Top(results).strategy ELSE "WAIT"

\* The regime of the benchmark: its 20-day return and its volatility in permille.
\* With fewer than 20 closes it stays unknown; a failed download counts as a range.
Regime(benchmark) ==
    CASE benchmark.status = "short"  -> "UNKNOWN"
      [] benchmark.status = "failed" -> "MEAN_REVERTING_RANGE"
      [] OTHER -> IF benchmark.vol > 350 THEN "HIGH_VOLATILITY_CHOP"
                  ELSE IF benchmark.ret > 30 THEN "TRENDING_BULL"
                  ELSE IF benchmark.ret < -30 THEN "TRENDING_BEAR"
                  ELSE "MEAN_REVERTING_RANGE"

=============================================================================
