----------------------- MODULE MCStrategyAllocation ------------------------
(* An instance of StrategyAllocation for TLC. *)
EXTENDS StrategyAllocation

CONSTANTS b1, b2
MCBots == {b1, b2}
\* The processes are alike.
Symmetry == Permutations(MCBots)

Bar(close, marks) == [close |-> close, marks |-> marks]

\* A round trip of the momentum candidate that returns x permille of 1000, and one
\* of the Donchian candidate on bars of its own.
Momentum(x) == <<Bar(1000, {"ema_cross_up"}), Bar(1000 + x, {"ema_down"})>>
Breakout(x) == <<Bar(1000, {"above_high20"}), Bar(1000 + x, {"below_low20"})>>

\* Three trades are enough; the last history is robust but for its first three
\* losses; the second has only two momentum trades.
MCHistories ==
    {Momentum(50) \o Momentum(-10) \o Momentum(30) \o Breakout(-60),
     Momentum(50) \o Momentum(60) \o Breakout(40) \o Breakout(-20) \o Breakout(30),
     Momentum(-60) \o Momentum(-60) \o Momentum(-60) \o Momentum(250)}

MCBenchmarks == {[status |-> "ok", vol |-> 100, ret |-> 50], [status |-> "failed", vol |-> 0, ret |-> 0]}
MCOneBenchmark == {[status |-> "ok", vol |-> 100, ret |-> 50]}

\* A trend, and a fall below every band.
MCMarkets ==
    {[price |-> 1000, atr |-> 10, sma9 |-> 1010, sma21 |-> 1000, rsi |-> 50, vwap |-> 1000,
      std20 |-> 20, high_20 |-> 990, lower_bb |-> 960, opening_high |-> 990],
     [price |-> 900, atr |-> 10, sma9 |-> 950, sma21 |-> 1000, rsi |-> 20, vwap |-> 1000,
      std20 |-> 20, high_20 |-> 1050, lower_bb |-> 960, opening_high |-> 990]}

\* The trend alone, for the run that explores overlapping cycles.
MCTrend == {m \in MCMarkets : m.price = 1000}

Hand(s, p, rm, aware) == [strategy |-> s, params |-> p, rm |-> rm, aware |-> aware]
MCHandwritten ==
    {Hand("BUY_AND_HOLD", <<>>, 10, TRUE),
     Hand("STRAT_DONCHIAN_BREAKOUT", [stop_loss_atr |-> 0], 10, TRUE),
     Hand("STRAT_EMA_MOMENTUM", <<>>, 60, TRUE)}

\* One that is admissible and one that is not.
MCFewHandwritten == {h \in MCHandwritten : h.rm <= 50}

=============================================================================
