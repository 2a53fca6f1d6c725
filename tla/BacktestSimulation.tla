------------------------- MODULE BacktestSimulation -------------------------
(***************************************************************************)
(* One simulation of a backtest job, bar by bar: _run_simulation and        *)
(* _compute_metrics_from_trades of services/backtest-engine/service.py.     *)
(* At each timestamp of the timeline the portfolio is marked at the open,   *)
(* positions are exited, pending entries are filled at the open, the        *)
(* portfolio is marked at the close, and signals are raised for the next    *)
(* open.  Symbols need not have a bar at every timestamp.  Prices are in    *)
(* ticks; the moving averages are abstracted to the crosses they may show.  *)
(***************************************************************************)
EXTENDS RiskEngine, Sequences, FiniteSets, SequencesExt, FiniteSetsExt

CONSTANTS
    Universe,         \* the universe, in the order of the definition: a sequence
    BarShapes,        \* the bars [open, high, low, close] a symbol may have
    TradingRules,     \* subset of {"sma", "hold"}
    Horizon,          \* bound: timestamps of the longest timeline
    SignalFrom,       \* slow_period + 1: closes a symbol needs before it signals
    StartingCapital,
    AllocPermille,    \* 45: share of the capital one entry may use
    StopPct, HoldStopPct, \* 97 and 50: the stop, in percent of the entry price
    Slip,             \* slippage in ticks
    BuyCost, SellCost,\* cost of an order
    Absent            \* no bar, no price, no reason

SymbolSet == Range(Universe)

\* What a definition of an experiment, its costs and its bars must be.
IsSimulation ==
    /\ Universe \in Seq(SymbolSet)
    /\ StartingCapital \in Nat \ {0} /\ Horizon \in Nat \ {0} /\ AllocPermille \in Nat
    /\ StopPct \in Nat /\ HoldStopPct \in Nat
    /\ Slip \in Nat /\ BuyCost \in Nat /\ SellCost \in Nat
    /\ Absent \notin Nat \cup BarShapes \cup {"STOP_LOSS_GAP", "SIGNAL_EXIT", "STOP_LOSS"}
    /\ \A b \in BarShapes : /\ {b.open, b.high, b.low, b.close} \subseteq Nat \ {0}
                            /\ b.low <= b.open /\ b.low <= b.close
                            /\ b.open <= b.high /\ b.close <= b.high

ASSUME SimulationAssumption == IsSimulation

VARIABLES
    strategy,   \* the strategy of the experiment
    phase,      \* where the loop over the timeline is
    tick,       \* index of the current timestamp
    slot,       \* index into positions or pending within a phase
    bar,        \* [SymbolSet -> bar or Absent] at the current timestamp
    cash,
    peak,       \* peak_portfolio_val
    prevClose,  \* prev_close_val
    positions,  \* open positions, oldest first
    pending,    \* symbols with a pending entry, oldest first
    exits,      \* symbols with a pending exit
    entered,    \* buy and hold: symbols whose entry was queued
    closes,     \* [SymbolSet -> number of closes seen], counted up to SignalFrom
    lastClose,  \* [SymbolSet -> last known close or Absent]
    trades,     \* completed trades
    equity      \* equity curve

simulationVars ==
    <<strategy, phase, tick, slot, bar, cash, peak, prevClose, positions, pending, exits,
      entered, closes, lastClose, trades, equity>>

SimulationInit ==
    /\ strategy \in TradingRules
    /\ phase = "bar" /\ tick = 0 /\ slot = 1
    /\ bar = [s \in SymbolSet |-> Absent]
    /\ cash = StartingCapital /\ peak = StartingCapital /\ prevClose = StartingCapital
    /\ positions = <<>> /\ pending = <<>> /\ exits = {} /\ entered = {}
    /\ closes = [s \in SymbolSet |-> 0]
    /\ lastClose = [s \in SymbolSet |-> Absent]
    /\ trades = <<>> /\ equity = <<>>

-----------------------------------------------------------------------------
(* Prices and values.                                                      *)

BuyFill(price) == price + Slip
SellFill(price) == Max({1, price - Slip})

SumOver(seq, Op(_)) == FoldLeft(LAMBDA acc, x : acc + Op(x), 0, seq)

\* An open position at the open of its bar, or at its last known close.
OpenPrice(p, b) ==
    IF b[p.sym] # Absent THEN b[p.sym].open
    ELSE IF lastClose[p.sym] # Absent THEN lastClose[p.sym] ELSE p.entry

OpenValue(b) == cash + SumOver(positions, LAMBDA p : OpenPrice(p, b) * p.qty)

\* Some of the symbols, in the order of the universe.
InOrder(chosen) ==
    LET kept == {i \in DOMAIN Universe : Universe[i] \in chosen}
        Place(i) == Cardinality({j \in kept : j < i}) + 1
    IN  [n \in 1..Cardinality(kept) |-> Universe[CHOOSE i \in kept : Place(i) = n]]

InPosition(s) == \E i \in 1..Len(positions) : positions[i].sym = s

\* The trade a position becomes when it is sold at a price before slippage.
TradeOf(p, raw, reason) ==
    [sym |-> p.sym, qty |-> p.qty, from |-> p.at, to |-> tick, exit |-> SellFill(raw), reason |-> reason,
     pnl |-> (SellFill(raw) * p.qty - SellCost) - (p.entry * p.qty + p.fee)]

\* Mutant: the proceeds are booked before the cost of the sale.
ProceedsGross(p, raw) == SellFill(raw) * p.qty

\* What a sale adds to the cash.
Proceeds(p, raw) == SellFill(raw) * p.qty - SellCost

-----------------------------------------------------------------------------
(* One timestamp.                                                          *)

\* The next timestamp: one symbol at least has a bar.  The portfolio is marked
\* at the open, and the peak follows.
NextBar ==
    /\ phase = "bar" /\ tick < Horizon
    /\ \E b \in [SymbolSet -> BarShapes \cup {Absent}] :
        /\ \E s \in SymbolSet : b[s] # Absent
        /\ bar' = b
        /\ peak' = Max({peak, OpenValue(b)})
    /\ tick' = tick + 1
    /\ phase' = "exits" /\ slot' = 1
    /\ UNCHANGED <<strategy, cash, prevClose, positions, pending, exits, entered, closes,
                   lastClose, trades, equity>>

\* Mutant: a bar that trades exactly at the stop does not set it off.
ExitReasonBelow(p) ==
    IF bar[p.sym] = Absent THEN Absent
    ELSE IF bar[p.sym].open <= p.stop THEN "STOP_LOSS_GAP"
    ELSE IF p.sym \in exits THEN "SIGNAL_EXIT"
    ELSE IF bar[p.sym].low < p.stop THEN "STOP_LOSS"
    ELSE Absent

\* Why a position is exited in its bar, if it is: the open is looked at first.
ExitReason(p) ==
    IF bar[p.sym] = Absent THEN Absent
    ELSE IF bar[p.sym].open <= p.stop THEN "STOP_LOSS_GAP"
    ELSE IF p.sym \in exits THEN "SIGNAL_EXIT"
    ELSE IF bar[p.sym].low <= p.stop THEN "STOP_LOSS"
    ELSE Absent

\* Mutant: a gap through the stop is filled at the stop.
RawExitAtStop(p, reason) ==
    IF reason = "SIGNAL_EXIT" THEN bar[p.sym].open ELSE p.stop

\* The price of an exit before slippage.
RawExit(p, reason) ==
    CASE reason = "STOP_LOSS_GAP" -> Min({bar[p.sym].open, p.stop})
      [] reason = "SIGNAL_EXIT" -> bar[p.sym].open
      [] reason = "STOP_LOSS" -> p.stop

\* The next open position is sold, or kept.
ExitNext ==
    /\ phase = "exits" /\ slot <= Len(positions)
    /\ LET p == positions[slot]
           reason == ExitReason(p) IN
       IF reason = Absent
       THEN slot' = slot + 1 /\ UNCHANGED <<cash, positions, exits, trades>>
       ELSE /\ cash' = cash + Proceeds(p, RawExit(p, reason))
            /\ trades' = Append(trades, TradeOf(p, RawExit(p, reason), reason))
            /\ positions' = RemoveAt(positions, slot)
            /\ exits' = exits \ {p.sym}
            /\ UNCHANGED slot
    /\ UNCHANGED <<strategy, phase, tick, bar, peak, prevClose, pending, entered, closes,
                   lastClose, equity>>

\* Buy and hold queues each symbol once, at its first bar.
Due(s) == strategy = "hold" /\ ~InPosition(s) /\ s \notin entered /\ bar[s] # Absent

ExitsDone ==
    /\ phase = "exits" /\ slot > Len(positions)
    /\ LET due == {s \in SymbolSet : Due(s)} IN
       /\ pending' = pending \o InOrder(due)
       /\ entered' = entered \cup due
    /\ phase' = "entries" /\ slot' = 1
    /\ UNCHANGED <<strategy, tick, bar, cash, peak, prevClose, positions, exits, closes, lastClose,
                   trades, equity>>

\* The order an entry proposes: at least one share, whatever the share costs.
EntryProposal(s) ==
    LET price == BuyFill(bar[s].open)
        parties == IF strategy = "hold" THEN Len(Universe) ELSE 1
        permille == Min({cash, StartingCapital}) * AllocPermille
        pct == IF strategy = "hold" THEN HoldStopPct ELSE StopPct IN
    [sym |-> s, price |-> price,
     qty |-> Max({1, permille \div (1000 * parties * price)}),
     stop |-> (price * pct) \div 100]

Portfolio ==
    [value |-> OpenValue(bar), lastClose |-> prevClose, peak |-> peak, positions |-> Len(positions)]

\* The order is sent: the risk engine approves it and the cash covers it.
Enters(s) ==
    LET o == EntryProposal(s) IN
    /\ ~InPosition(s)
    /\ Approves(o, Portfolio)
    /\ cash >= o.price * o.qty + BuyCost

\* The position a fill opens, and whether its own bar stops it out.
NewPosition(s) ==
    LET o == EntryProposal(s) IN
    [sym |-> s, qty |-> o.qty, entry |-> o.price, stop |-> o.stop, fee |-> BuyCost, at |-> tick]

StoppedAtOnce(p) == strategy # "hold" /\ bar[p.sym].low <= p.stop

\* The next pending entry: kept if its symbol has no bar, else taken off the
\* list whether or not it is filled.
EnterNext ==
    /\ phase = "entries" /\ slot <= Len(pending)
    /\ LET s == pending[slot]
           p == NewPosition(s) IN
       IF bar[s] = Absent
       THEN slot' = slot + 1 /\ UNCHANGED <<cash, positions, pending, trades>>
       ELSE /\ pending' = RemoveAt(pending, slot)
            /\ UNCHANGED slot
            /\ \/ /\ ~Enters(s)
                  /\ UNCHANGED <<cash, positions, trades>>
               \/ /\ Enters(s) /\ ~StoppedAtOnce(p)
                  /\ cash' = cash - (p.entry * p.qty + BuyCost)
                  /\ positions' = Append(positions, p)
                  /\ UNCHANGED trades
               \/ /\ Enters(s) /\ StoppedAtOnce(p)
                  /\ cash' = cash - (p.entry * p.qty + BuyCost) + Proceeds(p, p.stop)
                  /\ trades' = Append(trades, TradeOf(p, p.stop, "STOP_LOSS"))
                  /\ UNCHANGED positions
    /\ UNCHANGED <<strategy, phase, tick, bar, peak, prevClose, exits, entered, closes, lastClose, equity>>

\* The peak after the mark at the close.
PeakAtClose(value) == Max({peak, value})

\* The mark at the close, and the signals for the next open.  The averages of
\* a symbol may cross either way once it has SignalFrom closes.
CloseBar ==
    /\ phase = "entries" /\ slot > Len(pending)
    /\ lastClose' = [s \in SymbolSet |-> IF bar[s] = Absent THEN lastClose[s] ELSE bar[s].close]
    /\ closes' = [s \in SymbolSet |-> IF bar[s] = Absent THEN closes[s] ELSE Min({SignalFrom, closes[s] + 1})]
    /\ LET value == cash + SumOver(positions, LAMBDA p :
                        (IF lastClose'[p.sym] = Absent THEN p.entry ELSE lastClose'[p.sym]) * p.qty) IN
       /\ equity' = Append(equity, value)
       /\ prevClose' = value
       /\ peak' = PeakAtClose(value)
    /\ \E golden, death \in SUBSET SymbolSet :
        /\ golden \cap death = {}
        /\ \A s \in golden \cup death :
              strategy # "hold" /\ bar[s] # Absent /\ closes'[s] >= SignalFrom
        /\ exits' = exits \cup {s \in death : InPosition(s)}
        /\ pending' = pending \o InOrder({s \in golden : ~InPosition(s) /\ ~Contains(pending, s)})
    /\ phase' \in {"bar", "final"}
    /\ slot' = 1
    /\ UNCHANGED <<strategy, tick, bar, cash, positions, entered, trades>>

\* After the last timestamp what is open is sold at its last known close.
LiquidateNext ==
    /\ phase = "final" /\ positions # <<>>
    /\ LET p == Head(positions)
           raw == IF lastClose[p.sym] = Absent THEN p.entry ELSE lastClose[p.sym] IN
       /\ cash' = cash + Proceeds(p, raw)
       /\ trades' = Append(trades, TradeOf(p, raw, "FINAL_LIQUIDATION"))
    /\ positions' = Tail(positions)
    /\ UNCHANGED <<strategy, phase, tick, slot, bar, peak, prevClose, pending, exits, entered, closes,
                   lastClose, equity>>

\* The last point of the curve is what is left in cash.
Finish ==
    /\ phase = "final" /\ positions = <<>>
    /\ equity' = [equity EXCEPT ![Len(equity)] = cash]
    /\ pending' = <<>>
    /\ phase' = "done"
    /\ UNCHANGED <<strategy, tick, slot, bar, cash, peak, prevClose, positions, exits, entered, closes,
                   lastClose, trades>>

SimulationNext ==
    NextBar \/ ExitNext \/ ExitsDone \/ EnterNext \/ CloseBar \/ LiquidateNext \/ Finish

SimulationSpec == SimulationInit /\ [][SimulationNext]_simulationVars

-----------------------------------------------------------------------------
(* The metrics of a finished simulation.                                   *)

DrawdownStep(acc, eq) ==
    LET top == Max({acc.peak, eq}) IN
    [peak |-> top,
     worst |-> IF (top - eq) * acc.worst[2] > acc.worst[1] * top THEN <<top - eq, top>> ELSE acc.worst]

\* Mutant: the drawdown is measured from the first close.
MaxDrawdownOfCloses(curve) ==
    FoldLeft(DrawdownStep, [peak |-> Head(curve), worst |-> <<0, Head(curve)>>], curve).worst

\* max_dd: the largest fall below the running peak, as <<fall, peak>>; the
\* curve is preceded by the initial capital.
MaxDrawdown(curve) ==
    FoldLeft(DrawdownStep, [peak |-> StartingCapital, worst |-> <<0, StartingCapital>>], curve).worst

\* maximum_consecutive_losses: a trade that breaks even counts as a loss.
MaxConsecutiveLosses(list) ==
    LET step(acc, trade) ==
            IF trade.pnl > 0 THEN [acc EXCEPT !.run = 0]
            ELSE [run |-> acc.run + 1, most |-> Max({acc.most, acc.run + 1})]
    IN FoldLeft(step, [run |-> 0, most |-> 0], list).most

-----------------------------------------------------------------------------
(* Properties.                                                             *)

Money(seq) == SumOver(seq, LAMBDA x : x.pnl)

\* No rupee is made or lost outside the trades: the cash, with what the open
\* positions cost, is the initial capital and the profit of the closed
\* trades; and a finished curve ends with that amount.
CashConserved ==
    /\ cash + SumOver(positions, LAMBDA p : p.entry * p.qty + p.fee) = StartingCapital + Money(trades)
    /\ phase = "done" => Last(equity) = StartingCapital + Money(trades)

\* No position outlives a bar of its own that traded at or below its stop,
\* whatever was pending; buy and hold alone ignores its entry bar.
StopRespected ==
    phase = "entries" /\ slot > Len(pending) =>
        \A i \in 1..Len(positions) :
            LET p == positions[i] IN
            bar[p.sym] # Absent /\ bar[p.sym].low <= p.stop => strategy = "hold" /\ p.at = tick

\* A sale inside a bar is filled at no better price than the bar traded at: a
\* gap through the stop costs the gap.
SalesAtTradedPrices ==
    [][Len(trades') > Len(trades) /\ phase \in {"exits", "entries"} =>
        Last(trades').exit <= SellFill(bar[Last(trades').sym].high)]_simulationVars

\* The metrics agree with their definitions on every curve and list of trades
\* a simulation can end with: the drawdown is the largest relative fall from
\* the initial capital or any earlier point, and the losing streak the longest
\* run of trades without a profit.
MetricsAgree ==
    phase = "done" =>
        LET curve == <<StartingCapital>> \o equity
            dd == MaxDrawdown(equity)
            streaks == {r \in (1..Len(trades)) \X (1..Len(trades)) :
                            r[1] <= r[2] /\ \A n \in r[1]..r[2] : trades[n].pnl <= 0} IN
        /\ \A i, j \in 1..Len(curve) :
              i <= j => (curve[i] - curve[j]) * dd[2] <= dd[1] * curve[i]
        /\ dd[1] = 0 \/ \E i, j \in 1..Len(curve) : i < j /\ curve[i] = dd[2] /\ curve[i] - curve[j] = dd[1]
        /\ MaxConsecutiveLosses(trades) = Max({0} \cup {s[2] - s[1] + 1 : s \in streaks})

=============================================================================
