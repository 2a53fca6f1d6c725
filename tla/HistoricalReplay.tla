-------------------------- MODULE HistoricalReplay --------------------------
(***************************************************************************)
(* HistoricalReplayEngine (services/backtest-engine/replay.py) with a       *)
(* PortfolioTracker behind its callback: a caller builds an engine over a   *)
(* series of bars, steps it event by event, and at each event marks the     *)
(* portfolio, calls a strategy and may trade in the symbol of the event.    *)
(* It may start over at any event; and the route of                         *)
(* apps/api/routes/replay.py runs a series to its end in one request.  The  *)
(* route of apps/api/routes/data.py judges a series and remembers nothing.  *)
(***************************************************************************)
EXTENDS BarStrategies, SimulatedPortfolio

CONSTANTS
    Datasets,      \* the series of bars callers have
    Configs,       \* [symbols, from, to, holidays, hours]: ReplayConfig
    Rank,          \* [Symbols -> Nat]: the alphabetical order of symbols
    Strategies,    \* kinds of strategy behind the callback: of BarStrategies, or "any"
    Quantities,    \* what the caller trades
    Fee, Slippage, \* costs of a fill, and its slippage per share
    MaxTrades,     \* bound: entries of one replay
    MaxResets      \* bound: restarts of one replay

ASSUME ReplayAssumption ==
    /\ Rank \in [Symbols -> Nat]
    /\ \A s, r \in Symbols : s # r => Rank[s] # Rank[r]
    /\ Quantities \subseteq Nat \ {0}
    /\ Fee \in Nat /\ Slippage \in Nat
    /\ \A config \in Configs : config.symbols \subseteq Symbols
    /\ \A series \in Datasets :
          /\ series \in Seq(Range(series))
          /\ \A i \in DOMAIN series :
                /\ series[i].symbol \in Symbols /\ series[i].time \in Nat
                /\ series[i].close \in Nat /\ series[i].high \in Nat
                /\ series[i].bad \subseteq NumberFlaws

VARIABLES
    bars,       \* the series in the caller's hands
    engine,     \* [config, events] or None
    index,      \* _current_index
    clock,      \* _current_time, or None
    history,    \* _history_by_symbol
    turn,       \* what the callback does next: "none", "mark" or "trade"
    kind,       \* the strategy behind the callback
    memory,     \* what it remembers
    portfolio,  \* the tracker behind the callback
    entries,    \* history: the events at which positions were opened
    resets,     \* bound
    runs        \* _replay_runs, without their ids

engineVars == <<engine, index, clock, history, turn>>
traderVars == <<kind, memory, portfolio, entries>>
vars == <<bars, engineVars, traderVars, resets, runs>>

-----------------------------------------------------------------------------
(***************************************************************************)
(* The events of a replay.                                                  *)
(***************************************************************************)

\* sorted() by (timestamp, symbol), which leaves ties as they were given: a bar
\* comes after as many as are before it.
Sorted(series) ==
    LET Before(i, j) ==
            LET a == series[i]
                b == series[j]
            IN  \/ a.time < b.time
                \/ a.time = b.time /\ Rank[a.symbol] < Rank[b.symbol]
                \/ a.time = b.time /\ a.symbol = b.symbol /\ i < j
        Place(j) == Cardinality({i \in DOMAIN series : Before(i, j)}) + 1
    IN  [n \in DOMAIN series |-> series[CHOOSE j \in DOMAIN series : Place(j) = n]]

InScope(config, bar) ==
    /\ bar.symbol \in config.symbols
    /\ config.from <= bar.time /\ bar.time <= config.to
    /\ config.holidays => IsTradingDay(DayUtc(bar.time))
    /\ config.hours => IsRegularSession(bar.time)

\* The bars in scope, in the order of the series.
Events(series, config) ==
    LET sorted == Sorted(series)
        kept == {j \in DOMAIN sorted : InScope(config, sorted[j])}
        Place(j) == Cardinality({i \in kept : i < j}) + 1
    IN  [n \in 1 .. Cardinality(kept) |-> sorted[CHOOSE j \in kept : Place(j) = n]]

\* The constructor raises on bars that are no canonical bars, on duplicates
\* after sorting, and when no event is left.
Accepts(series, config) ==
    /\ \A i \in DOMAIN series : IsCanonical(series[i])
    /\ IsValidSeries(Sorted(series))
    /\ Events(series, config) # <<>>

-----------------------------------------------------------------------------
(***************************************************************************)
(* The calls.                                                               *)
(***************************************************************************)

AtStart(config) ==
    /\ index' = 0 /\ clock' = None
    /\ history' = [s \in config.symbols |-> <<>>]
    /\ turn' = "none"

Construct(config) ==
    /\ engine = None
    /\ Accepts(bars, config)
    /\ engine' = [config |-> config, events |-> Events(bars, config)]
    /\ AtStart(config)
    /\ UNCHANGED <<bars, traderVars, resets, runs>>

\* POST /replay/run: an engine of its own, run to its end, in one request
\* (bound: once, and before the caller builds an engine, which it shares nothing with).
RunReplay(config) ==
    /\ engine = None /\ runs = {}
    /\ Accepts(bars, config)
    /\ runs' = {[symbols |-> config.symbols, total |-> Len(Events(bars, config))]}
    /\ UNCHANGED <<bars, engineVars, traderVars, resets>>

HasNext == engine # None /\ index < Len(engine.events)
Event == engine.events[index]

Step ==
    /\ HasNext /\ turn = "none"
    /\ LET event == engine.events[index + 1] IN
       /\ index' = index + 1
       /\ clock' = event.time
       /\ history' = [history EXCEPT ![event.symbol] = Append(@, event)]
       /\ turn' = "mark"
    /\ UNCHANGED <<bars, engine, traderVars, resets, runs>>

\* mark_to_market
Mark ==
    /\ turn = "mark"
    /\ portfolio' = MarkedToMarket(portfolio, Event.symbol, Event.close)
    /\ turn' = "trade"
    /\ UNCHANGED <<bars, engine, index, clock, history, kind, memory, entries, resets, runs>>

\* on_bar, with the position the tracker has in the symbol of the event.
Holding == portfolio.pos[Event.symbol] # {}
Closes == [i \in DOMAIN history[Event.symbol] |-> history[Event.symbol][i].close]

Proposes(what) ==
    kind # "any" => Proposal(kind, memory, Event, Closes, Holding) = what

CallStrategy ==
    /\ turn = "trade" /\ turn' = "none"
    /\ memory' = IF kind = "any" THEN memory ELSE AfterBar(kind, memory, Event, Holding)
    /\ UNCHANGED <<bars, engine, index, clock, history, kind, resets, runs>>

\* can_open_position at the close, then open_position at the price it fills at.
\* The strategies only ever propose to buy.
Open(side, qty) ==
    /\ CallStrategy
    /\ Proposes("enter") /\ (kind # "any" => side = "BUY")
    /\ Len(entries) < MaxTrades
    /\ CanOpen(portfolio, Event.symbol, qty, Event.close)
    /\ LET price == IF side = "BUY" THEN Event.close + Slippage ELSE Event.close - Slippage IN
       portfolio' = Opened(portfolio, Event.symbol, side, qty, price, Fee)
    /\ entries' = Append(entries, index)

\* At the strategy's word, or at a stop or target of the caller's own.
Close ==
    /\ CallStrategy
    /\ \E x \in portfolio.pos[Event.symbol] :
          LET price == IF x.side = "BUY" THEN Event.close - Slippage ELSE Event.close + Slippage IN
          portfolio' = Closed(portfolio, Event.symbol, price, Fee)
    /\ UNCHANGED entries

\* No trade: the strategy waits, or the caller declines.
Wait == CallStrategy /\ UNCHANGED <<portfolio, entries>>

NewTrader ==
    /\ portfolio' = NewPortfolio /\ memory' = NewMemory /\ entries' = <<>>
    /\ UNCHANGED kind

\* Mutant: the bars already seen stay in the buffers.
ResetKeepingHistory ==
    /\ engine # None /\ turn = "none" /\ resets < MaxResets
    /\ index' = 0 /\ clock' = None
    /\ NewTrader
    /\ resets' = resets + 1
    /\ UNCHANGED <<bars, engine, history, turn, runs>>

\* reset, with a new tracker and a new strategy behind the callback.
Reset ==
    /\ engine # None /\ turn = "none" /\ resets < MaxResets
    /\ AtStart(engine.config)
    /\ NewTrader
    /\ resets' = resets + 1
    /\ UNCHANGED <<bars, engine, runs>>

\* get_history: nothing before the first event; it raises if a bar is ahead of
\* the clock; `count' asks for the last bars only, unless it is 0.
History(s, count) ==
    IF clock = None \/ s \notin DOMAIN history THEN <<>>
    ELSE LET seen == history[s] IN
         IF 0 < count /\ count < Len(seen)
         THEN SubSeq(seen, Len(seen) - count + 1, Len(seen)) ELSE seen

Init ==
    /\ bars \in Datasets
    /\ engine = None /\ index = 0 /\ clock = None /\ history = <<>> /\ turn = "none"
    /\ kind \in Strategies /\ memory = NewMemory
    /\ portfolio = NewPortfolio /\ entries = <<>>
    /\ resets = 0
    /\ runs = {}

Next ==
    \/ \E config \in Configs : Construct(config) \/ RunReplay(config)
    \/ Step \/ Mark \/ Close \/ Wait \/ Reset
    \/ \E side \in {"BUY", "SELL"}, qty \in Quantities : Open(side, qty)

Spec == Init /\ [][Next]_vars

-----------------------------------------------------------------------------
\* What a strategy sees of a symbol is the past of the series, however the
\* caller ordered it and however often the replay was started over: every bar
\* in scope before the clock, none after it, in order of time.
HistoryIsPast ==
    engine # None => \A s \in Symbols :
        LET seen == History(s, 0)
            InReach(b) == b.symbol = s /\ InScope(engine.config, b)
        IN  /\ clock = None => seen = <<>>
            /\ clock # None =>
                 /\ \A i \in DOMAIN seen : InReach(seen[i]) /\ seen[i].time <= clock
                 /\ \A i, j \in DOMAIN seen : i < j => seen[i].time <= seen[j].time
                 /\ \A i \in DOMAIN bars :
                      InReach(bars[i]) /\ bars[i].time < clock =>
                        Cardinality({j \in DOMAIN seen : seen[j] = bars[i]}) = 1

\* A series the quality gate lets through with the session hours enforced is
\* replayed whole: the canonical validator finds nothing in it, and neither
\* the calendar of the replay, which reads dates in UTC, nor its session hours
\* drop a bar.  Nor does the older validator reject it.
EligibleIsReplayed ==
    engine = None /\ Eligible(bars, TRUE) =>
        /\ SeriesVerdict(bars) # "REJECTED"
        /\ \A config \in Configs :
              LET wanted == {i \in DOMAIN bars : /\ bars[i].symbol \in config.symbols
                                                /\ config.from <= bars[i].time
                                                /\ bars[i].time <= config.to}
              IN  wanted # {} => /\ Accepts(bars, config)
                                 /\ Len(Events(bars, config)) = Cardinality(wanted)

\* While no short position is open, the equity is the starting capital with the
\* realized and the unrealized profit and without the fees, over any sequence
\* of long and short trades (portfolio.py:4), and the tracker's own check of
\* its accounts holds.
EquityExplained ==
    (\A s \in Symbols : \A x \in portfolio.pos[s] : x.side = "BUY") =>
        /\ Equity(portfolio) =
             InitialCapital + portfolio.gross - portfolio.fees + Unrealized(portfolio)
        /\ IntegrityHolds(portfolio)

\* A breakout strategy that replays one symbol enters at most once a day, and
\* only above every bar of the opening range of that day, which is complete
\* before the entry: a new day, a trade of the day before or a replay started
\* over leaves no range behind.  (Its range is one for all symbols.)
BreaksOwnRange ==
    kind = "orb" /\ engine # None =>
        \A n \in DOMAIN entries :
            LET at == entries[n]
                DayOf(i) == DayUtc(engine.events[i].time)
                before == {i \in 1 .. at - 1 : DayOf(i) = DayOf(at)}
                opening == {i \in before : Cardinality({j \in before : j < i}) < RangeBars}
            IN  Cardinality(engine.config.symbols) = 1 =>
                  /\ Cardinality(opening) = RangeBars
                  /\ \A i \in opening : engine.events[at].close > engine.events[i].high
                  /\ \A m \in DOMAIN entries : m # n => DayOf(entries[m]) # DayOf(at)

=============================================================================
