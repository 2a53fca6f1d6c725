# Algo Lab: a TLA+ verification project

Algo Lab researches, backtests and paper-trades Indian equities. These modules
model the path from data to a fill: what a decision may rest on, what a backtest
reports of it, who may stop trading, who may start it again, and what of all this
survives a crash. All paths below are relative to `src/`.

## 1. The system

| Part | State it keeps | Operations | Talks to |
|---|---|---|---|
| **Circuit breaker** `services/execution_gateway/circuit_breaker.py` | state, high-water mark, day-start and current equity, persistence error, heartbeat, rate deque; a signed state file and a `.failed` marker | mark, session open, heartbeat, watchdog, rate limit, order admission, manual halt, re-arm, restore | called by the gateway, the session engine, the API; its own non-reentrant lock |
| **Safety gateway** `services/execution_gateway/safety_gateway.py` | cash balance, processed order ids | submit, update cash | asks the breaker four questions per submission, under a lock of its own |
| **Paper engine** `services/paper-engine/session.py` | sessions (status, portfolio) in memory and one SQLite row each | create, start, pause, stop, order, bar, new day | risk engine, order lifecycle, paper adapter, one shared breaker |
| **Risk engine, order lifecycle, costs** `services/risk-engine`, `services/backtest-engine/{execution_lifecycle,cost_models}.py` | none, or one order | evaluate, submit, fill | called by the paper and the backtest engine |
| **Live paper daemon** `run_live_paper_daemon.py` | halt and its reason, unresolved square-off, day baseline, executed decisions; `sentinel_state` table | start, cycle (mark, killswitch, square-off, exits, buys), halt, re-arm | paper engine, sentinel, strategies, manifest file, quotes, clock |
| **Autonomous sentinel** `services/paper-engine/autonomous_orchestrator.py` | killswitch, discrepancy halt; `system_state` table | killswitch check, pre-market job, end-of-day audit, resolution | driven by the daemon |
| **Experiments** `apps/api/routes/experiments.py`, `services/backtest-engine/{service,persistence}.py` | tables experiments, backtest_runs, audit_events, trades, equity_curves; a pool of worker threads and its queue | create, submit, run a job, simulate | dataset registry, bars in memory, risk engine |
| **Dataset registry** `services/market-data/registry.py` | records with checksum, count, symbols, quality status | register (idempotent, immutable content), quarantine, latest version | experiments, API |
| **Replay and tracker** `services/backtest-engine/{replay,portfolio}.py` | events, index, clock, history; positions, cash, realized profit, fees | construct, step, reset; mark, open, close | canonical validator, calendar, strategies with a memory |
| **Data quality** `services/data-quality`, `data/schemas/canonical_market_data.py` | none | judge a bar, judge a series | replay, API |
| **Feeds and decisions** `services/market-intelligence` | tables of news, snapshots, manifests, selections; times of the last harvest per tier | collect, score, decide an entry, review a holding, select stocks, scheduled harvest | live feeds that change at will, fixtures |
| **Research bot** `services/research_engine/decision_bot.py` | the decision manifest (a file) and its database row | evaluate strategies on a history, choose, write, store | stock selection; the daemon reads the file |
| **Strategies** `quant/strategies` | the bar-by-bar ones: range of the day, entered symbols | validate parameters, dispatch, on_bar | daemon, replay |
| **Optimisation and execution router** `services/portfolio_optimization`, `services/portfolio_execution` | weights; cash and fills of a match | allocate, plan, match, attribute | each other |
| **Broker credentials** `services/paper-engine/adapters/credentials.py` | an encrypted table, the cipher of the process, copies of the file | save, delete, get, list, migrate | broker routes |
| **Evaluation splits** `services/evaluation-engine/{walk_forward,partitioning}.py` | none | walk-forward windows, three-way partitions, their checks | experiments, research |
| **Option strategies** `services/derivatives_engine/strategy_builder.py` | none | factories, validation, payoff at expiry | the strategy backtester |
| Option pricing, evaluation statistics, breadth and sectors, indicators, reports | none that matters | formulas | |
| API, web, adapters, observability, cache | request state, files | routing, presentation, I/O | everything |

What makes each hard, and right:

- The **breaker** records a halt with two file-system calls and falls back on a
  third when they fail; any may fail, and the process or the machine may die in
  between. Right: a halt is never lost silently, and only a re-arm ends it.
- The **gateway**'s lock is not the breaker's: halts fall between its checks.
  Right: an id is accepted once; no order gets through while a halt, a
  breach or an error of recording one is there, whatever the breaker's state says.
- The **paper engine** changes memory first and commits afterwards. Right: what
  was answered is durable, the books balance up to rounding, drawdown stops buys.
- The **daemon** commits several times per cycle and keeps four overlapping flags
  that stop trading. Right: wherever it dies, it comes back no more permissive
  than it was, and no position is forgotten past the 15:15 cutoff.
- An **experiment** is written by request threads and worker threads in many small
  transactions, while the data it names may be replaced. Right: a completed run
  has all its rows, they come from the bars it names, and every run ends.
- The **simulation** orders exits, entries, marks and signals within each bar.
  Right: money is conserved and no sale is better than the market was.
- **Decisions** read feeds several times, and the feeds move in between. Right: no
  approval rests on a fixture where fixtures are not allowed, or ignores a flag.
- The **bot and the daemon** share a file that is rewritten in place and a
  database that is written later. A run of the bot takes any time, and runs
  overlap. Right: what is bought was found robust, for today, and decided before the session.
- The **router** matches in an order of its own at prices the plan never saw.
  Right: neither cash nor a position falls below zero.
- The **migration of credentials** may fail or die anywhere. Right: every secret
  can still be read.
- A **replay** hides the future and may be started over. Right: a strategy sees
  the past, all of it, and nothing of an earlier run.
- **Splits and option strategies** keep no state: what matters is that they hold for
  all sizes, strikes and prices. Right: nothing tested was trained on; a strategy
  that is meant to have a limited loss has one.

## 2. The modules

| Module | Models | State and actions against the code |
|---|---|---|
| `HaltLatch` | what the breaker promises | `halted`, `rearming`: a halt is left only by an accepted re-arm; a reboot is halted |
| `CircuitBreaker` | `CircuitBreakerEngine` and its disk | each public method is an action; a method that does I/O holds `lock` over one action per system call. `fileDur`/`markerDur` are what a power loss preserves. `Boot` is `_restore_disk_state` |
| `SafetyGateway` | `ExecutionSafetyGateway` over the breaker | EXTENDS `CircuitBreaker`; one action per check of `validate_and_process_order`, each at the moment it holds the breaker's lock |
| `PaperPortfolio` | accounting of `PaperPortfolio`, the audit | pure operators on a record, in ticks of INR 0.0001 |
| `PaperSession` | `PaperTradingEngine` | admission, fill and commit of a call are three actions under the engine's lock, so that the process may die, the commit fail, or the breaker move between them |
| `PaperDaemon` | `DaemonController`, `main()`, `AutonomousSentinel` | `pc` is where the loop stands; each commit to the database is an action of its own, and `Crash` may follow any |
| `RiskEngine` | `RiskEngine` as a backtest calls it | one predicate over a proposal and a portfolio |
| `DatasetRegistry` | `DatasetRegistryStore` and the bars a process holds | a version is a record of what was declared, `latest` the one updated last; bars are registered apart from it and may disagree |
| `ExperimentRuns` | the routes, `BacktestService`, `BacktestRunStore` | EXTENDS `DatasetRegistry`. `caller` and `work` say where each request and worker thread stands; a job is a script of writes, each write an action; `Refusals` is the list of checks in the order of `_run_job` |
| `BacktestSimulation` | `_run_simulation` and its metrics | EXTENDS `RiskEngine`. `phase` goes from `bar` (mark at the open) over `exits` and `entries` to the close and its signals, at the end to `final` and `done` |
| `MarketFeeds` | collectors and scores | what a feed answers now; `FetchNews` and `FetchSnapshot` with their fallbacks; scores in integers |
| `QuantamentalGate` | the evaluation agent, the stock decision engine, the research bot's selection and publication | EXTENDS `MarketFeeds`. `op` is the running call; one action per read of a feed and per write |
| `IntelligenceAssistant` | the scheduled cycle of the assistant | EXTENDS `QuantamentalGate`; one action per symbol and tier, a tier is marked last |
| `StrategyDispatch` | the registry and the entry conditions the daemon dispatches | pure operators: `ValidParameters`, `Setup` (the entry condition), `Dispatch`, and the scanner's signal |
| `ResearchBot` | evaluation of strategies and the choice among them | pure operators on a history of bars |
| `StrategyAllocation` | the bot's processes, the manifest file, the daemon that reads it | EXTENDS `ResearchBot`, `StrategyDispatch`; deciding, opening the file, writing, storing and dying are separate actions of each process of `Bots`, so that the stock selection between the decision and its file takes any time; the operator may write the file too |
| `PortfolioAllocation` | weights under caps, degradation and budget | pure operators, in permille |
| `PortfolioRebalance` | rebalancer, router, impact, attribution | EXTENDS `PortfolioAllocation`; one action per matched order, or the abort |
| `CredentialStore` | store and migration | a cell is a value and the keys it is wrapped in; the migration is a process with a transaction that opens at its first update |
| `DataQuality` | the engine, the validator and the canonical validator, the calendar | predicates over bars; time in quarters of an hour, UTC |
| `SimulatedPortfolio` | `PortfolioTracker` | operators on a record |
| `BarStrategies` | opening range, buy and hold, crossover | operators on the memory of a strategy |
| `HistoricalReplay` | `HistoricalReplayEngine` with a tracker and a strategy behind it | EXTENDS both; `turn` is what the callback does next |
| `MC...` | values of the constants | |
| `EvaluationSplits` | `WalkForwardEngine`, `create_disjoint_partitions`, `validate_partition_chronology` | a window is two ranges of bar indices, a partition a range of days or seconds |
| `OptionStrategies` | `MultiLegStrategyBuilder` and its factories, the entry fees of `strategy_backtester.py` | a strategy is a sequence of legs |
| `CircuitBreakerProofs`, `PaperSessionProofs`, `PaperDaemonProofs`, `ExperimentRunsProofs`, `IntelligenceProofs`, `CredentialStoreProofs`, `StrategyProofs`, `BacktestProofs` | theorems (section 5) | |

Time is a set of ages in `CircuitBreaker` (everything grows one tick older and an
age saturates once no comparison can tell it from a larger one), and four slots of
the trading day in `PaperDaemon` (before 09:15, to 15:15, to 15:30, after).

Abstractions worth knowing:

- Tokens, signatures and hashes are accepted or refused; a checksum is the content
  it is made of. A file that fails any check of the breaker's restore is one case
  of `Boot`.
- `_persist_disk_state` writes and fsyncs a temporary file before `os.replace`, so
  the replacement is one step. A power loss keeps or loses each directory entry
  changed since the last directory fsync, independently.
- `PaperSession` meets the breaker without I/O errors and rate limits, which
  `CircuitBreaker` has in full, and rounds only where the code divides: every
  amount has four decimals, so sums and products of ticks are exact. Half a tick
  rounds either way, because the quotient Python rounds is itself approximate.
- In `PaperDaemon` money is an equity chosen from a small set at each mark and
  sale, a quote is valid or not, a network outage is a cycle that does not run,
  and every day is a market day. The clock moves between cycles only. The
  commits of a start are one action: a crash between two of them leaves a
  database from which the next start does the same.
- `ExperimentRuns` does not say what a simulation computes, only which bars it
  computes from; `BacktestSimulation` says the rest, with moving averages
  abstracted to the crosses they may show, and costs to a fixed amount per side.
- `PortfolioRebalance` computes in integers of a smallest unit and rounds down
  where the code works in floating point; what it claims is exact in the model.
- `EvaluationSplits` takes shares in whole percents of integers, where the code
  multiplies floats (for the default shares the two agree). `OptionStrategies`
  counts strikes and prices in ticks and leaves out the contract multiplier,
  which scales every amount alike.
- The gateway's breaker has fewer faults to meet than `CircuitBreaker` (which writes
  and removals may fail is `IOFaults`), and one refused re-arm, for its token, stands
  for the other, for its ledger: neither changes anything.
- The bot reads the clock twice in a decision, for its date (`decision_bot.py:328`)
  and for its time (:351), and nothing but the ranking of results is between them;
  the model reads it once. The stock selection after it (:357) is a delay.
- `CredentialStore` keeps its rows over a restart, as with a file. `brokers.py:29`
  opens the store as `:memory:`, the branch of `credentials.py:152-157`: its rows end
  with the process, and there is nothing to migrate or restore. That branch is not
  modelled.
- `BacktestSimulation` leaves out the sizes that buy and hold takes from `weights` or
  `allocation_pct` (`service.py:605-612`): an entry has the size of the others, and
  no property depends on it.
- In the decision modules an article is its score, its urgency and whether it
  names a scandal, and ratios are whole percents.

## 3. The runs

| Run | Question | Distinct states | Result |
|---|---|---|---|
| `Breaker` | as deployed, with every fault and crash point: `NormalWithinDrawdown`, `NormalLeavesNoHalt`, `HaltLeftOnlyByRearm`, refinement of `HaltLatch` | 460 000 | holds |
| `Gateway` | submissions beside another thread, halts, failing writes, refused re-arms, restarts and power losses: `ProcessedMeansAcceptedOnce`, `RateWindowRespected`, `HaltOnDisk`, `OrdersOnlyInTheClear` | 4.6 million | holds |
| `Paper` | one session with a breaker: `LedgerDriftBounded`, `AnsweredMeansDurable`, `DrawdownStopsBuying`, `DrawdownNeverForgiven` | 2.1 million | holds |
| `Daemon` | `CutoffHandled`, `OperatorHaltHolds`, `DecisionOnce`, `BaselineSurvivesRestart`, `NoBuyWhileUnresolved` | 950 000 | holds |
| `Experiments` | `CompletedIsBacked`, `ResultsReproducible`, `OutcomeOfOneJob`, and, with fair threads, `SubmittedRunEnds` | 640 000 | holds |
| `Simulation` | `CashConserved`, `StopRespected`, `MetricsAgree`, `SalesAtTradedPrices` | 1.1 million | holds |
| `Intelligence` | `ApprovalsOnLiveEvidence`, `NoTradeAgainstRedFlags`, `ReportedIsPublished`, `MarkedMeansHarvested` | 2.1 million | holds |
| `Allocation` | `BuysAreWarranted`, `OneDecisionByOpening`, `DrawdownGate` | 1.4 million | holds |
| `Rebalancing` | `StaysSolvent`, `DragExplainsLoss` | 870 000 | holds |
| `Credentials` | `SecretsRecoverable`, `MigratedStaysReadable` | 50 000 | holds |
| `Replay` | `HistoryIsPast`, `EligibleIsReplayed`, `EquityExplained`, `BreaksOwnRange` | 370 000 | holds |
| `Fallback` | `BuyOnOwnEvidence` | | violated |

The violation: `quant/strategies/registry.py:10` and `run_live_paper_daemon.py:1059`
say that there is no fallback to the scanner. When the indicators of the crossover
or the Donchian breakout are missing from the market data, both take the scanner's
signal (`sma_cross.py:188`, `donchian_breakout.py:82`): an order is booked to a
strategy whose entry condition was not evaluated.

Every property that holds has a mutant in its module (an operator defined beside the one it
changes, the way a plausible slip would) that `PROJECT.json` lists and that
breaks it under the run's own configuration.

### Bounds, and why they are enough

- `Breaker`: three equities around 100 with 15% and 3% limits, so that each limit
  can be breached alone, both at once, and not at all; every I/O call may fail.
  Nothing else is bounded: ages saturate, and the rate deque is limited by the
  code's own limit.
- `Gateway`: one order id, resubmitted at will, one cost and two balances make
  duplicate, insolvent and good submissions; one more thread competes for tokens
  (2 in a window of 2 ticks, so that a full, a partly expired and an empty window
  all occur); a missing state file is no halt here, so that a restart can forget;
  replacing the file and writing the marker may fail, the two calls whose failure
  decides whether a halt is on the disk.
- `Paper`: quantities and prices are chosen so that an average is rounded, cash
  runs out, and a mark reaches the daily and the drawdown limits; `MaxTrades` 3
  allows buy, averaged buy, partial sale; `MaxFaults` 1 is a lost commit or a
  crash at any step. One session, because sessions share nothing but the breaker.
- `Daemon`: `MaxDays` 2 for the rollover, two symbols so that a square-off can fail
  for one of them, equities 100 and 97 around a limit of 2.5%. Symbols are
  symmetric: no action names one.
- `Experiments`: one experiment, two requests and two workers (`PoolSize`),
  `MaxJobs` 2 so that one may overlap another or follow it, two versions and two
  contents so that the bars may be the wrong ones, `MaxEdits` 2 changes of registry
  or bars per life of the process, `MaxFailures` 1 failing write or crash.
- `Simulation`: `Horizon` 5 timestamps are a signal, an entry at the next open, a
  hold, an exit and a final liquidation; the bars rise, reach the stop and gap
  below it, and each symbol may have none; one position at a time makes the two
  symbols compete.
- `Intelligence`: a symbol with a fixture and one without; the feeds begin with
  good answers or none and change once (`MaxChanges`), which is enough to fall
  between any two reads of a call; `MaxCalls` 2 for a second decision over the
  first; `MaxTime` 2 makes tiers due again, `MaxFaults` 2 lets a retry fail too.
- `Allocation`: a Thursday evening and the Friday after (`FirstDay` 3, `LastDay` 4), whose next
  day is a Saturday, two
  processes of the bot (`Bots`, which are alike) and `MaxRuns` 2, so that two runs follow
  or overlap each other at every step, two manifests of the operator, of which one is admissible;
  three histories with a robust strategy, none, and one that is robust but for its
  losses at the beginning.
- `Rebalancing`: `MaxRounds` 2, so that the second plan starts from partial fills;
  volumes 0, 30 and 100 are no fill, a partial fill and a full one.
- `Credentials`: `MaxSaves` 2, `MaxBackups` 3 migrations and `MaxKeys` 3 ephemeral
  keys, over a row half migrated and a connection yet to come. `Online` is FALSE:
  connections are left alone while a migration runs, as in the repository's tests;
  see section 4 for what happens otherwise.
- `Replay`: series of up to four bars from market and odd hours, a holiday and
  two exchanges; `MaxTrades` 2 and `MaxResets` 1.

Deadlock is checked in `Breaker`, `Gateway` and `Paper`, which go on for ever. The
others come to an end: a clock stops, a simulation or a replay is over, or a bound
is used up, and their configurations say so.

### Fairness

Only `ExperimentRuns` assumes any: weak fairness of each request that has begun
and of each job, queued or running. Both are threads of a running process (a
handler of the API, a worker of the executor), nothing in them waits for a
condition that another thread may hold off for ever, and the store's lock is held
for one statement. Nothing is assumed of clients, of edits, of failures or of
crashes, and a run whose process died, or whose failure could not be written,
is allowed to stay as it is (`lost`): the code has no recovery at start
(`service.py:1262` answers "already submitted"). All other properties are safety.

## 4. What the models show beyond the properties

Each of these is a sentence of the repository's docs or comments that its code
does not keep, or a behaviour that a reader would not expect. The properties above
are stated around them, and their comments say where.

- **A refused re-arm forgets the halt.** `admin_rearm` deletes the state file
  (`circuit_breaker.py:429`), the directory sync or the marker's removal fails, and
  the call returns False with the halt in memory and nothing on the disk. Without
  `require_established_state` the next start trades, where
  `algo_lab_stage11_specification.md:207` asks for an explicit re-arm.
  `HaltLeftOnlyByRearm` allows it under `Unrecorded`.
- **One breaker, many accounts.** Each session reports its own equity to the
  shared breaker (`session.py:743`), whose peak may be that of a larger one.
- **The rollover forgets a discrepancy.** It clears the killswitch that the
  discrepancy had set (`run_live_paper_daemon.py:831`), and buying looks at the
  killswitch alone; `autonomous_orchestrator.py:244` says it survives.
- **A recovered square-off lifts an operator's halt**, whose reason the failed
  square-off had overwritten (:503, :715), where :829 says halts persist.
  `OperatorHaltHolds` holds up to that point.
- **A decision is executed twice** when the daemon dies between the commit of its
  fill and the record of the decision (:1145), where :1040 says that it is
  suppressed. `DecisionOnce` holds but for that.
- **The killswitch is forgotten by a restart** on the same day
  (`autonomous_orchestrator.py:222`), and not evaluated between the exits and the
  buys of one cycle (`run_live_paper_daemon.py:904`).
- **Unrealized profit is stale** between marks (`session.py:168`).
- **The trail is not immutable.** `persistence.py:202` records "an immutable audit
  event", and `routes/experiments.py:8` offers an "immutable audit trail". Submitting a
  failed experiment again replaces its row (`INSERT OR REPLACE`, `persistence.py:157`), and the
  cascade of :115 deletes the events of the first run (`SaveRun`); its trades and equity
  points stay. `OutcomeOfOneJob` says what a run that ended tells. It neither asks for
  the deletion nor against it, and excepts runs that overlapped or were cut short.
- **A late decision is a second one.** The bot dates a decision before it selects
  stocks over the network (`decision_bot.py:328`, :357) and writes its file afterwards
  (:395). A selection that lasts into the session publishes a decision for a session
  already open, over the one the daemon may have traded, and the daemon, which
  knows decisions by their ids, trades it as well. `OneDecisionByOpening` says what
  remains: a session is traded under decisions made before it opened, and at most one of
  those it is traded under was in its file by then.
- **A shuffled feed is repaired, not refused.** The replay sorts before it
  validates (`replay.py:71`), so that the order check it runs can never fail. Two
  exchanges that quote a symbol at one time keep the caller's order, so that two
  orders of one series may replay differently.
- **Equity and short positions.** `portfolio.py:4` states two identities; with an
  open short position the second does not hold, because a short's proceeds are
  not taken into cash. `EquityExplained` is about portfolios without one.
- **Strict exclusion.** `stock_decision_engine.py:38` says that a flagged stock is
  strictly excluded; the flag is that of the first reading, and a candidate whose
  second reading raises one is selected. Entries do look at both.
- **A waiting verdict with a negative score** raises: the composite may be
  negative and a conviction may not (`Answer` in `QuantamentalGate`). Macro news
  use a name that is not defined (`collector_service.py:426`), so live macro news
  are never collected.
- **A migration beside a running store** loses a save: it reads all rows before its
  transaction begins. With `Online` TRUE TLC finds the lost save.
- **Walk-forward tests may overlap.** `WalkForwardConfig` does not ask for a
  `step_size` of at least `test_size`; with a smaller one each test repeats bars
  that the window before it has shown (`TestsDisjointByStep`).
- **Five to nine days are long enough, and refused.** `create_disjoint_partitions`
  says that fewer than five days are too short, and its default shares give a
  range of five to nine a validation of one day, which the check it ends with
  refuses as an invalid range (`DefaultsNeedTenDays`).
- **A butterfly may owe money.** Its factory asks for ascending strikes only; with an
  upper wing wider than the lower one it loses above it (`ButterflyNeedsItsWing`).
- **A collar has no stock.** `algo_lab_stage13_specification.md:150` bounds stock, put
  and call together; the factory returns the options alone, whose payoff has no lower
  bound (`HedgesAreExact`).
- **Entry fees are charged by the leg** (`strategy_backtester.py:88`), so that
  a butterfly is charged for three of the four lots it trades. A lot size
  below one is not refused, and a negative one turns a strategy into its opposite.
- **The token of a refused order** is spent: rate and cash are checked in this order.

## 5. The proofs

Each theorem holds for every value of the constants that satisfies the assumptions
of its component's modules, which TLC evaluates on the runs. The components below have an
inductive invariant in parts, named in the proof module; a theorem about a
property of section 3 follows from it, or from it and one step. No proof assumes an
axiom.

### The breaker and the gateway

`CircuitBreakerProofs`, for all equities, limits, rates, windows, threads and sets of
failing calls (`EquitiesAssumption`, `LimitsAssumption`):

| Theorem | Property |
|---|---|
| `TypeCorrect` | `TypeOK` |
| `TradingWithinDrawdown` | `NormalWithinDrawdown` |
| `SnapshotsAlwaysRestorable` | `SnapshotsRestorable` |
| `HaltsAreOnDisk` | `HaltOnDisk` |
| `TradingLeavesNoHalt` | `NormalLeavesNoHalt` |
| `HaltsLeftOnlyByRearm` | `HaltLeftOnlyByRearm` |
| `RateWindowIsRespected` | `RateWindowRespected` |
| `EngineImplementsLatch` | `ImplementsLatch`, assuming `RequireEstablished` |

The argument has three layers, each inductive over the one before it.

1. `TypeInv`: types, and that a step of a persist has one or two persists left to
   do, without which the count of the last one would leave its type.
2. `EquityInv`: the high-water mark is never under the equity, in memory and in
   every snapshot, and a trading engine is within the drawdown limit. The first
   half is needed because a re-arm makes the equity the new peak, and because a
   restart takes both from a snapshot.
3. `DiskInv`: which parts of the disk each step of the lock's holder implies. A
   halt is not on the disk while it is being recorded and while a re-arm is
   removing it, so `HaltOnDisk` by itself is not inductive: the invariant says of
   each of those steps what has been done so far, and that a failure sets `perr`
   before the lock is released.

The rate limiter has an invariant of its own, `RateInv`: the deque is no longer
than the limit, its oldest entry comes first, and the orders let through within the
window are exactly what a call would leave of it. The order is what makes pruning
from the front, which stops at the first entry still inside, remove every old
entry; without it the deque could keep one and refuse an order too many, or the
equality with the admitted orders would fail when a tick passes.

The refinement maps `rearming` to the removal steps of the lock and needs
`TypeInv` and `DiskInv` only. Each step lemma has one case per action.

The second half of `CircuitBreakerProofs` is about the gateway, for all ids, costs and
balances besides:

| Theorem | Property |
|---|---|
| `NoIdAcceptedTwice` | `ProcessedMeansAcceptedOnce` |
| `OrdersPassInTheClear` | `OrdersOnlyInTheClear` |

`ProcessedMeansAcceptedOnce` alone is not inductive: the last step of a submission
accepts its id, which an earlier step found unprocessed. The invariant adds that
a submission past the duplicate check carries an id that is not processed yet,
which holds because the gateway's lock admits one submission at a time.

`OrdersOnlyInTheClear` is about all the breaker knows, and the step that lets an order
through asks for its state alone. `BreakerInv` carries the breaker's three layers over
to the gateway: each step of the gateway but its look at the rate is a step of the
breaker or none of its, and that one changes the deque alone (`GatewaySteps`, `NextBreaker`). To
them it adds `ErrorInv`: an engine that trades has no error of recording a halt.
It needs `DiskInv`: what sets the error, a failed write of a halt or a failed removal
by a re-arm, comes steps after the decision that the engine is halted, and `DiskInv` says
that it still is; an accepted re-arm clears the error with the halt.

### The paper engine

`PaperSessionProofs`, for any sessions, capital, quantities, prices, fees and limits and
a finite set of symbols (`SessionAssumption`); the number of trades and faults may be
any natural number:

| Theorem | Property |
|---|---|
| `SessionsStayConsistent` | the invariant, `SessionInv` |
| `AnswersAreDurable` | `AnsweredMeansDurable` |
| `BooksDriftByRoundingAlone` | `LedgerDriftBounded` |
| `DrawdownsAreNeverForgiven` | `DrawdownNeverForgiven` |
| `DrawdownLimitsBuying` | `DrawdownStopsBuying` |

- `CallInv`: one call at a time, about a session that exists. `DurableInv`: a
  session has at most one row, and a session whose calls have all answered has
  exactly what memory has.
- `PeakInv`: memory never knows a lower peak or drawdown than the row. A commit
  replaces the row by memory, so this is what makes `DrawdownNeverForgiven` hold of
  it; a restart makes them equal.
- `BooksInv` is the potential argument behind `LedgerDriftBounded`. The bound on the
  imbalance is not inductive: selling a position whose average was rounded moves
  money that no earlier state shows. What is bounded is the imbalance plus, for
  each position, how far its average times its quantity is from its cost: a buy
  adds at most half a tick a share to the sum, and a sale turns the second into the
  first. It also says that what is not held costs nothing, and that the recorded
  drawdown, in rounded basis points, is not behind the present one by more than
  its rounding, from which `DrawdownStopsBuying` follows.

Equity and imbalance are sums over the symbols, computed by a recursive function on
their subsets. The prover has no induction, so the module derives what it needs
(the sum exists, does not depend on the order, and changes by what one summand
changes by) from the existence of a smallest counterexample.

### The daemon

`PaperDaemonProofs`, for any symbols, equities, loss limit and number of days
(`DaemonAssumption`), with a crash after every commit:

| Theorem | Property |
|---|---|
| `CutoffAlwaysHandled` | `CutoffHandled` |
| `OperatorHaltsHold` | `OperatorHaltHolds` |
| `BaselineIsKept` | `BaselineSurvivesRestart` |
| `NoBuysWhileUnresolved` | `NoBuyWhileUnresolved` |
| `DecisionsExecutedOnce` | `DecisionOnce` |

`DaemonInv` says which fields of a running process are those of the database
(`MemoryInv`), what the loop knows at each step (`StepInv`: at the exits of a day past
its cutoff nothing is held any more, while buying nothing is unresolved or
quarantined, while lifting a halt nothing is held), and four facts about several
cycles: a session with a quarantined position is halted but for the one step
between the two commits (`QuarantineInv`), an operator's halt is on the disk with its
reason and no recovery is under way (`ManualInv`), a daemon on its way back to sleep
after the cutoff has the flag of a failed square-off if it holds anything
(`CutoffInv`), and the decision of a day that bought is on record, is being recorded, or
was cut off from it by a crash (`DecisionInv`). Each is needed where a step of another
cycle, or a restart in the middle of one, starts from what an earlier one left.

### Experiments and their jobs

`ExperimentRunsProofs`, for any experiments, versions, contents, clients and workers, any
number of jobs, trades and bars (`DefinitionAssumption`, `RowAssumption`,
`ContentsAssumption`, `RecordAssumption`):

| Theorem | What it says |
|---|---|
| `RunsStayConsistent` | the invariant, `RunsInv` |
| `CompletedRunsAreBacked` | `CompletedIsBacked` |
| `ResultsStayReproducible` | `ResultsReproducible` |
| `DefinitionsAreKept` | a definition or a run that is there stays, and the checksum of a definition never changes |
| `RunsHaveOneJob` | the invariant behind the next, `OneJobInv` |
| `RunsTellOfOneJob` | `OutcomeOfOneJob` |

`CompletedIsBacked` relates the run's row to two other tables that a job fills row by row,
while other jobs of the same experiment may do the same. The invariant follows the
job instead: `ScriptInv` says that what is left of a job's writes either cannot
complete the run, or is the end of a completion of which the tables already
have the first part, trades before equity points. `AheadInv` says that a job which has not
come to its results has none in the tables, so that the part begins at nothing, and
`MetricsInv` that metrics are backed by rows whose job has no results left to write. `JobInv`,
`CallerInv` and `QueueInv` say what a request, a queue entry and a job have read
that still holds, in particular that a row written back has the checksum of the
definition (which nothing changes) and that no two jobs have one number.

`OutcomeOfOneJob` speaks of the end of a run and is not inductive. `OneJobInv`
follows every run that was not submitted over and met no failure (`Clean`) through its
life: it is with one request, at one place of the queue, or with one job, and with only one
of these, or it has ended. With a request or in the queue it has no metrics, no
completion in its trail, no trades and no equity points (`Fresh`); with a job, `Progress` says what of the start, the completion and the
status is written and what the job's script still holds; ended, it failed without any of these or
completed with its own (`Ended`). A run may be submitted again after it failed,
which is why a failed run must be without results: `save_run` leaves trades and equity
points where they are. Steps of other requests and jobs leave all of this alone (`LeftAlone`), and
each write of its own job takes it one place further (`OpeningProgresses`,
`RefusedProgresses`, `CompletingProgresses`, `ReportedProgresses`).

### Decisions and the research assistant

`IntelligenceProofs`, for any symbols, feeds, fixtures, universe, backtest results,
intervals and number of calls (`FeedAssumption`, `GateAssumption`, `IntervalAssumption`):

| Theorem | Property |
|---|---|
| `IntelligenceStaysSound` | the invariant, `IntelligenceInv` |
| `DecisionsRestOnLiveEvidence` | `ApprovalsOnLiveEvidence` |
| `RedFlagsAreHeeded` | `NoTradeAgainstRedFlags` |
| `ReportsArePublished` | `ReportedIsPublished` |
| `MarksAreEarned` | `MarkedMeansHarvested` |

- `GateInv` follows one call through its reads (`Gathered`): what was read so far is
  fresh, a holding that has come to its fundamentals was not let go for its news, and
  the manifest is made of what was read and not of what the feeds say by now.
  `Decided` says the same of a finished call, whose verdict is that of the first rule
  that applies (`ApprovedPassesVetoes`), `Candidates` of a selection under way.
- `PublishInv`: a cycle of research that is under way has a number that no file and no row
  has, and the file has it before the database does.
- `HarvestInv`: while a tier is collected each symbol of the universe is still ahead or was gone
  through at the time of this cycle, and no mark is later than the clock. A mark
  alone says nothing about the symbols an unfinished cycle has yet to reach.

### Credentials

`CredentialStoreProofs`, for any connections, secrets and legacy file, any number of saves,
migrations and ephemeral keys (`StoreAssumption`, `LegacyAssumption`):

| Theorem | Property |
|---|---|
| `SecretsStayRecoverable` | `SecretsRecoverable`, assuming `~Online` |
| `MigratedRowsStayReadable` | `MigratedStaysReadable`, assuming `~Online` |

`~Online` is the operating rule under which the property is true: with connections changed
beside a migration a save is lost (section 4). `StoreInv` says that every
cell has the value it was given (`ValueInv`), that with a configured key nothing is
encrypted under another (`KeyInv`, `WrapInv`), that a committed migration left no
plaintext (`CipherInv`), and, which makes the restore safe, that while a migration runs
and while the file is half restored the last backup is the file as it is, and the
transaction works on that (`BackupInv`).

### Splits and option strategies

The first half of `StrategyProofs` is about operators, for every length of the data and
every configuration the code accepts (sizes are natural numbers):

| Theorem | What it says |
|---|---|
| `EveryWindowThatFits` | the loop returns every window that fits, and at least one |
| `TrainingPrecedesTests` | no window trains on a bar that it or a later one tests |
| `TestsDisjointByStep` | tests are disjoint exactly when the step is no smaller than they are |
| `SplitsAreSound` | an accepted split gives each day or second to one partition, in order |
| `DefaultsNeedTenDays` | which ranges the default shares can split |

The first three rest on the lemma that each step moves the window on by at least
`step_size`; the last two on bounds of the days that integer division gives away.
For all lots, ascending strikes, premiums and prices at expiry, in integers:

| Theorem | What it says |
|---|---|
| `VerticalsAreBounded` | a vertical spread pays and owes at most the distance of its strikes |
| `CondorLossIsOneWing` | an iron condor owes at most its wider wing, nothing between its short strikes |
| `ButterflyNeedsItsWing` | a butterfly never owes exactly when its upper wing is no wider |
| `HedgesAreExact` | a synthetic long is the underlying; a collar bounds it, but only with the stock |
| `MirrorsCancel` | the two sides of a strategy lose exactly both sides' costs |
| `FactoriesAreValid` | every factory's strategy passes `validate_strategy_spec` |
| `ButterflyIsUndercharged` | its entry is charged for one lot too few |

The lemmas write a payoff as a sum over two, three or four legs, whose products are
integers; each theorem then compares the spot with each strike. These operators
have no run of their own: they have no behaviours, and the theorems cover every
input that TLC could enumerate.

### The strategy of a day

The second half of `StrategyProofs` is about `StrategyAllocation`, for any histories,
benchmarks, markets, holidays, manifests an operator may leave, and any number of
processes of the bot, days and runs (`AllocationAssumption`, `ManifestAssumption`):

| Theorem | Property |
|---|---|
| `AllocationStaysConsistent` | the invariant, `AllocationInv` |
| `BuysRestOnRobustStrategies` | `BuysAreWarranted` |
| `SessionsHaveOneDecisionByOpening` | `OneDecisionByOpening` |

- `FilesInv`: a whole manifest in the file of a day is for the day after, whoever left
  it there, and was made before that day's session opens; one of the bot carries the
  number of a decision that found its strategy robust, unless it waits (`Filed`).
  Nothing is said of a file that was opened and not filled, or has parts of two.
- `BotInv`: the same of each decision that is on its way to its file, however long
  ago it was made.
- `OrdersInv`: today's orders of the bot were made before the session opened. Those under a
  decision that was not late have one number, and the file of yesterday holds that
  decision or what came into it since: nothing whole, a manifest of the operator, or a
  decision that was late. Without the last part a second decision in time could be read
  from the file; that what is written during the session is late by its time and its
  target (`Filed`) keeps it.

What the bot evaluates are folds over sequences of bars and trades. That they stay
within their types is proved from a table of the fold on the prefixes of its sequence
(`FoldExists`, `FoldTyped`), that the ranking has a first member from the four candidates
(`TopExists`).

### The replay and the portfolio behind it

`BacktestProofs` extends `HistoricalReplay`, `BacktestSimulation` and `PortfolioRebalance`,
which have no name in common, so that what the three need of sums and of places in an
order is proved once. Its first part, for any symbols, series
of bars, configurations, quantities, costs and ranges and any number of trades and
restarts (`ReplayAssumption`, `PortfolioAssumption`, `StrategyAssumption`: sets of symbols
are finite, prices and quantities natural numbers, no two symbols share a rank):

| Theorem | Property |
|---|---|
| `TheEligibleAreReplayed` | `EligibleIsReplayed` |
| `HistoriesArePast` | `HistoryIsPast` |
| `EquityIsExplained` | `EquityExplained` |
| `BreakoutsAreOfTheDay` | `BreaksOwnRange` |

- `EligibleIsReplayed` is about the series alone: that the quality gate, which works in IST,
  leaves nothing that the replay's calendar, which reads dates in UTC, would drop; and that
  sorting the bars by time and name gives each a place of its own (`PlacesFilled`: a
  strict order of a finite set numbers it without a gap).
- `ClockInv` says that an engine has the events of the caller's series, each once and in order, and
  the clock of its last event; `BuffersInv` that the history of each symbol is the events of that
  symbol replayed so far, in order. `HistoryIsPast` alone is not inductive: it does
  not say that what comes next is no earlier than what was shown.
- `AccountsInv`: the tracker's record has its type and `Balanced`: cash, and what each open
  position cost or brought, make up capital, realized profit without the fees. `EquityExplained` alone
  says nothing while a short position is open, and what a closed short leaves must still add up.
- `BreakoutInv`: the strategy remembers the day of its last event, how many events that day
  had, and a price that no opening bar of it is above (`RangeOf`); the entries so far are
  breakouts, one a day, and one of today is remembered (`EntriesOf`). `BreaksOwnRange` speaks of
  the entries alone, and the next one is made from the memory.

### The simulation of a backtest

For any universe, strategies, bars, limits, costs and length of the timeline
(`SimulationAssumption`):

| Theorem | Property |
|---|---|
| `CashIsConserved` | `CashConserved` |
| `StopsAreRespected` | `StopRespected` |
| `SalesAreAtTradedPrices` | `SalesAtTradedPrices`, assuming `SlipWithinStop` |

`SimulationType` has the types and that every pending name is a symbol. `StopInv` says of
each of the loops over positions and entries what its turns have left: the positions
already looked at in this bar were not stopped by it, and while entries are filled no
position was, but one that buy and hold opened in this bar. `CashInv` follows the cash through the phases, with the last
point of the curve put right after the liquidation. `SlipWithinStop` says that an entry's
stop is not above the open it was bought at: with more slippage than the stop is away
(3 % against 5 basis points by default) a position would be stopped at once at a price
above its bar.

### The rebalancing of a portfolio

For any assets, strategies, configurations, prices, volumes and number of rebalances
(`RebalanceAssumption`: the names are distinct, the fee is at most the whole, the match
takes at most the whole volume):

| Theorem | Property |
|---|---|
| `RebalancesStaySolvent` | `StaysSolvent` |
| `DragIsTheLoss` | `DragExplainsLoss` |

- `StaysSolvent` is about what is left after a match, and a match is a row of orders: the
  invariant says before it that the plan is `Matchable` (one order an asset, no sale of more than
  is held), and during it that fills are of the orders in their places and assets without a
  fill are as they were (`FillsInv`). An order therefore meets the position it was
  planned for.
- `DragInv`: in the middle of a match, what it has taken at the closes of the bar is the friction of
  the fills so far. It rests on `FillBalance`: what a fill pays or brings is its shares
  at the close and its impact, which is below the price because no fill is larger
  than the volume of its bar (`ImpactBelow`); otherwise the floor of one tick under a sale would
  break the equality.

Sums over sequences and functions are folds of the community modules, which are recursive
functions on sets. As in `PaperSessionProofs` the lemmas (`AddsAny`, `RunningSum` and those
after them) derive from the existence of a smallest counterexample that the sum is a
number and what one more, one less or one changed summand makes of it. The
prover has no theory of `SortSeq` and `SelectSeq`, so `Sorted`, `Events`, `InOrder` and `Proposed`
give each element its place by counting those before it, which is the same sequence.

### Only model-checked

- `SubmittedRunEnds` is liveness, and no theorem uses `ENABLED`.
- `MetricsAgree` compares two folds with maxima over all pairs of points. It is a property of
  two operators and not of the steps of the simulation, and in the model, where a cost is a fixed
  amount, it is not true of every constant: costs above what a sale brings give a
  negative equity, of which a relative drawdown says nothing.
- `DrawdownGate` compares two computations of a compounded curve that round at different
  places. Its permille of slack covers the rounding of the histories checked and not that of
  arbitrarily many trades: no theorem says it for all.

## 6. What is not modelled

- Option pricing, greeks, volatility surfaces and margins, the statistics of an
  evaluation, indicators, breadth, sectors and flows, and the reports over
  backtests are floating-point formulas without state.
- The evaluation of a strategy on a window's bars, and the strategy backtester but for
  its entry fees.
- The API's other routes, the web application, the research page
  (`research_ui.py`, which puts tables into text), broker adapters, cache, storage
  and alerts are I/O and presentation; a route that changes state is modelled with
  the component it changes.
- The reconciliation of several brokers is one comparison of two maps.
- The order state machine beyond submit and fill; risk hooks other than accepted
  or rejected; slippage attribution; the lists of orders and fills; the wording of
  reasons; hashing. None decides anything in the modelled paths.
- The daemon's optional breaker, because `main()` never passes one.
- Two breakers built by two first requests at once (`apps/api/routes/circuit_breaker.py:18`):
  the one that loses keeps its halts to itself. The module has one engine.

`PROJECT.json` lists the hazards of the code, line by line, with the properties
that cover each, and a note where none does.

## 7. Plan

1. Done: breaker, gateway, paper engine, daemon; experiments, simulation, replay;
   decisions, research bot, strategies; rebalancing; credentials; splits and option
   strategies; theorems about the breaker, the gateway, the paper engine, the daemon,
   experiments, decisions, credentials, splits and option strategies, and the strategy
   of a day.
2. Done: theorems about the replay, the simulation and the rebalancing, on which rest
   all invariants that runs check but the two of section 5.
3. Composition: the daemon over the session engine as its abstract database, with
   the session's row as the refinement map.
