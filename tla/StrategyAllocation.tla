------------------------- MODULE StrategyAllocation -------------------------
(***************************************************************************)
(* The allocation chain: the research bot decides a strategy and writes a   *)
(* manifest; the sentinel reads the latest manifest and the daemon's cycle  *)
(* validates it again and dispatches the scanned symbols to the strategy.   *)
(* The bot is started by hand or by the sentinel, at any hour and in a      *)
(* process of its own each time, and the daemon runs in another, so they    *)
(* interleave at every step and a run may take any time.  Days are numbered *)
(* from a Monday.                                                           *)
(***************************************************************************)
EXTENDS ResearchBot, StrategyDispatch

CONSTANTS
    Bots,         \* processes a research cycle may run in
    Histories,    \* the sequences of hourly bars a download may return
    DsrValues,    \* deflated Sharpe ratios a candidate may have, in permille
    Benchmarks,   \* states of the benchmark: [status, vol, ret]
    Markets,      \* facts a scanned symbol may show
    Handwritten,  \* manifests an operator may leave for the day: [strategy, params, rm, aware]
    Holidays,     \* days the exchange is closed besides the weekends
    FirstDay, LastDay, \* bound: the days explored
    MaxRuns,      \* bound: decisions written
    None, Corrupt, \* no value; a file with parts of manifests
    Manual        \* the id of a manifest left by an operator

\* Three instants of a day stand for its parts: 02:00, 10:00 and 18:00 IST.
SlotsPerDay == 3
Early == 0
Trading == 1
Closed == 2

\* The parameters a decision of the bot carries.
DefaultParams == [stop_loss_atr |-> 15, target_atr |-> 30]

\* What the bot finds of a candidate.
Names == {Candidates[i].name : i \in DOMAIN Candidates}
Evaluations == [strategy : Names, trades : Seq(Int), robust : BOOLEAN, score : Int]

Manifests ==
    [id : Nat \cup {Manual}, date : Int, at : Int, aware : BOOLEAN, target : Int,
     strategy : Names \cup {"WAIT"} \cup {h.strategy : h \in Handwritten},
     params : {DefaultParams} \cup {h.params : h \in Handwritten}, rm : Int]

ASSUME AllocationAssumption ==
    /\ FirstDay \in Nat /\ LastDay \in Nat /\ FirstDay <= LastDay
    /\ MaxRuns \in Nat /\ DsrValues \subseteq Int
    /\ Histories \subseteq Seq([close : Nat \ {0}, marks : SUBSET STRING])

ASSUME ManifestAssumption ==
    /\ \A h \in Handwritten : h.rm \in Int /\ h.aware \in BOOLEAN
    /\ Manual \notin Nat /\ None # Corrupt
    /\ None \notin Manifests \cup Evaluations /\ Corrupt \notin Manifests

VARIABLES
    now,        \* instant, in slots of 8 hours
    bot,        \* the research cycles: [Bots -> [pc, regime, results, manifest]]
    files,      \* data/decisions: [UTC day -> manifest, Emptied, Corrupt or None]
    table,      \* research_strategy_decisions: [UTC day -> id of the decision or None]
    runs,       \* bound: decisions made; numbers the decision ids
    processed,  \* decision ids the daemon has executed, in sentinel_state
    bought,     \* history: the orders filled in the current day
    made,       \* history: the decisions the bots made: [id -> evaluation of the chosen]
    late        \* history: the decisions written when their session was open

vars == <<now, bot, files, table, runs, processed, bought, made, late>>

Day(instant) == instant \div SlotsPerDay
Slot(instant) == instant % SlotsPerDay

\* The date in UTC, which is behind until 05:30 IST.
UtcDay(instant) == IF Slot(instant) = Early THEN Day(instant) - 1 ELSE Day(instant)

\* The first instant at which the daemon trades the session of a day.
Opening(session) == session * SlotsPerDay + Trading

IsTradingDay(d) == d % 7 \notin {5, 6} /\ d \notin Holidays

Days == (FirstDay - 1)..LastDay

\* A file that was opened for a decision and holds nothing yet.
Emptied(id) == [openedFor |-> id]

Idle == [pc |-> "idle", regime |-> None, results |-> <<>>, manifest |-> None]

Init ==
    /\ now = FirstDay * SlotsPerDay + Closed
    /\ bot = [b \in Bots |-> Idle]
    /\ files = [d \in Days |-> None] /\ table = [d \in Days |-> None]
    /\ runs = 0 /\ processed = {} /\ bought = {} /\ made = <<>> /\ late = {}

-----------------------------------------------------------------------------
(* A research cycle, one in each process of Bots.                          *)

\* run_eod_research_cycle, first step: the day is audited and the regime classified.
AnalyzeEod(b) ==
    /\ bot[b].pc = "idle" /\ runs < MaxRuns
    /\ \E bm \in Benchmarks :
        bot' = [bot EXCEPT ![b] = [Idle EXCEPT !.pc = "backtest", !.regime = Regime(bm)]]
    /\ UNCHANGED <<now, files, table, runs, processed, bought, made, late>>

\* backtest_candidate_strategies: nothing is evaluated when no download succeeds.
Backtest(b) ==
    /\ bot[b].pc = "backtest"
    /\ \/ bot' = [bot EXCEPT ![b].pc = "decide"]
       \/ \E bars \in Histories, dsr \in DsrValues :
            bot' = [bot EXCEPT ![b].pc = "decide",
                               ![b].results = [i \in DOMAIN Candidates |->
                                   Evaluate(Candidates[i], Simulate(Candidates[i], bars), dsr)]]
    /\ UNCHANGED <<now, files, table, runs, processed, bought, made, late>>

\* Mutant: the target session is the date of the decision itself.
TargetSameDay(instant) == UtcDay(instant)

\* The session a decision is for: the calendar day after its date in UTC.
TargetSession(instant) == UtcDay(instant) + 1

\* make_strategy_allocation_decision, first part: the strategy is chosen, and the
\* decision gets its number, its date and its time.
Decide(b) ==
    /\ bot[b].pc = "decide" /\ runs < MaxRuns
    /\ runs' = runs + 1
    /\ LET results == bot[b].results
           choice == Choice(results)
       IN /\ bot' = [bot EXCEPT ![b] = [Idle EXCEPT !.pc = "select",
                !.manifest = [id |-> runs + 1, date |-> UtcDay(now), at |-> now, aware |-> TRUE,
                              target |-> TargetSession(now), strategy |-> choice,
                              params |-> DefaultParams,
                              rm |-> IF choice = "WAIT" THEN 0 ELSE 10]]]
          /\ made' = Append(made, IF results = <<>> THEN None ELSE Top(results))
    /\ UNCHANGED <<now, files, table, processed, bought, late>>

\* The stock selection over the network is done, or has failed, after whatever
\* time; the file of the decision's date is opened for writing, which empties it.
OpenManifest(b) ==
    /\ bot[b].pc = "select"
    /\ files' = [files EXCEPT ![bot[b].manifest.date] = Emptied(bot[b].manifest.id)]
    /\ bot' = [bot EXCEPT ![b].pc = "write"]
    /\ UNCHANGED <<now, table, runs, processed, bought, made, late>>

\* The manifest is written.  When another has opened or written the file in the
\* meantime, the two may leave parts of both.
WriteManifest(b) ==
    /\ bot[b].pc = "write"
    /\ LET m == bot[b].manifest
       IN /\ \E content \in IF files[m.date] = Emptied(m.id) THEN {m} ELSE {m, Corrupt} :
                files' = [files EXCEPT ![m.date] = content]
          /\ late' = IF now >= Opening(m.target) THEN late \cup {m.id} ELSE late
    /\ bot' = [bot EXCEPT ![b].pc = "persist"]
    /\ UNCHANGED <<now, table, runs, processed, bought, made>>

\* _persist_to_database, whose failure is only logged.
PersistDecision(b) ==
    /\ bot[b].pc = "persist"
    /\ table' \in {[table EXCEPT ![bot[b].manifest.date] = bot[b].manifest.id], table}
    /\ bot' = [bot EXCEPT ![b] = Idle]
    /\ UNCHANGED <<now, files, runs, processed, bought, made, late>>

\* A process ends at any point, which may leave a part of what it was writing.
BotDies(b) ==
    /\ bot[b].pc # "idle"
    /\ \/ UNCHANGED files
       \/ bot[b].pc = "write" /\ files' = [files EXCEPT ![bot[b].manifest.date] = Corrupt]
    /\ bot' = [bot EXCEPT ![b] = Idle]
    /\ UNCHANGED <<now, table, runs, processed, bought, made, late>>

\* An operator leaves a manifest for today's session in the file of yesterday.
LeaveManifest ==
    /\ \E h \in Handwritten :
        files' = [files EXCEPT ![Day(now) - 1] =
            [id |-> Manual, date |-> Day(now) - 1, at |-> now - SlotsPerDay, aware |-> h.aware,
             target |-> Day(now), strategy |-> h.strategy, params |-> h.params, rm |-> h.rm]]
    /\ UNCHANGED <<now, bot, table, runs, processed, bought, made, late>>

-----------------------------------------------------------------------------
(* The sentinel and the daemon.                                            *)

\* The checks get_latest_strategy_decision and validate_manifest both make.
\* A decision of exactly 24 hours is not stale.
Admissible(m, session) ==
    /\ IsRegistered(m.strategy)
    /\ ValidParameters(m.params)
    /\ m.rm > 0 /\ m.rm <= 50
    /\ m.target = session
    /\ m.aware
    /\ m.at <= now /\ now - m.at <= SlotsPerDay

\* The last manifest in the order of the file names.
LatestFile ==
    LET written == {d \in Days : files[d] # None}
    IN IF written = {} THEN None ELSE files[Max(written)]

\* get_latest_strategy_decision: WAIT for a file that is missing, holds no whole
\* manifest or is refused.
LatestDecision(session) ==
    IF LatestFile \notin Manifests THEN None
    ELSE IF LatestFile.strategy # "WAIT" /\ Admissible(LatestFile, session) THEN LatestFile
    ELSE None

\* The orders of a cycle: the decisions of the strategy on what was scanned.
Proposals(m, scanned) ==
    {[id |-> m.id, strategy |-> m.strategy, params |-> m.params, market |-> f,
      made |-> m.at, target |-> m.target,
      order |-> Dispatch(m.strategy, Scan(f), m.params)] : f \in scanned}

\* Steps 6 and 7 of run_cycle: sizing, the risk engine and the paper engine fill
\* some of the orders.  A decision is executed once any of them is filled.
Cycle ==
    /\ Slot(now) = Trading /\ IsTradingDay(Day(now))
    /\ \E scanned \in SUBSET Markets :
        LET m == LatestDecision(Day(now))
        IN /\ m # None /\ m.id \notin processed
           /\ \E filled \in SUBSET {p \in Proposals(m, scanned) : p.order.signal = "BUY"} :
                /\ filled # {}
                /\ bought' = bought \cup filled
                /\ processed' = processed \cup {m.id}
    /\ UNCHANGED <<now, bot, files, table, runs, made, late>>

\* Time passes, also while a bot runs.
Tick ==
    /\ Day(now + 1) <= LastDay
    /\ now' = now + 1
    /\ bought' = IF Day(now + 1) = Day(now) THEN bought ELSE {}
    /\ UNCHANGED <<bot, files, table, runs, processed, made, late>>

Next ==
    \/ \E b \in Bots :
          \/ AnalyzeEod(b) \/ Backtest(b) \/ Decide(b)
          \/ OpenManifest(b) \/ WriteManifest(b) \/ PersistDecision(b) \/ BotDies(b)
    \/ LeaveManifest
    \/ Cycle \/ Tick

Spec == Init /\ [][Next]_vars

-----------------------------------------------------------------------------
(* Properties.                                                             *)

\* The orders of today that stem from a decision of a bot.
ByBot == {o \in bought : o.id # Manual}

\* Whatever runs of the bot, deaths of its process and writes of the operator
\* come between, an order the bot caused was made under the strategy its cycle
\* found robust, for today, by a decision the bot made before and at most a day
\* ago ("never force a trade": decision_bot.py).
BuysAreWarranted ==
    \A o \in ByBot :
        /\ made[o.id] # None /\ made[o.id].robust /\ made[o.id].strategy = o.strategy
        /\ o.target = Day(now) /\ o.made <= now

\* Whatever number of runs overlap, and however long each of them takes between
\* its decision and its file (decision_bot.py:328-396), the decision a session is
\* traded under was made before the session opened, and at most one of those it is
\* traded under was in its file by then: a run that decides during a session is
\* for the next one, and only one whose stock selection lasts into the session
\* can bring it a second decision.
OneDecisionByOpening ==
    /\ \A o \in ByBot : o.made < Opening(o.target)
    /\ \A o, p \in ByBot : o.id # p.id => o.id \in late \/ p.id \in late

\* No strategy is allocated whose closed trades ever lost more than 12 percent over
\* any stretch of them, the stretch from the very first trade included.  (1
\* permille is left to rounding.)
DrawdownGate ==
    \A id \in DOMAIN made :
        made[id] # None /\ made[id].robust =>
            \A i, j \in DOMAIN made[id].trades :
                i <= j => FoldLeft(LAMBDA acc, x : (acc * (1000 + x)) \div 1000, 1000000,
                                   SubSeq(made[id].trades, i, j)) >= 879000

\* registry.py: "Unknown strategy yields WAIT; no generic scanner fallback."  An order is
\* made on the entry condition of the strategy it is booked to.
BuyOnOwnEvidence == \A o \in bought : Setup(Registered[o.strategy], o.market)

=============================================================================
