----------------------------- MODULE PaperDaemon -----------------------------
(***************************************************************************)
(* The live paper daemon: DaemonController and its main loop                *)
(* (run_live_paper_daemon.py), the AutonomousSentinel it drives             *)
(* (services/paper-engine/autonomous_orchestrator.py), and the database     *)
(* both come back from after a crash.                                       *)
(*                                                                          *)
(* The daemon is one thread.  What makes it hard is that a cycle commits to *)
(* the database several times, and the process may die between two commits, *)
(* or at any other point; that four flags (the halt, the killswitch, the    *)
(* discrepancy, the unresolved square-off) and the session's status each    *)
(* stop trading, each with ways of its own to be cleared; and that the day  *)
(* turns under all of them.  main() gives the controller no circuit breaker. *)
(***************************************************************************)
EXTENDS Integers, FiniteSets

CONSTANTS
    Symbols,
    Equities,           \* equities that marking the positions may yield
    InitialEquity,      \* buying_power
    KillswitchPermille, \* max_daily_drawdown_pct * 1000
    MaxDays             \* bound on the days of a behaviour

ASSUME DaemonAssumption ==
    /\ Equities \subseteq Nat \ {0}
    /\ InitialEquity \in Equities
    /\ KillswitchPermille \in Nat \ {0}
    /\ MaxDays \in Nat

VARIABLES
    day, slot,      \* the clock
    pc,             \* where the loop stands; "down" when there is no process
    todo,           \* symbols the running step of the cycle has still to visit
    jobDone,        \* the scheduled job of this slot has been done
    ran,            \* history: this process has run a cycle past its mark in this slot
    current,        \* current_equity of the running cycle, 0 between cycles
    errors,         \* square_off_open_positions has met an error
    session,        \* the session in memory: status, positions, equity
    halt, reason,   \* _is_emergency_halted, _emergency_halt_reason
    unresolved,     \* has_unresolved_square_off
    kill, disc,     \* the sentinel's is_killswitch_tripped, is_discrepancy_halted
    today, dayStart, \* current_session_date, day_start_equity
    processed,      \* processed_decision_ids
    row,            \* paper_sessions: {} or {the session as last committed}
    store,          \* sentinel_state and system_state
    manual,         \* history: an operator's halt that neither a re-arm has lifted nor a forced halt overwritten
    cut,            \* history: a crash left today's decision filled and not recorded
    bought          \* history: the symbols today's decision has bought

clockVars == <<day, slot>>
haltVars == <<halt, reason>>
sentinelVars == <<kill, disc>>
dateVars == <<today, dayStart>>
memVars == <<session, haltVars, unresolved, sentinelVars, dateVars, processed>>
dbVars == <<row, store>>
historyVars == <<manual, cut, bought>>
cycleVars == <<current, errors>>
loopVars == <<pc, todo, jobDone, ran, cycleVars>>
vars == <<clockVars, loopVars, memVars, dbVars, historyVars>>

\* Before 09:15; 09:15 to 15:15; 15:15 to 15:30; after 15:30.
Slots == {"morning", "regular", "cutoff", "closed"}
MarketOpen == slot \in {"regular", "cutoff"}
PastCutoff == slot \in {"cutoff", "closed"}

Days == 1..MaxDays
Session == [status : {"RUNNING", "PAUSED", "EMERGENCY_HALT"},
            held : SUBSET Symbols, quarantined : SUBSET Symbols, equity : Equities]
NewSession(s) == [status |-> s, held |-> {}, quarantined |-> {}, equity |-> InitialEquity]

Up == pc # "down"
Asleep == pc = "sleep"

\* is_halted, without a circuit breaker
IsHalted == halt \/ session.status \in {"PAUSED", "EMERGENCY_HALT"}

\* check_daily_drawdown_killswitch
LossBreach(d, e) == (d - e) * 1000 >= KillswitchPermille * d

Commit(s) == session' = s /\ row' = {s}
Goto(p) == pc' = p /\ UNCHANGED <<todo, jobDone, ran, cycleVars>>
Visit(p, ss) == pc' = p /\ todo' = ss /\ UNCHANGED <<jobDone, ran, current>>
Rest == pc' = "sleep" /\ todo' = {} /\ current' = 0 /\ errors' = FALSE /\ UNCHANGED jobDone
Sleep == Rest /\ ran' = TRUE

-----------------------------------------------------------------------------
(***************************************************************************)
(* Start, crash and the clock.                                              *)
(***************************************************************************)

\* The process has no memory.
Forget ==
    /\ pc' = "down" /\ todo' = {} /\ jobDone' = FALSE /\ ran' = FALSE
    /\ current' = 0 /\ errors' = FALSE
    /\ session' = NewSession("PAUSED")
    /\ halt' = FALSE /\ reason' = "" /\ unresolved' = FALSE
    /\ kill' = FALSE /\ disc' = FALSE
    /\ today' = 0 /\ dayStart' = InitialEquity
    /\ processed' = {}

\* Also what an exception does: main() catches none.
Crash ==
    /\ Up
    /\ Forget
    /\ cut' = (cut \/ pc = "record")
    /\ UNCHANGED <<clockVars, dbVars, manual, bought>>

\* DaemonController(...) and initialize_session: a session found running while
\* the market is closed is paused, a halt is restored from the session's status
\* or from sentinel_state, and the day's baseline if it is of the same day.
StartedSession ==
    IF row = {} THEN NewSession(IF MarketOpen THEN "RUNNING" ELSE "PAUSED")
    ELSE LET s == CHOOSE s \in row : TRUE
         IN  IF ~MarketOpen /\ s.status = "RUNNING" THEN [s EXCEPT !.status = "PAUSED"] ELSE s

\* Mutant: each start is a new day.
BaselineOfStart(s) == s.equity

RestoredBaseline(s) == IF store.date = day THEN store.dayStart ELSE s.equity

\* Mutant: an unresolved square-off is not restored.
RestoreDecisions ==
    /\ unresolved' = FALSE
    /\ processed' = store.processed
    /\ disc' = store.discrepancy /\ kill' = store.discrepancy

RestoreFlags ==
    /\ unresolved' = store.unresolved
    /\ processed' = store.processed
    /\ disc' = store.discrepancy /\ kill' = store.discrepancy

Start ==
    /\ pc = "down"
    /\ LET s == StartedSession
           base == RestoredBaseline(s)
       IN  /\ Commit(s)
           /\ dayStart' = base
           /\ store' = [store EXCEPT !.date = day, !.dayStart = base]
           /\ halt' = (store.halt \/ s.status = "EMERGENCY_HALT")
           /\ reason' = IF store.halt THEN store.reason
                        ELSE IF s.status = "EMERGENCY_HALT" THEN "status" ELSE ""
    /\ today' = day
    /\ RestoreFlags
    /\ Goto("sleep")
    /\ UNCHANGED <<clockVars, historyVars>>

\* A slot is hours or minutes long and a cycle seconds, and a cycle reads the
\* clock once: the clock moves between cycles.
Tick ==
    /\ pc \in {"sleep", "down"}
    /\ \/ slot = "morning" /\ slot' = "regular" /\ UNCHANGED <<day, cut, bought>>
       \/ slot = "regular" /\ slot' = "cutoff" /\ UNCHANGED <<day, cut, bought>>
       \/ slot = "cutoff" /\ slot' = "closed" /\ UNCHANGED <<day, cut, bought>>
       \/ /\ slot = "closed" /\ slot' = "morning" /\ day < MaxDays /\ day' = day + 1
          /\ cut' = FALSE /\ bought' = {}
    /\ jobDone' = FALSE /\ ran' = FALSE
    /\ UNCHANGED <<pc, todo, cycleVars, memVars, dbVars, manual>>

-----------------------------------------------------------------------------
(***************************************************************************)
(* The sentinel's scheduled jobs and the operator.                          *)
(***************************************************************************)

\* execute_pre_market_maintenance
PreMarket ==
    /\ Asleep /\ slot = "morning" /\ ~jobDone
    /\ kill' = disc
    /\ jobDone' = TRUE
    /\ UNCHANGED <<clockVars, pc, todo, ran, cycleVars, session, haltVars, unresolved, disc,
                   dateVars, processed, dbVars, historyVars>>

\* execute_eod_reconciliation_and_tearsheet: does the audit balance?  The row
\* of a discrepancy is written if the database lets it.
EndOfDayAudit ==
    /\ Asleep /\ slot = "closed" /\ ~jobDone
    /\ jobDone' = TRUE
    /\ \/ UNCHANGED <<sentinelVars, store>>
       \/ /\ disc' = TRUE /\ kill' = TRUE
          /\ store' = [store EXCEPT !.discrepancy = TRUE]
       \/ disc' = TRUE /\ kill' = TRUE /\ UNCHANGED store
    /\ UNCHANGED <<clockVars, pc, todo, ran, cycleVars, session, haltVars, unresolved,
                   dateVars, processed, row, historyVars>>

\* resolve_discrepancy with its token; the row goes if the database lets it.
ResolveDiscrepancy ==
    /\ Asleep
    /\ disc' = FALSE /\ kill' = FALSE
    /\ store' \in {[store EXCEPT !.discrepancy = FALSE], store}
    /\ UNCHANGED <<clockVars, loopVars, session, haltVars, unresolved, dateVars,
                   processed, row, historyVars>>

\* Mutant: the halt is kept in memory only.
TriggerHaltInMemory(r) == halt' = TRUE /\ reason' = r /\ UNCHANGED store

\* trigger_emergency_halt; the reason of an earlier halt is overwritten.
TriggerHalt(r) ==
    /\ halt' = TRUE /\ reason' = r
    /\ store' = [store EXCEPT !.halt = TRUE, !.reason = r]

OperatorHalt ==
    /\ Asleep
    /\ TriggerHalt("manual")
    /\ manual' = TRUE
    /\ UNCHANGED <<clockVars, loopVars, session, unresolved, sentinelVars, dateVars,
                   processed, row, cut, bought>>

\* admin_rearm: refused by _check_daemon_ledger while a square-off is unresolved
\* or a position quarantined.
AdminRearm ==
    /\ Asleep
    /\ ~unresolved /\ session.held \cap session.quarantined = {}
    /\ halt' = FALSE /\ reason' = "" /\ kill' = FALSE
    /\ IF session.status = "EMERGENCY_HALT"
       THEN Commit([session EXCEPT !.status = "RUNNING"])
       ELSE UNCHANGED <<session, row>>
    /\ manual' = FALSE
    /\ Goto("rearm")
    /\ UNCHANGED <<clockVars, unresolved, disc, dateVars, processed, store, cut, bought>>

\* Its second commit.
RecordRearm ==
    /\ pc = "rearm"
    /\ store' = [store EXCEPT !.halt = FALSE, !.reason = ""]
    /\ Goto("sleep")
    /\ UNCHANGED <<clockVars, memVars, row, historyVars>>

-----------------------------------------------------------------------------
(***************************************************************************)
(* run_cycle                                                                *)
(***************************************************************************)

CutoffPending == unresolved \/ (PastCutoff /\ session.held # {})

\* The first cycle of a day sets the baseline and lifts the killswitch, unless
\* the daemon is halted.
OnSessionCheck ==
    IF today = day THEN UNCHANGED <<dateVars, kill, dbVars>>
    ELSE /\ today' = day /\ dayStart' = session.equity
         /\ kill' = (kill /\ IsHalted)
         /\ row' = {session}
         /\ store' = [store EXCEPT !.date = day, !.dayStart = session.equity]

\* The loop runs a cycle while the market is open and the network is up, or a
\* cutoff is pending.
RunCycle ==
    /\ Asleep
    /\ MarketOpen \/ CutoffPending
    /\ OnSessionCheck
    /\ Goto("mark")
    /\ UNCHANGED <<clockVars, session, haltVars, unresolved, disc, processed, historyVars>>

\* Steps 1 to 4: mark the positions, save the high-water mark, evaluate the
\* killswitch.  When the save fails the killswitch trips and the cycle ends.
Mark ==
    /\ pc = "mark"
    /\ \E e \in IF session.held = {} THEN {session.equity} ELSE Equities :
          /\ session' = [session EXCEPT !.equity = e]
          /\ \/ /\ kill' = (kill \/ LossBreach(dayStart, e))
                /\ current' = e /\ pc' = "route"
                /\ UNCHANGED <<todo, jobDone, ran, errors>>
             \/ kill' = TRUE /\ Rest /\ UNCHANGED ran
    /\ UNCHANGED <<clockVars, haltVars, unresolved, disc, dateVars, processed,
                   dbVars, historyVars>>

\* The square-off comes before the halt and before everything else; a halt
\* still lets the protective exits run.
Route ==
    /\ pc = "route"
    /\ IF (PastCutoff \/ unresolved) /\ session.held # {}
       THEN Visit("squareoff", session.held) /\ UNCHANGED <<errors, unresolved, store>>
       ELSE /\ unresolved' = FALSE
            /\ store' = IF unresolved THEN [store EXCEPT !.unresolved = FALSE] ELSE store
            /\ IF IsHalted \/ slot = "regular" THEN Goto("exits") ELSE Sleep
    /\ UNCHANGED <<clockVars, session, haltVars, sentinelVars, dateVars, processed,
                   row, historyVars>>

\* The sessions that a sale of s may leave: the price of the fill, and with it
\* the equity, need not be that of the mark.
Sold(s) ==
    {[session EXCEPT !.held = @ \ {s}, !.quarantined = @ \ {s}, !.equity = e] : e \in Equities}

\* One symbol of square_off_open_positions: no valid quote, an order the session
\* rejects because the market is closed (which commits it), a fill, or a fill
\* whose commit fails, which the caller sees as a failed order.
SquareOff(s) ==
    /\ pc = "squareoff" /\ s \in todo
    /\ Visit("squareoff", todo \ {s})
    /\ \/ errors' = TRUE /\ UNCHANGED <<session, row>>
       \/ ~MarketOpen /\ errors' = TRUE /\ Commit(session)
       \/ /\ MarketOpen
          /\ \E n \in Sold(s) :
                \/ Commit(n) /\ UNCHANGED errors
                \/ session' = n /\ errors' = TRUE /\ UNCHANGED row
    /\ UNCHANGED <<clockVars, haltVars, unresolved, sentinelVars, dateVars, processed,
                   store, historyVars>>

\* Mutant: the unresolved square-off is kept in memory only.
FlagInMemory ==
    /\ pc = "squareoff" /\ todo = {} /\ (errors \/ session.held # {})
    /\ unresolved' = TRUE
    /\ Goto("forcedhalt")
    /\ UNCHANGED <<clockVars, session, haltVars, sentinelVars, dateVars, processed,
                   dbVars, historyVars>>

\* The three commits that follow an error or a position that is left ...
FlagUnresolved ==
    /\ pc = "squareoff" /\ todo = {} /\ (errors \/ session.held # {})
    /\ unresolved' = TRUE
    /\ store' = [store EXCEPT !.unresolved = TRUE]
    /\ Goto("forcedhalt")
    /\ UNCHANGED <<clockVars, session, haltVars, sentinelVars, dateVars, processed,
                   row, historyVars>>

ForcedHalt ==
    /\ pc = "forcedhalt"
    /\ session' = [session EXCEPT !.quarantined = session.held]
    /\ TriggerHalt("forced")
    /\ manual' = FALSE
    /\ Goto("haltsession")
    /\ UNCHANGED <<clockVars, unresolved, sentinelVars, dateVars, processed, row,
                   cut, bought>>

HaltSession ==
    /\ pc = "haltsession"
    /\ Commit([session EXCEPT !.status = "EMERGENCY_HALT"])
    /\ Sleep
    /\ UNCHANGED <<clockVars, haltVars, unresolved, sentinelVars, dateVars, processed,
                   store, historyVars>>

\* ... and otherwise a halt that an earlier failure caused is lifted.
FlagResolved ==
    /\ pc = "squareoff" /\ todo = {} /\ ~errors /\ session.held = {}
    /\ unresolved' = FALSE
    /\ store' = [store EXCEPT !.unresolved = FALSE]
    /\ IF halt /\ reason = "forced" THEN Goto("lifthalt") ELSE Sleep
    /\ UNCHANGED <<clockVars, session, haltVars, sentinelVars, dateVars, processed,
                   row, historyVars>>

LiftHalt ==
    /\ pc = "lifthalt"
    /\ halt' = FALSE /\ reason' = ""
    /\ store' = [store EXCEPT !.halt = FALSE, !.reason = ""]
    /\ IF session.status = "EMERGENCY_HALT" THEN Goto("resume") ELSE Sleep
    /\ UNCHANGED <<clockVars, session, unresolved, sentinelVars, dateVars, processed,
                   row, historyVars>>

ResumeSession ==
    /\ pc = "resume"
    /\ Commit([session EXCEPT !.status = "RUNNING"])
    /\ Sleep
    /\ UNCHANGED <<clockVars, haltVars, unresolved, sentinelVars, dateVars, processed,
                   store, historyVars>>

\* A stop loss or a target is hit; the order fills, which it may only while the
\* market is open, or is rejected and recorded.
Exit(s) ==
    /\ pc = "exits" /\ s \in session.held
    /\ \/ MarketOpen /\ \E n \in Sold(s) : Commit(n)
       \/ Commit(session)
    /\ UNCHANGED <<clockVars, loopVars, haltVars, unresolved, sentinelVars, dateVars,
                   processed, store, historyVars>>

\* Steps 6 and 7: a valid manifest of today that was not executed yet, no
\* killswitch, no halt.  There is one decision a day.
ExitsDone ==
    /\ pc = "exits"
    /\ \/ /\ ~IsHalted /\ ~kill /\ today \notin processed
          /\ Visit("buy", Symbols) /\ UNCHANGED errors
       \/ Sleep
    /\ UNCHANGED <<clockVars, memVars, dbVars, historyVars>>

\* The sessions that a buy of s may leave: it has costs, and what is added to a
\* position is valued at the position's last mark.
Bought(s) == {[session EXCEPT !.held = @ \cup {s}, !.equity = e] : e \in Equities}

\* A buy the risk engine approved: the fill is committed with the session, the
\* decision is recorded after it.
Buy(s) ==
    /\ pc = "buy" /\ s \in todo
    /\ session.status = "RUNNING" /\ s \notin session.quarantined
    /\ \E n \in Bought(s) : Commit(n)
    /\ bought' = bought \cup {s}
    /\ Visit("record", todo \ {s}) /\ UNCHANGED errors
    /\ UNCHANGED <<clockVars, haltVars, unresolved, sentinelVars, dateVars, processed,
                   store, manual, cut>>

\* Mutant: the decision is recorded in memory only.
RecordDecisionInMemory ==
    /\ pc = "record"
    /\ processed' = processed \cup {today}
    /\ Goto("buy")
    /\ UNCHANGED <<clockVars, session, haltVars, unresolved, sentinelVars, dateVars,
                   dbVars, historyVars>>

RecordDecision ==
    /\ pc = "record"
    /\ processed' = processed \cup {today}
    /\ store' = [store EXCEPT !.processed = @ \cup {today}]
    /\ Goto("buy")
    /\ UNCHANGED <<clockVars, session, haltVars, unresolved, sentinelVars, dateVars,
                   row, historyVars>>

\* No further signal, or orders that the session rejects and records.
BuysDone ==
    /\ pc = "buy"
    /\ row' \in {row, {session}}
    /\ Sleep
    /\ UNCHANGED <<clockVars, memVars, store, historyVars>>

-----------------------------------------------------------------------------
Init ==
    /\ day = 1 /\ slot = "morning"
    /\ pc = "down" /\ todo = {} /\ jobDone = FALSE /\ ran = FALSE
    /\ current = 0 /\ errors = FALSE
    /\ session = NewSession("PAUSED")
    /\ halt = FALSE /\ reason = "" /\ unresolved = FALSE
    /\ kill = FALSE /\ disc = FALSE
    /\ today = 0 /\ dayStart = InitialEquity
    /\ processed = {}
    /\ row = {}
    /\ store = [date |-> 0, dayStart |-> InitialEquity, halt |-> FALSE, reason |-> "",
                unresolved |-> FALSE, processed |-> {}, discrepancy |-> FALSE]
    /\ manual = FALSE /\ cut = FALSE
    /\ bought = {}

Operator == OperatorHalt \/ AdminRearm \/ RecordRearm \/ ResolveDiscrepancy
Scheduled == PreMarket \/ EndOfDayAudit
SquaringOff ==
    \/ \E s \in Symbols : SquareOff(s)
    \/ FlagUnresolved \/ ForcedHalt \/ HaltSession
    \/ FlagResolved \/ LiftHalt \/ ResumeSession
Trading ==
    \/ \E s \in Symbols : Exit(s) \/ Buy(s)
    \/ ExitsDone \/ RecordDecision \/ BuysDone
Cycle == RunCycle \/ Mark \/ Route \/ SquaringOff \/ Trading

Next == Tick \/ Start \/ Crash \/ Operator \/ Scheduled \/ Cycle

Spec == Init /\ [][Next]_vars

-----------------------------------------------------------------------------
\* The step that fills a buy.
Buying == pc = "buy" /\ pc' = "record"

\* After a cycle past 15:15 no position is left that is not flagged, in memory
\* and on the disk, as an unresolved square-off.
CutoffHandled ==
    Asleep /\ PastCutoff /\ ran /\ session.held # {} => unresolved /\ store.unresolved

\* A restart does not forgive the day's loss: the daemon that comes back on the
\* same day measures it from where the one that died did.
BaselineSurvivesRestart ==
    [][store.date # 0 /\ store'.date = store.date => store'.dayStart = store.dayStart]_vars

\* No buy while a square-off is known to be unresolved or what it left is held.
NoBuyWhileUnresolved ==
    [][Buying => ~unresolved /\ ~store.unresolved /\ session.quarantined = {}]_vars

\* An operator's halt holds over cycles, restarts at any point, scheduled jobs
\* and the turn of the day ("Emergency halts persist across daily rollover until
\* explicit admin rearm!", run_live_paper_daemon.py:829): only a re-arm lifts it.
\* A square-off that fails later overwrites its reason (:503), and the retry
\* that succeeds then lifts the halt (:715): the promise ends there.
OperatorHaltHolds == Up /\ manual => halt

\* A decision is executed once in each symbol, over cycles and restarts, unless
\* the process died between the commit of its fill and that of its record
\* (:1145): such a decision is followed again.
DecisionOnce == [][Buying /\ ~cut => (todo \ todo') \cap bought = {}]_vars

=============================================================================
