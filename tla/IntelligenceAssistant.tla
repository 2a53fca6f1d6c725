------------------------- MODULE IntelligenceAssistant -------------------------
(***************************************************************************)
(* The assistant of services/market-intelligence/assistant_engine.py: a    *)
(* daemon that harvests three tiers of data on intervals of their own, and *)
(* marks a tier in the database when it has been through it.  Composed with *)
(* the decision engine and the research bot of QuantamentalGate: three      *)
(* programs that share the collectors and write tables of their own.        *)
(***************************************************************************)
EXTENDS QuantamentalGate

CONSTANTS
    Interval,     \* [Tiers -> Nat]: news, macro and fundamentals intervals, in ticks
    MaxTime,      \* bound: ticks
    MaxFaults     \* bound: crashes, and writes that fail

Tiers == <<"NEWS_STREAM", "MACRO_WATCH", "FUNDAMENTALS_DEEP">>
TierNames == {"NEWS_STREAM", "MACRO_WATCH", "FUNDAMENTALS_DEEP"}

ASSUME IntervalAssumption == Interval \in [TierNames -> Nat \ {0}] /\ MaxTime \in Nat

VARIABLES
    program,    \* which program runs: "decisions", "research" or "assistant"
    now,        \* the clock
    marked,     \* [TierNames -> time or -1]: collection_schedule_state
    harvest,    \* [TierNames -> [Symbols -> time or -1]]: when its rows were written
    latest,     \* time of latest_manifest.json, or -1
    faults,     \* bound: crashes and failing writes so far
    cycle,      \* the daemon: pc, tier, the symbols left, the cycle's own time
    failed      \* history: [TierNames -> [Symbols -> time or -1]]: its last pass that failed for a symbol

assistantVars == <<now, marked, harvest, latest, faults, cycle, failed>>
vars == <<feedVars, gateVars, program, assistantVars>>

Asleep == [pc |-> "asleep", tier |-> 1, rest |-> <<>>, time |-> 0]

Init ==
    /\ FeedsInit /\ GateInit
    /\ program \in {"decisions", "research", "assistant"}
    \* the bot's own engine is built with the defaults
    /\ program = "research" => ~offline /\ fallback
    /\ now = 0
    /\ marked = [t \in TierNames |-> -1]
    /\ harvest = [t \in TierNames |-> [s \in Symbols |-> -1]]
    /\ latest = -1 /\ faults = 0
    /\ cycle = Asleep
    /\ failed = [t \in TierNames |-> [s \in Symbols |-> -1]]

Tier == Tiers[cycle.tier]

Fault == faults < MaxFaults /\ faults' = faults + 1

At(pc) == cycle.pc = pc

Tick ==
    /\ now < MaxTime
    /\ now' = now + 1
    /\ UNCHANGED <<marked, harvest, latest, faults, cycle, failed>>

\* run_scheduled_cycle begins: its time is read once.
Wake ==
    /\ At("asleep")
    /\ cycle' = [Asleep EXCEPT !.pc = "due", !.time = now]
    /\ UNCHANGED <<now, marked, harvest, latest, faults, failed>>

\* The next tier, or the sleep of 30 seconds.
NextTier ==
    IF cycle.tier = Len(Tiers) THEN Asleep ELSE [cycle EXCEPT !.pc = "due", !.tier = @ + 1]

\* _is_tier_due
Due == marked[Tier] = -1 \/ cycle.time - marked[Tier] >= Interval[Tier]

CheckDue ==
    /\ At("due")
    /\ cycle' = IF Due THEN [cycle EXCEPT !.pc = "collect", !.rest = Universe] ELSE NextTier
    /\ UNCHANGED <<now, marked, harvest, latest, faults, failed>>

\* Whether the collector of this tier answers for s: macro news always do,
\* from fixtures if need be, and so do the calendar and the consensus.
Collects(s) ==
    CASE Tier = "NEWS_STREAM" -> FetchNews(s) # None
      [] Tier = "FUNDAMENTALS_DEEP" -> FetchSnapshot(s) # None
      [] Tier = "MACRO_WATCH" -> TRUE

\* After the last symbol: the fundamentals tier evaluates the universe first.
Collected == IF Tier = "FUNDAMENTALS_DEEP" THEN "evaluate" ELSE "mark"

Stamped(times, some) ==
    [times EXCEPT ![Tier] = [s \in Symbols |-> IF s \in some THEN cycle.time ELSE times[Tier][s]]]

\* One symbol of the news or of the fundamentals tier: fetched and written,
\* or failed, which is only logged.  Macro news are written at once.
Collect ==
    /\ At("collect")
    /\ LET some == IF Tier = "MACRO_WATCH" THEN Symbols ELSE {Head(cycle.rest)}
           left == IF Tier = "MACRO_WATCH" THEN <<>> ELSE Tail(cycle.rest) IN
       \/ /\ \A s \in some : Collects(s)
          /\ harvest' = Stamped(harvest, some)
          /\ cycle' = [cycle EXCEPT !.rest = left, !.pc = IF left = <<>> THEN Collected ELSE @]
          /\ UNCHANGED <<failed, faults>>
       \/ /\ IF \A s \in some : Collects(s) THEN Fault ELSE UNCHANGED faults
          /\ failed' = Stamped(failed, some)
          /\ cycle' = IF Tier = "MACRO_WATCH" THEN NextTier
                      ELSE [cycle EXCEPT !.rest = left, !.pc = IF left = <<>> THEN Collected ELSE @]
          /\ UNCHANGED harvest
    /\ UNCHANGED <<now, marked, latest>>

\* evaluate_universe: each symbol the feeds answer for is evaluated, the others
\* are skipped, and the manifest of those left is exported (a failure to write
\* it is only logged).
EvaluateUniverse ==
    /\ At("evaluate")
    /\ latest' \in Logged(latest, cycle.time)
    /\ cycle' = [cycle EXCEPT !.pc = "mark"]
    /\ UNCHANGED <<now, marked, harvest, faults, failed>>

\* Mutant: a tier is marked with the time of its end.
MarkLate ==
    /\ At("mark")
    /\ marked' = [marked EXCEPT ![Tier] = now]
    /\ cycle' = NextTier
    /\ UNCHANGED <<now, harvest, latest, faults, failed>>

\* _update_tier_state, with the time the cycle began.
Mark ==
    /\ At("mark")
    /\ marked' = [marked EXCEPT ![Tier] = cycle.time]
    /\ cycle' = NextTier
    /\ UNCHANGED <<now, harvest, latest, faults, failed>>

\* The mark cannot be written.  For macro news that is logged; for the others
\* it ends the daemon, which an operator starts again.
MarkFails ==
    /\ At("mark")
    /\ Fault
    /\ cycle' = IF Tier = "MACRO_WATCH" THEN NextTier ELSE Asleep
    /\ UNCHANGED <<now, marked, harvest, latest, failed>>

\* The daemon dies and is started again on the same database.
DaemonCrash ==
    /\ ~At("asleep")
    /\ Fault
    /\ cycle' = Asleep
    /\ UNCHANGED <<now, marked, harvest, latest, failed>>

DaemonStep == Wake \/ CheckDue \/ Collect \/ EvaluateUniverse \/ Mark

Next ==
    \/ FeedsChange /\ UNCHANGED <<gateVars, program, assistantVars>>
    \/ /\ \/ program = "decisions" /\ (DecisionCalls \/ SharedCalls)
          \/ program = "research" /\ (ResearchCalls \/ SharedCalls)
       /\ UNCHANGED <<feedVars, program, assistantVars>>
    \/ /\ program = "assistant"
       /\ Tick \/ DaemonStep \/ MarkFails \/ DaemonCrash
       /\ UNCHANGED <<feedVars, gateVars, program>>

Spec == Init /\ [][Next]_vars

-----------------------------------------------------------------------------
(* Properties.                                                             *)

\* A tier that is marked was gone through at the time of its mark: every
\* symbol of the universe has rows of that time or of a later pass, or its
\* collection failed; so that what is not due again was not skipped by a
\* crash, a failing write or a daemon started again (run_scheduled_cycle marks
\* a tier last).
MarkedMeansHarvested ==
    \A t \in TierNames : \A i \in DOMAIN Universe :
        marked[t] # -1 =>
            \/ harvest[t][Universe[i]] >= marked[t]
            \/ failed[t][Universe[i]] >= marked[t]

=============================================================================
