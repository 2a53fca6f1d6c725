-------------------------- MODULE PaperDaemonProofs --------------------------
(***************************************************************************)
(* Proofs about the live paper daemon, for any symbols, equities, loss      *)
(* limit and number of days, and a crash after every commit.                *)
(***************************************************************************)
EXTENDS PaperDaemon, TLAPS

Steps == {"down", "sleep", "rearm", "mark", "route", "squareoff", "forcedhalt", "haltsession",
          "lifthalt", "resume", "exits", "buy", "record"}

Reasons == {"", "manual", "forced", "status"}

Store == [date : Nat, dayStart : Equities, halt : BOOLEAN, reason : Reasons,
          unresolved : BOOLEAN, processed : SUBSET Nat, discrepancy : BOOLEAN]

-----------------------------------------------------------------------------
(***************************************************************************)
(* The inductive invariant.                                                 *)
(***************************************************************************)

LoopTypes ==
    /\ day \in Nat /\ slot \in Slots
    /\ pc \in Steps /\ todo \subseteq Symbols
    /\ ran \in BOOLEAN /\ errors \in BOOLEAN
    /\ cut \in BOOLEAN /\ manual \in BOOLEAN /\ bought \subseteq Symbols

FlagTypes ==
    /\ halt \in BOOLEAN /\ reason \in Reasons
    /\ unresolved \in BOOLEAN /\ kill \in BOOLEAN /\ disc \in BOOLEAN
    /\ today \in Nat /\ dayStart \in Equities
    /\ processed \subseteq Nat

MemoryTypes == session \in Session /\ FlagTypes

DatabaseTypes == row \subseteq Session /\ store \in Store

TypeInv == LoopTypes /\ MemoryTypes /\ DatabaseTypes

\* What the process remembers of three fields is what the database has.
MemoryInv ==
    Up => today = store.date /\ unresolved = store.unresolved /\ processed = store.processed

\* What is known where the loop stands.
StepInv ==
    /\ pc = "down" => ~ran
    /\ pc \notin {"down", "sleep", "rearm"} => today = day
    /\ pc \in {"exits", "buy", "record"} => ~unresolved
    /\ pc = "exits" => slot = "regular" \/ IsHalted
    /\ pc = "exits" /\ PastCutoff => session.held = {}
    /\ pc \in {"buy", "record"} => slot = "regular" /\ session.quarantined = {}
    /\ pc \in {"forcedhalt", "haltsession"} => unresolved
    /\ pc \in {"lifthalt", "resume"} => session.held = {}

\* A quarantined position is one that is held, and its session is halted.
Contained(s) ==
    /\ s.quarantined \subseteq s.held
    /\ s.quarantined # {} => s.status = "EMERGENCY_HALT"

QuarantineInv ==
    /\ \A s \in row : Contained(s)
    /\ session.quarantined \subseteq session.held
    /\ pc # "haltsession" => Contained(session)

\* An operator's halt is on the disk, with its reason, and in a running process.
ManualInv ==
    manual => /\ store.halt /\ store.reason = "manual"
              /\ Up => halt /\ reason = "manual"
              /\ pc \notin {"rearm", "haltsession", "lifthalt", "resume"}

\* What CutoffHandled says of a daemon asleep, while it is still at the steps that
\* lead back to sleep without a square-off.
CutoffInv ==
    pc \in {"sleep", "rearm", "mark"} /\ PastCutoff /\ ran /\ session.held # {} => unresolved

\* A day's buys are recorded, unless the record of one is the next step or was lost.
DecisionInv ==
    ~cut => /\ bought # {} /\ pc # "record" => day \in store.processed
            /\ pc \in {"buy", "record"} => todo \cap bought = {}

DaemonInv ==
    TypeInv /\ MemoryInv /\ StepInv /\ QuarantineInv /\ ManualInv /\ CutoffInv /\ DecisionInv

-----------------------------------------------------------------------------
(***************************************************************************)
(* Types.                                                                   *)
(***************************************************************************)

\* What the actions make of a session and of the database is one again.
LEMMA SessionUpdates ==
    ASSUME NEW s \in Session
    PROVE  /\ \A st \in {"RUNNING", "PAUSED", "EMERGENCY_HALT"} : [s EXCEPT !.status = st] \in
            Session
           /\ [s EXCEPT !.quarantined = s.held] \in Session
           /\ \A e \in Equities : [s EXCEPT !.equity = e] \in Session
  BY DEF Session

\* A sale and a buy make a session of a session.
LEMMA TradedSessions ==
    ASSUME session \in Session, NEW s \in Symbols
    PROVE  Sold(s) \subseteq Session /\ Bought(s) \subseteq Session
<1>1. ASSUME NEW h \in SUBSET Symbols, NEW q \in SUBSET Symbols, NEW e \in Equities
      PROVE  [session EXCEPT !.held = h, !.quarantined = q, !.equity = e] \in Session
  BY DEF Session
<1>2. ASSUME NEW h \in SUBSET Symbols, NEW e \in Equities
      PROVE  [session EXCEPT !.held = h, !.equity = e] \in Session
  BY DEF Session
<1>3. session.held \subseteq Symbols /\ session.quarantined \subseteq Symbols
  BY DEF Session
<1>4. ASSUME NEW n \in Sold(s) PROVE n \in Session
  <2>1. PICK e \in Equities :
           n = [session EXCEPT !.held = session.held \ {s},
                               !.quarantined = session.quarantined \ {s}, !.equity = e]
    BY DEF Sold
  <2> QED
    BY <1>1, <1>3, <2>1
<1>5. ASSUME NEW n \in Bought(s) PROVE n \in Session
  <2>1. PICK e \in Equities : n = [session EXCEPT !.held = session.held \cup {s}, !.equity = e]
    BY DEF Bought
  <2> QED
    BY <1>2, <1>3, <2>1
<1> QED
  BY <1>4, <1>5

\* The flags, the baseline and the decision of a day are replaced within the database's type.
LEMMA StoreUpdates ==
    ASSUME NEW s \in Store
    PROVE  /\ \A b \in BOOLEAN : /\ [s EXCEPT !.discrepancy = b] \in Store
                                 /\ [s EXCEPT !.unresolved = b] \in Store
           /\ \A h \in BOOLEAN, r \in Reasons : [s EXCEPT !.halt = h, !.reason = r] \in Store
           /\ \A d \in Nat, e \in Equities : [s EXCEPT !.date = d, !.dayStart = e] \in Store
           /\ \A d \in Nat : [s EXCEPT !.processed = @ \cup {d}] \in Store
  BY DEF Store

\* A session that a start creates, in any of its states, is one.
LEMMA NewSessionType ==
    ASSUME NEW st \in {"RUNNING", "PAUSED", "EMERGENCY_HALT"}
    PROVE  NewSession(st) \in Session
  BY DaemonAssumption DEF NewSession, Session

\* A start finds a session on the disk, or makes one.
LEMMA StartedType ==
    ASSUME row \subseteq Session
    PROVE  StartedSession \in Session
<1>1. CASE row = {}
  BY <1>1, NewSessionType DEF StartedSession
<1>2. CASE row # {}
  <2> DEFINE s == CHOOSE s \in row : TRUE
  <2>1. s \in Session
    BY <1>2
  <2>2. StartedSession \in {s, [s EXCEPT !.status = "PAUSED"]}
    BY <1>2 DEF StartedSession
  <2> HIDE DEF s
  <2> QED
    BY <2>1, <2>2, SessionUpdates
<1> QED
  BY <1>1, <1>2

\* The first start finds every variable of its type.
LEMMA InitialTypes == Init => TypeInv
<1> SUFFICES ASSUME Init PROVE TypeInv
  OBVIOUS
<1>1. LoopTypes
  BY DEF Init, LoopTypes, Slots, Steps
<1>2. MemoryTypes
  BY NewSessionType, DaemonAssumption DEF Init, MemoryTypes, FlagTypes, Reasons
<1>3. DatabaseTypes
  BY DaemonAssumption DEF Init, DatabaseTypes, Store, Reasons
<1> QED
  BY <1>1, <1>2, <1>3 DEF TypeInv

\* Every step keeps the types of the clock, of the loop's position and of the history.
LEMMA NextLoopTypes ==
    ASSUME TypeInv, [Next]_vars
    PROVE  LoopTypes'
<1>1. LoopTypes /\ session.held \subseteq Symbols
  BY DEF TypeInv, MemoryTypes, FlagTypes, Session
<1> USE <1>1 DEF LoopTypes, Steps, Slots, Goto, Visit, Rest, Sleep, Forget, clockVars,
        haltVars, sentinelVars, dateVars, memVars, dbVars, historyVars, cycleVars, loopVars
<1>2. CASE Tick
  <2>1. day' \in {day, day + 1}
    BY <1>2 DEF Tick
  <2>2. day' \in Nat
    BY <2>1
  <2>3. slot' \in Slots /\ cut' \in BOOLEAN /\ bought' \subseteq Symbols
    BY <1>2 DEF Tick
  <2>4. UNCHANGED <<pc, todo, errors, manual>> /\ ran' = FALSE
    BY <1>2 DEF Tick
  <2> QED
    BY <2>2, <2>3, <2>4
<1>3. CASE Start
  BY <1>3 DEF Start
<1>4. CASE Crash
  BY <1>4 DEF Crash
<1>5. CASE OperatorHalt
  BY <1>5 DEF OperatorHalt
<1>6. CASE AdminRearm
  BY <1>6 DEF AdminRearm
<1>7. CASE RecordRearm
  BY <1>7 DEF RecordRearm
<1>8. CASE ResolveDiscrepancy
  BY <1>8 DEF ResolveDiscrepancy
<1>9. CASE PreMarket
  BY <1>9 DEF PreMarket
<1>10. CASE EndOfDayAudit
  BY <1>10 DEF EndOfDayAudit
<1>11. CASE RunCycle
  BY <1>11 DEF RunCycle
<1>12. CASE Mark
  BY <1>12 DEF Mark
<1>13. CASE Route
  BY <1>13 DEF Route
<1>14. CASE FlagUnresolved
  BY <1>14 DEF FlagUnresolved
<1>15. CASE ForcedHalt
  BY <1>15 DEF ForcedHalt
<1>16. CASE HaltSession
  BY <1>16 DEF HaltSession
<1>17. CASE FlagResolved
  BY <1>17 DEF FlagResolved
<1>18. CASE LiftHalt
  BY <1>18 DEF LiftHalt
<1>19. CASE ResumeSession
  BY <1>19 DEF ResumeSession
<1>20. CASE ExitsDone
  BY <1>20 DEF ExitsDone
<1>21. CASE RecordDecision
  BY <1>21 DEF RecordDecision
<1>22. CASE BuysDone
  BY <1>22 DEF BuysDone
<1>23. ASSUME NEW s \in Symbols, SquareOff(s) PROVE LoopTypes'
  BY <1>23 DEF SquareOff
<1>24. ASSUME NEW s \in Symbols, Exit(s) PROVE LoopTypes'
  BY <1>24 DEF Exit
<1>25. ASSUME NEW s \in Symbols, Buy(s) PROVE LoopTypes'
  BY <1>25 DEF Buy
<1>26. CASE UNCHANGED vars
  BY <1>26 DEF vars
<1> QED
  BY <1>2, <1>3, <1>4, <1>5, <1>6, <1>7, <1>8, <1>9, <1>10, <1>11, <1>12, <1>13, <1>14,
     <1>15, <1>16, <1>17, <1>18, <1>19, <1>20, <1>21, <1>22, <1>23, <1>24, <1>25, <1>26
     DEF Next, Operator, Scheduled, SquaringOff, Trading, Cycle

\* The session in memory and the one on the disk stay sessions.
LEMMA NextSession ==
    ASSUME TypeInv, [Next]_vars
    PROVE  session' \in Session /\ row' \subseteq Session
<1> USE DEF TypeInv, MemoryTypes, FlagTypes, DatabaseTypes, clockVars, haltVars, sentinelVars,
        dateVars, memVars, dbVars, historyVars, cycleVars, loopVars
<1>1. CASE Tick
  BY <1>1 DEF Tick
<1>2. CASE Start
  BY <1>2, StartedType DEF Start, Commit
<1>3. CASE Crash
  BY <1>3, NewSessionType DEF Crash, Forget
<1>4. CASE OperatorHalt
  BY <1>4 DEF OperatorHalt
<1>5. CASE AdminRearm
  BY <1>5, SessionUpdates DEF AdminRearm, Commit
<1>6. CASE RecordRearm
  BY <1>6 DEF RecordRearm
<1>7. CASE ResolveDiscrepancy
  BY <1>7 DEF ResolveDiscrepancy
<1>8. CASE PreMarket
  BY <1>8 DEF PreMarket
<1>9. CASE EndOfDayAudit
  BY <1>9 DEF EndOfDayAudit
<1>10. CASE RunCycle
  BY <1>10, SessionUpdates DEF RunCycle, OnSessionCheck
<1>11. CASE Mark
  <2>1. session.equity \in Equities
    BY DEF Session
  <2> QED
    BY <1>11, <2>1, SessionUpdates DEF Mark
<1>12. CASE Route
  BY <1>12 DEF Route
<1>13. CASE FlagUnresolved
  BY <1>13 DEF FlagUnresolved
<1>14. CASE ForcedHalt
  BY <1>14, SessionUpdates DEF ForcedHalt
<1>15. CASE HaltSession
  BY <1>15, SessionUpdates DEF HaltSession, Commit
<1>16. CASE FlagResolved
  BY <1>16 DEF FlagResolved
<1>17. CASE LiftHalt
  BY <1>17 DEF LiftHalt
<1>18. CASE ResumeSession
  BY <1>18, SessionUpdates DEF ResumeSession, Commit
<1>19. CASE ExitsDone
  BY <1>19 DEF ExitsDone
<1>20. CASE RecordDecision
  BY <1>20 DEF RecordDecision
<1>21. CASE BuysDone
  BY <1>21 DEF BuysDone
<1>22. ASSUME NEW s \in Symbols, SquareOff(s) PROVE session' \in Session /\ row' \subseteq Session
  BY <1>22, TradedSessions DEF SquareOff, Commit
<1>23. ASSUME NEW s \in Symbols, Exit(s) PROVE session' \in Session /\ row' \subseteq Session
  BY <1>23, TradedSessions DEF Exit, Commit
<1>24. ASSUME NEW s \in Symbols, Buy(s) PROVE session' \in Session /\ row' \subseteq Session
  BY <1>24, TradedSessions DEF Buy, Commit
<1>25. CASE UNCHANGED vars
  BY <1>25 DEF vars
<1> QED
  BY <1>1, <1>2, <1>3, <1>4, <1>5, <1>6, <1>7, <1>8, <1>9, <1>10, <1>11, <1>12, <1>13,
     <1>14, <1>15, <1>16, <1>17, <1>18, <1>19, <1>20, <1>21, <1>22, <1>23, <1>24, <1>25
     DEF Next, Operator, Scheduled, SquaringOff, Trading, Cycle

\* The row of the daemon's own state keeps its type.
LEMMA NextStore ==
    ASSUME TypeInv, [Next]_vars
    PROVE  store' \in Store
<1>1. store \in Store /\ session \in Session /\ row \subseteq Session /\ day \in Nat /\ today \in Nat
  BY DEF TypeInv, LoopTypes, MemoryTypes, FlagTypes, DatabaseTypes
<1> USE <1>1 DEF clockVars, haltVars, sentinelVars, dateVars, memVars, dbVars, historyVars,
        cycleVars, loopVars
<1>2. CASE Tick
  BY <1>2 DEF Tick
<1>3. CASE Start
  BY <1>3, StoreUpdates, StartedType DEF Start, RestoredBaseline, Store, Session
<1>4. CASE Crash
  BY <1>4 DEF Crash
<1>5. CASE OperatorHalt
  BY <1>5, StoreUpdates DEF OperatorHalt, TriggerHalt, Reasons
<1>6. CASE AdminRearm
  BY <1>6 DEF AdminRearm
<1>7. CASE RecordRearm
  BY <1>7, StoreUpdates DEF RecordRearm, Reasons
<1>8. CASE ResolveDiscrepancy
  BY <1>8, StoreUpdates DEF ResolveDiscrepancy
<1>9. CASE PreMarket
  BY <1>9 DEF PreMarket
<1>10. CASE EndOfDayAudit
  BY <1>10, StoreUpdates DEF EndOfDayAudit
<1>11. CASE RunCycle
  <2>1. session.equity \in Equities /\ day \in Nat /\ store \in Store
    BY DEF LoopTypes, Session
  <2>2. store' \in {store, [store EXCEPT !.date = day, !.dayStart = session.equity]}
    BY <1>11 DEF RunCycle, OnSessionCheck
  <2>3. [store EXCEPT !.date = day, !.dayStart = session.equity] \in Store
    BY <2>1, StoreUpdates
  <2> QED
    BY <2>1, <2>2, <2>3
<1>12. CASE Mark
  BY <1>12 DEF Mark
<1>13. CASE Route
  BY <1>13, StoreUpdates DEF Route
<1>14. CASE FlagUnresolved
  BY <1>14, StoreUpdates DEF FlagUnresolved
<1>15. CASE ForcedHalt
  BY <1>15, StoreUpdates DEF ForcedHalt, TriggerHalt, Reasons
<1>16. CASE HaltSession
  BY <1>16 DEF HaltSession
<1>17. CASE FlagResolved
  BY <1>17, StoreUpdates DEF FlagResolved
<1>18. CASE LiftHalt
  BY <1>18, StoreUpdates DEF LiftHalt, Reasons
<1>19. CASE ResumeSession
  BY <1>19 DEF ResumeSession
<1>20. CASE ExitsDone
  BY <1>20 DEF ExitsDone
<1>21. CASE RecordDecision
  BY <1>21, StoreUpdates DEF RecordDecision
<1>22. CASE BuysDone
  BY <1>22 DEF BuysDone
<1>23. ASSUME NEW s \in Symbols, SquareOff(s) PROVE store' \in Store
  BY <1>23 DEF SquareOff
<1>24. ASSUME NEW s \in Symbols, Exit(s) PROVE store' \in Store
  BY <1>24 DEF Exit
<1>25. ASSUME NEW s \in Symbols, Buy(s) PROVE store' \in Store
  BY <1>25 DEF Buy
<1>26. CASE UNCHANGED vars
  BY <1>26 DEF vars
<1> QED
  BY <1>2, <1>3, <1>4, <1>5, <1>6, <1>7, <1>8, <1>9, <1>10, <1>11, <1>12, <1>13, <1>14,
     <1>15, <1>16, <1>17, <1>18, <1>19, <1>20, <1>21, <1>22, <1>23, <1>24, <1>25, <1>26
     DEF Next, Operator, Scheduled, SquaringOff, Trading, Cycle

\* What the process remembers beside its session keeps its type.
LEMMA NextFlags ==
    ASSUME TypeInv, [Next]_vars
    PROVE  FlagTypes'
<1> USE DEF TypeInv, FlagTypes, MemoryTypes, Reasons, TriggerHalt, clockVars, haltVars,
        sentinelVars, dateVars, memVars, dbVars, historyVars, cycleVars, loopVars
<1>1. CASE Tick
  BY <1>1 DEF Tick
<1>2. CASE Start
  BY <1>2, StartedType DEF Start, RestoreFlags, RestoredBaseline, LoopTypes, DatabaseTypes,
     Session, Store
<1>3. CASE Crash
  BY <1>3, DaemonAssumption DEF Crash, Forget
<1>4. CASE OperatorHalt
  BY <1>4 DEF OperatorHalt
<1>5. CASE AdminRearm
  BY <1>5 DEF AdminRearm
<1>6. CASE RecordRearm
  BY <1>6 DEF RecordRearm
<1>7. CASE ResolveDiscrepancy
  BY <1>7 DEF ResolveDiscrepancy
<1>8. CASE PreMarket
  BY <1>8 DEF PreMarket
<1>9. CASE EndOfDayAudit
  BY <1>9 DEF EndOfDayAudit
<1>10. CASE RunCycle
  BY <1>10 DEF RunCycle, OnSessionCheck, LoopTypes, Session
<1>11. CASE Mark
  BY <1>11 DEF Mark
<1>12. CASE Route
  BY <1>12 DEF Route
<1>13. CASE FlagUnresolved
  BY <1>13 DEF FlagUnresolved
<1>14. CASE ForcedHalt
  BY <1>14 DEF ForcedHalt
<1>15. CASE HaltSession
  BY <1>15 DEF HaltSession
<1>16. CASE FlagResolved
  BY <1>16 DEF FlagResolved
<1>17. CASE LiftHalt
  BY <1>17 DEF LiftHalt
<1>18. CASE ResumeSession
  BY <1>18 DEF ResumeSession
<1>19. CASE ExitsDone
  BY <1>19 DEF ExitsDone
<1>20. CASE RecordDecision
  BY <1>20 DEF RecordDecision
<1>21. CASE BuysDone
  BY <1>21 DEF BuysDone
<1>22. ASSUME NEW s \in Symbols, SquareOff(s) PROVE FlagTypes'
  BY <1>22 DEF SquareOff
<1>23. ASSUME NEW s \in Symbols, Exit(s) PROVE FlagTypes'
  BY <1>23 DEF Exit
<1>24. ASSUME NEW s \in Symbols, Buy(s) PROVE FlagTypes'
  BY <1>24 DEF Buy
<1>25. CASE UNCHANGED vars
  BY <1>25 DEF vars
<1> QED
  BY <1>1, <1>2, <1>3, <1>4, <1>5, <1>6, <1>7, <1>8, <1>9, <1>10, <1>11, <1>12, <1>13,
     <1>14, <1>15, <1>16, <1>17, <1>18, <1>19, <1>20, <1>21, <1>22, <1>23, <1>24, <1>25
     DEF Next, Operator, Scheduled, SquaringOff, Trading, Cycle

\* Every step keeps every type.
LEMMA NextTypes == TypeInv /\ [Next]_vars => TypeInv'
  BY NextLoopTypes, NextSession, NextStore, NextFlags
     DEF TypeInv, FlagTypes, MemoryTypes, DatabaseTypes

\* Each change of the date, of the unresolved flag and of the decisions is made in memory and
\* in the database by one step, and a start reads them back.
LEMMA NextMemory ==
    ASSUME DaemonInv, [Next]_vars
    PROVE  MemoryInv'
<1> USE DEF DaemonInv, TypeInv, DatabaseTypes, MemoryInv, StepInv, Store, Up, Asleep, Goto,
        Visit, Rest, Sleep, TriggerHalt, clockVars, haltVars, sentinelVars, dateVars, memVars, dbVars,
        historyVars, cycleVars, loopVars
<1>1. CASE Tick
  BY <1>1 DEF Tick
<1>2. CASE Start
  BY <1>2 DEF Start, RestoreFlags
<1>3. CASE Crash
  BY <1>3 DEF Crash, Forget
<1>4. CASE OperatorHalt
  BY <1>4 DEF OperatorHalt
<1>5. CASE AdminRearm
  BY <1>5 DEF AdminRearm
<1>6. CASE RecordRearm
  BY <1>6 DEF RecordRearm
<1>7. CASE ResolveDiscrepancy
  BY <1>7 DEF ResolveDiscrepancy
<1>8. CASE PreMarket
  BY <1>8 DEF PreMarket
<1>9. CASE EndOfDayAudit
  BY <1>9 DEF EndOfDayAudit
<1>10. CASE RunCycle
  BY <1>10 DEF RunCycle, OnSessionCheck
<1>11. CASE Mark
  BY <1>11 DEF Mark
<1>12. CASE Route
  BY <1>12 DEF Route
<1>13. CASE FlagUnresolved
  BY <1>13 DEF FlagUnresolved
<1>14. CASE ForcedHalt
  BY <1>14 DEF ForcedHalt
<1>15. CASE HaltSession
  BY <1>15 DEF HaltSession
<1>16. CASE FlagResolved
  BY <1>16 DEF FlagResolved
<1>17. CASE LiftHalt
  BY <1>17 DEF LiftHalt
<1>18. CASE ResumeSession
  BY <1>18 DEF ResumeSession
<1>19. CASE ExitsDone
  BY <1>19 DEF ExitsDone
<1>20. CASE RecordDecision
  BY <1>20 DEF RecordDecision
<1>21. CASE BuysDone
  BY <1>21 DEF BuysDone
<1>22. ASSUME NEW s \in Symbols, SquareOff(s) PROVE MemoryInv'
  BY <1>22 DEF SquareOff
<1>23. ASSUME NEW s \in Symbols, Exit(s) PROVE MemoryInv'
  BY <1>23 DEF Exit
<1>24. ASSUME NEW s \in Symbols, Buy(s) PROVE MemoryInv'
  BY <1>24 DEF Buy
<1>25. CASE UNCHANGED vars
  BY <1>25 DEF vars
<1> QED
  BY <1>1, <1>2, <1>3, <1>4, <1>5, <1>6, <1>7, <1>8, <1>9, <1>10, <1>11, <1>12, <1>13,
     <1>14, <1>15, <1>16, <1>17, <1>18, <1>19, <1>20, <1>21, <1>22, <1>23, <1>24, <1>25
     DEF Next, Operator, Scheduled, SquaringOff, Trading, Cycle

\* Each step of a cycle leaves what the one it goes to relies on.
LEMMA NextStep ==
    ASSUME DaemonInv, [Next]_vars
    PROVE  StepInv'
<1> USE DEF DaemonInv, TypeInv, LoopTypes, MemoryTypes, FlagTypes, Session, StepInv, Up,
        Asleep, IsHalted, PastCutoff, MarketOpen, Slots, Goto, Visit, Rest, Sleep, TriggerHalt,
        Commit, clockVars, haltVars, sentinelVars, dateVars, memVars, dbVars, historyVars, cycleVars,
        loopVars
<1>1. CASE Tick
  BY <1>1 DEF Tick
<1>2. CASE Start
  BY <1>2 DEF Start
<1>3. CASE Crash
  BY <1>3 DEF Crash, Forget
<1>4. CASE OperatorHalt
  BY <1>4 DEF OperatorHalt
<1>5. CASE AdminRearm
  BY <1>5 DEF AdminRearm
<1>6. CASE RecordRearm
  BY <1>6 DEF RecordRearm
<1>7. CASE ResolveDiscrepancy
  BY <1>7 DEF ResolveDiscrepancy
<1>8. CASE PreMarket
  BY <1>8 DEF PreMarket
<1>9. CASE EndOfDayAudit
  BY <1>9 DEF EndOfDayAudit
<1>10. CASE RunCycle
  BY <1>10 DEF RunCycle, OnSessionCheck
<1>11. CASE Mark
  BY <1>11 DEF Mark
<1>12. CASE Route
  BY <1>12 DEF Route
<1>13. CASE FlagUnresolved
  BY <1>13 DEF FlagUnresolved
<1>14. CASE ForcedHalt
  BY <1>14 DEF ForcedHalt
<1>15. CASE HaltSession
  BY <1>15 DEF HaltSession
<1>16. CASE FlagResolved
  BY <1>16 DEF FlagResolved
<1>17. CASE LiftHalt
  BY <1>17 DEF LiftHalt
<1>18. CASE ResumeSession
  BY <1>18 DEF ResumeSession
<1>19. CASE ExitsDone
  <2>1. ~IsHalted => session.quarantined = {}
    BY <1>19 DEF ExitsDone, QuarantineInv, Contained
  <2> QED
    BY <1>19, <2>1 DEF ExitsDone
<1>20. CASE RecordDecision
  BY <1>20 DEF RecordDecision
<1>21. CASE BuysDone
  BY <1>21 DEF BuysDone
<1>22. ASSUME NEW s \in Symbols, SquareOff(s) PROVE StepInv'
  BY <1>22 DEF SquareOff, Sold
<1>23. ASSUME NEW s \in Symbols, Exit(s) PROVE StepInv'
  BY <1>23 DEF Exit, Sold
<1>24. ASSUME NEW s \in Symbols, Buy(s) PROVE StepInv'
  <2>1. PICK n \in Bought(s) : session' = n
    BY <1>24 DEF Buy
  <2>2. session'.quarantined = session.quarantined
    BY <2>1 DEF Bought
  <2> QED
    BY <1>24, <2>2 DEF Buy
<1>25. CASE UNCHANGED vars
  BY <1>25 DEF vars
<1> QED
  BY <1>1, <1>2, <1>3, <1>4, <1>5, <1>6, <1>7, <1>8, <1>9, <1>10, <1>11, <1>12, <1>13,
     <1>14, <1>15, <1>16, <1>17, <1>18, <1>19, <1>20, <1>21, <1>22, <1>23, <1>24, <1>25
     DEF Next, Operator, Scheduled, SquaringOff, Trading, Cycle

\* A sale or a buy of s leaves a session contained.
LEMMA TradedContained ==
    ASSUME session \in Session, Contained(session), NEW s \in Symbols
    PROVE  \A n \in Sold(s) \cup Bought(s) : n.quarantined \subseteq n.held /\ Contained(n)
<1>1. ASSUME NEW n \in Sold(s) PROVE Contained(n)
  <2>1. /\ n.held = session.held \ {s} /\ n.quarantined = session.quarantined \ {s}
        /\ n.status = session.status
    BY DEF Sold, Session
  <2> QED
    BY <2>1 DEF Contained
<1>2. ASSUME NEW n \in Bought(s) PROVE Contained(n)
  <2>1. /\ n.held = session.held \cup {s} /\ n.quarantined = session.quarantined
        /\ n.status = session.status
    BY DEF Bought, Session
  <2> QED
    BY <2>1 DEF Contained
<1> QED
  BY <1>1, <1>2 DEF Contained

\* What a start makes of the session on the disk is contained as that was.
LEMMA StartedContained ==
    ASSUME row \subseteq Session, \A s \in row : Contained(s)
    PROVE  Contained(StartedSession)
<1>1. CASE row = {}
  BY <1>1 DEF StartedSession, NewSession, Contained
<1>2. CASE row # {}
  <2> DEFINE s == CHOOSE s \in row : TRUE
  <2>1. s \in Session /\ Contained(s)
    BY <1>2
  <2>2. StartedSession = IF ~MarketOpen /\ s.status = "RUNNING" THEN [s EXCEPT !.status =
          "PAUSED"] ELSE s
    BY <1>2 DEF StartedSession
  <2> HIDE DEF s
  <2> QED
    BY <2>1, <2>2 DEF Contained, Session
<1> QED
  BY <1>1, <1>2

\* A session with a quarantined position is resumed by nothing but the sale of all it holds.
LEMMA NextQuarantine ==
    ASSUME DaemonInv, [Next]_vars
    PROVE  QuarantineInv'
<1> USE DEF DaemonInv, TypeInv, MemoryTypes, FlagTypes, DatabaseTypes, Session, QuarantineInv,
        Contained, Asleep, Goto, Visit, Rest, Sleep, Commit, clockVars, haltVars, sentinelVars,
        dateVars, memVars, dbVars, historyVars, cycleVars, loopVars
<1>1. CASE Tick
  BY <1>1 DEF Tick
<1>2. CASE Start
  BY <1>2, StartedContained DEF Start
<1>3. CASE Crash
  BY <1>3 DEF Crash, Forget, NewSession
<1>4. CASE OperatorHalt
  BY <1>4 DEF OperatorHalt
<1>5. CASE AdminRearm
  BY <1>5 DEF AdminRearm
<1>6. CASE RecordRearm
  BY <1>6 DEF RecordRearm
<1>7. CASE ResolveDiscrepancy
  BY <1>7 DEF ResolveDiscrepancy
<1>8. CASE PreMarket
  BY <1>8 DEF PreMarket
<1>9. CASE EndOfDayAudit
  BY <1>9 DEF EndOfDayAudit
<1>10. CASE RunCycle
  BY <1>10 DEF RunCycle, OnSessionCheck
<1>11. CASE Mark
  BY <1>11 DEF Mark
<1>12. CASE Route
  BY <1>12 DEF Route
<1>13. CASE FlagUnresolved
  BY <1>13 DEF FlagUnresolved
<1>14. CASE ForcedHalt
  BY <1>14 DEF ForcedHalt
<1>15. CASE HaltSession
  BY <1>15 DEF HaltSession
<1>16. CASE FlagResolved
  BY <1>16 DEF FlagResolved
<1>17. CASE LiftHalt
  BY <1>17 DEF LiftHalt
<1>18. CASE ResumeSession
  BY <1>18 DEF ResumeSession, StepInv
<1>19. CASE ExitsDone
  BY <1>19 DEF ExitsDone
<1>20. CASE RecordDecision
  BY <1>20 DEF RecordDecision
<1>21. CASE BuysDone
  BY <1>21 DEF BuysDone
<1>22. ASSUME NEW s \in Symbols, SquareOff(s) PROVE QuarantineInv'
  BY <1>22, TradedContained DEF SquareOff
<1>23. ASSUME NEW s \in Symbols, Exit(s) PROVE QuarantineInv'
  BY <1>23, TradedContained DEF Exit
<1>24. ASSUME NEW s \in Symbols, Buy(s) PROVE QuarantineInv'
  BY <1>24, TradedContained DEF Buy
<1>25. CASE UNCHANGED vars
  BY <1>25 DEF vars
<1> QED
  BY <1>1, <1>2, <1>3, <1>4, <1>5, <1>6, <1>7, <1>8, <1>9, <1>10, <1>11, <1>12, <1>13,
     <1>14, <1>15, <1>16, <1>17, <1>18, <1>19, <1>20, <1>21, <1>22, <1>23, <1>24, <1>25
     DEF Next, Operator, Scheduled, SquaringOff, Trading, Cycle

\* No start, rollover, recovery or failed write loses an operator's halt.
LEMMA NextManual ==
    ASSUME DaemonInv, [Next]_vars
    PROVE  ManualInv'
<1> USE DEF DaemonInv, TypeInv, DatabaseTypes, Store, ManualInv, Up, Asleep, TriggerHalt,
        Goto, Visit, Rest, Sleep, clockVars, haltVars, sentinelVars, dateVars, memVars, dbVars,
        historyVars, cycleVars, loopVars
<1>1. CASE Tick
  BY <1>1 DEF Tick
<1>2. CASE Start
  BY <1>2 DEF Start, LoopTypes
<1>3. CASE Crash
  BY <1>3 DEF Crash, Forget
<1>4. CASE OperatorHalt
  BY <1>4 DEF OperatorHalt
<1>5. CASE AdminRearm
  BY <1>5 DEF AdminRearm
<1>6. CASE RecordRearm
  BY <1>6 DEF RecordRearm
<1>7. CASE ResolveDiscrepancy
  BY <1>7 DEF ResolveDiscrepancy
<1>8. CASE PreMarket
  BY <1>8 DEF PreMarket
<1>9. CASE EndOfDayAudit
  BY <1>9 DEF EndOfDayAudit
<1>10. CASE RunCycle
  BY <1>10 DEF RunCycle, OnSessionCheck
<1>11. CASE Mark
  BY <1>11 DEF Mark
<1>12. CASE Route
  BY <1>12 DEF Route
<1>13. CASE FlagUnresolved
  BY <1>13 DEF FlagUnresolved
<1>14. CASE ForcedHalt
  BY <1>14 DEF ForcedHalt
<1>15. CASE HaltSession
  BY <1>15 DEF HaltSession
<1>16. CASE FlagResolved
  BY <1>16 DEF FlagResolved
<1>17. CASE LiftHalt
  BY <1>17 DEF LiftHalt
<1>18. CASE ResumeSession
  BY <1>18 DEF ResumeSession
<1>19. CASE ExitsDone
  BY <1>19 DEF ExitsDone
<1>20. CASE RecordDecision
  BY <1>20 DEF RecordDecision
<1>21. CASE BuysDone
  BY <1>21 DEF BuysDone
<1>22. ASSUME NEW s \in Symbols, SquareOff(s) PROVE ManualInv'
  BY <1>22 DEF SquareOff
<1>23. ASSUME NEW s \in Symbols, Exit(s) PROVE ManualInv'
  BY <1>23 DEF Exit
<1>24. ASSUME NEW s \in Symbols, Buy(s) PROVE ManualInv'
  BY <1>24 DEF Buy
<1>25. CASE UNCHANGED vars
  BY <1>25 DEF vars
<1> QED
  BY <1>1, <1>2, <1>3, <1>4, <1>5, <1>6, <1>7, <1>8, <1>9, <1>10, <1>11, <1>12, <1>13,
     <1>14, <1>15, <1>16, <1>17, <1>18, <1>19, <1>20, <1>21, <1>22, <1>23, <1>24, <1>25
     DEF Next, Operator, Scheduled, SquaringOff, Trading, Cycle

\* A cycle past the cutoff goes back to sleep over the square-off or with nothing held.
LEMMA NextCutoff ==
    ASSUME DaemonInv, [Next]_vars
    PROVE  CutoffInv'
<1> USE DEF DaemonInv, TypeInv, LoopTypes, MemoryTypes, FlagTypes, CutoffInv, StepInv, Asleep,
        PastCutoff, Slots, Session, Goto, Visit, Rest, Sleep, Commit, clockVars, haltVars,
        sentinelVars, dateVars, memVars, dbVars, historyVars, cycleVars, loopVars
<1>1. CASE Tick
  BY <1>1 DEF Tick
<1>2. CASE Start
  BY <1>2 DEF Start
<1>3. CASE Crash
  BY <1>3 DEF Crash, Forget
<1>4. CASE OperatorHalt
  BY <1>4 DEF OperatorHalt
<1>5. CASE AdminRearm
  BY <1>5 DEF AdminRearm
<1>6. CASE RecordRearm
  BY <1>6 DEF RecordRearm
<1>7. CASE ResolveDiscrepancy
  BY <1>7 DEF ResolveDiscrepancy
<1>8. CASE PreMarket
  BY <1>8 DEF PreMarket
<1>9. CASE EndOfDayAudit
  BY <1>9 DEF EndOfDayAudit
<1>10. CASE RunCycle
  BY <1>10 DEF RunCycle, OnSessionCheck
<1>11. CASE Mark
  BY <1>11 DEF Mark
<1>12. CASE Route
  BY <1>12 DEF Route
<1>13. CASE FlagUnresolved
  BY <1>13 DEF FlagUnresolved
<1>14. CASE ForcedHalt
  BY <1>14 DEF ForcedHalt
<1>15. CASE HaltSession
  BY <1>15 DEF HaltSession
<1>16. CASE FlagResolved
  BY <1>16 DEF FlagResolved
<1>17. CASE LiftHalt
  BY <1>17 DEF LiftHalt
<1>18. CASE ResumeSession
  BY <1>18 DEF ResumeSession
<1>19. CASE ExitsDone
  BY <1>19 DEF ExitsDone
<1>20. CASE RecordDecision
  BY <1>20 DEF RecordDecision
<1>21. CASE BuysDone
  BY <1>21 DEF BuysDone
<1>22. ASSUME NEW s \in Symbols, SquareOff(s) PROVE CutoffInv'
  BY <1>22 DEF SquareOff, Sold
<1>23. ASSUME NEW s \in Symbols, Exit(s) PROVE CutoffInv'
  BY <1>23 DEF Exit, Sold
<1>24. ASSUME NEW s \in Symbols, Buy(s) PROVE CutoffInv'
  BY <1>24 DEF Buy, Bought
<1>25. CASE UNCHANGED vars
  BY <1>25 DEF vars
<1> QED
  BY <1>1, <1>2, <1>3, <1>4, <1>5, <1>6, <1>7, <1>8, <1>9, <1>10, <1>11, <1>12, <1>13,
     <1>14, <1>15, <1>16, <1>17, <1>18, <1>19, <1>20, <1>21, <1>22, <1>23, <1>24, <1>25
     DEF Next, Operator, Scheduled, SquaringOff, Trading, Cycle

\* A buy is recorded before the next decision is looked at, unless the process dies first.
LEMMA NextDecision ==
    ASSUME DaemonInv, [Next]_vars
    PROVE  DecisionInv'
<1> USE DEF DaemonInv, TypeInv, DatabaseTypes, LoopTypes, MemoryInv, StepInv, DecisionInv,
        Store, Up, Asleep, TriggerHalt, Goto, Visit, Rest, Sleep, clockVars, haltVars, sentinelVars,
        dateVars, memVars, dbVars, historyVars, cycleVars, loopVars
<1>1. CASE Tick
  BY <1>1 DEF Tick
<1>2. CASE Start
  BY <1>2 DEF Start
<1>3. CASE Crash
  BY <1>3 DEF Crash, Forget
<1>4. CASE OperatorHalt
  BY <1>4 DEF OperatorHalt
<1>5. CASE AdminRearm
  BY <1>5 DEF AdminRearm
<1>6. CASE RecordRearm
  BY <1>6 DEF RecordRearm
<1>7. CASE ResolveDiscrepancy
  BY <1>7 DEF ResolveDiscrepancy
<1>8. CASE PreMarket
  BY <1>8 DEF PreMarket
<1>9. CASE EndOfDayAudit
  BY <1>9 DEF EndOfDayAudit
<1>10. CASE RunCycle
  BY <1>10 DEF RunCycle, OnSessionCheck
<1>11. CASE Mark
  BY <1>11 DEF Mark
<1>12. CASE Route
  BY <1>12 DEF Route
<1>13. CASE FlagUnresolved
  BY <1>13 DEF FlagUnresolved
<1>14. CASE ForcedHalt
  BY <1>14 DEF ForcedHalt
<1>15. CASE HaltSession
  BY <1>15 DEF HaltSession
<1>16. CASE FlagResolved
  BY <1>16 DEF FlagResolved
<1>17. CASE LiftHalt
  BY <1>17 DEF LiftHalt
<1>18. CASE ResumeSession
  BY <1>18 DEF ResumeSession
<1>19. CASE ExitsDone
  BY <1>19 DEF ExitsDone
<1>20. CASE RecordDecision
  BY <1>20 DEF RecordDecision
<1>21. CASE BuysDone
  BY <1>21 DEF BuysDone
<1>22. ASSUME NEW s \in Symbols, SquareOff(s) PROVE DecisionInv'
  BY <1>22 DEF SquareOff
<1>23. ASSUME NEW s \in Symbols, Exit(s) PROVE DecisionInv'
  BY <1>23 DEF Exit
<1>24. ASSUME NEW s \in Symbols, Buy(s) PROVE DecisionInv'
  BY <1>24 DEF Buy
<1>25. CASE UNCHANGED vars
  BY <1>25 DEF vars
<1> QED
  BY <1>1, <1>2, <1>3, <1>4, <1>5, <1>6, <1>7, <1>8, <1>9, <1>10, <1>11, <1>12, <1>13,
     <1>14, <1>15, <1>16, <1>17, <1>18, <1>19, <1>20, <1>21, <1>22, <1>23, <1>24, <1>25
     DEF Next, Operator, Scheduled, SquaringOff, Trading, Cycle

-----------------------------------------------------------------------------
(***************************************************************************)
(* The theorems.                                                            *)
(***************************************************************************)

\* The invariant holds before the first start,
LEMMA InitialInv == Init => DaemonInv
<1> SUFFICES ASSUME Init PROVE DaemonInv
  OBVIOUS
<1>1. TypeInv
  BY InitialTypes
<1>2. MemoryInv /\ StepInv
  BY DEF Init, MemoryInv, StepInv, Up
<1>3. QuarantineInv
  BY DEF Init, QuarantineInv, Contained, NewSession
<1>4. ManualInv /\ CutoffInv /\ DecisionInv
  BY DEF Init, ManualInv, CutoffInv, DecisionInv
<1> QED
  BY <1>1, <1>2, <1>3, <1>4 DEF DaemonInv

\* every step keeps it,
LEMMA NextInv == DaemonInv /\ [Next]_vars => DaemonInv'
  BY NextTypes, NextMemory, NextStep, NextQuarantine, NextManual, NextCutoff, NextDecision
     DEF DaemonInv

\* and so it holds in every reachable state.
LEMMA DaemonInvariant == Spec => []DaemonInv
  BY InitialInv, NextInv, PTL DEF Spec

\* After a cycle past 15:15 (run_live_paper_daemon.py) what is still held is flagged
\* as an unresolved square-off, in memory and in the database.
THEOREM CutoffAlwaysHandled == Spec => []CutoffHandled
<1>1. DaemonInv => CutoffHandled
  BY DEF DaemonInv, CutoffInv, MemoryInv, CutoffHandled, Asleep, Up
<1> QED
  BY <1>1, DaemonInvariant, PTL

\* Only a re-arm ends an operator's halt, up to a forced halt that overwrites its
\* reason, whatever dies or is scheduled in between.
THEOREM OperatorHaltsHold == Spec => []OperatorHaltHolds
<1>1. DaemonInv => OperatorHaltHolds
  BY DEF DaemonInv, ManualInv, OperatorHaltHolds
<1> QED
  BY <1>1, DaemonInvariant, PTL

\* The baseline of a day, from which its loss is measured, is set once.
THEOREM BaselineIsKept == Spec => BaselineSurvivesRestart
<1>1. ASSUME DaemonInv, [Next]_vars, store.date # 0, store'.date = store.date
      PROVE  store'.dayStart = store.dayStart
  <2> USE <1>1 DEF DaemonInv, TypeInv, DatabaseTypes, Store
  <2>1. CASE Start
    BY <2>1 DEF Start, RestoredBaseline
  <2>2. CASE RunCycle
    BY <2>2 DEF RunCycle, OnSessionCheck, MemoryInv, Up, Asleep, dbVars
  <2>3. CASE OperatorHalt \/ RecordRearm \/ ResolveDiscrepancy \/ EndOfDayAudit
    BY <2>3 DEF OperatorHalt, TriggerHalt, RecordRearm, ResolveDiscrepancy, EndOfDayAudit
  <2>4. CASE Route \/ FlagUnresolved \/ ForcedHalt \/ FlagResolved \/ LiftHalt \/ RecordDecision
    BY <2>4 DEF Route, FlagUnresolved, ForcedHalt, TriggerHalt, FlagResolved, LiftHalt,
       RecordDecision
  <2>5. CASE Tick \/ Crash \/ AdminRearm \/ PreMarket \/ Mark \/ HaltSession \/ ResumeSession
             \/ ExitsDone \/ BuysDone
    BY <2>5 DEF Tick, Crash, AdminRearm, PreMarket, Mark, HaltSession, ResumeSession, ExitsDone,
       BuysDone, dbVars
  <2>6. CASE \E s \in Symbols : SquareOff(s) \/ Exit(s) \/ Buy(s)
    BY <2>6 DEF SquareOff, Exit, Buy
  <2>7. CASE UNCHANGED vars
    BY <2>7 DEF vars, dbVars
  <2> QED
    BY <2>1, <2>2, <2>3, <2>4, <2>5, <2>6, <2>7
       DEF Next, Operator, Scheduled, SquaringOff, Trading, Cycle
<1>2. DaemonInv /\ [Next]_vars =>
        [store.date # 0 /\ store'.date = store.date => store'.dayStart = store.dayStart]_vars
  BY <1>1
<1> QED
  BY <1>2, DaemonInvariant, PTL DEF Spec, BaselineSurvivesRestart

\* Only Buy goes from "buy" to "record".
LEMMA BuyingIsBuy ==
    ASSUME Next, Buying
    PROVE  \E s \in Symbols : Buy(s)
<1> USE DEF Buying, Up, Asleep, Goto, Visit, Rest, Sleep
<1>1. ~(Tick \/ Start \/ Crash \/ Operator \/ Scheduled)
  BY DEF Tick, Start, Crash, Forget, Operator, OperatorHalt, AdminRearm, RecordRearm,
     ResolveDiscrepancy, Scheduled, PreMarket, EndOfDayAudit, loopVars
<1>2. ~(RunCycle \/ Mark \/ Route \/ SquaringOff)
  BY DEF RunCycle, Mark, Route, SquaringOff, SquareOff, FlagUnresolved, ForcedHalt, HaltSession,
     FlagResolved, LiftHalt, ResumeSession
<1>3. ~(ExitsDone \/ RecordDecision \/ BuysDone) /\ ~\E s \in Symbols : Exit(s)
  BY DEF ExitsDone, RecordDecision, BuysDone, Exit
<1> QED
  BY <1>1, <1>2, <1>3 DEF Next, Cycle, Trading

\* Nothing is bought while a square-off is unresolved or something it left is held.
THEOREM NoBuysWhileUnresolved == Spec => NoBuyWhileUnresolved
<1>1. ASSUME DaemonInv, Buying
      PROVE  ~unresolved /\ ~store.unresolved /\ session.quarantined = {}
  BY <1>1 DEF DaemonInv, TypeInv, MemoryTypes, FlagTypes, MemoryInv, StepInv, Up, Buying
<1>2. DaemonInv => [Buying => ~unresolved /\ ~store.unresolved /\ session.quarantined = {}]_vars
  BY <1>1
<1> QED
  BY <1>2, DaemonInvariant, PTL DEF NoBuyWhileUnresolved

\* No symbol is bought twice under one decision, unless the daemon died between a fill
\* and its record.
THEOREM DecisionsExecutedOnce == Spec => DecisionOnce
<1>1. ASSUME DaemonInv, Next, Buying, ~cut
      PROVE  (todo \ todo') \cap bought = {}
  <2>1. todo \cap bought = {}
    BY <1>1 DEF DaemonInv, DecisionInv, Buying
  <2> QED
    BY <2>1
<1>2. DaemonInv /\ [Next]_vars => [Buying /\ ~cut => (todo \ todo') \cap bought = {}]_vars
  BY <1>1
<1> QED
  BY <1>2, DaemonInvariant, PTL DEF Spec, DecisionOnce

====
