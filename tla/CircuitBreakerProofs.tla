------------------------- MODULE CircuitBreakerProofs -------------------------
(***************************************************************************)
(* Proofs about the circuit breaker, for every set of equities, every limit *)
(* and every choice of file-system calls that may fail, and about the       *)
(* gateway and the breaker together, for every set of order ids, costs,     *)
(* balances and threads.                                                    *)
(***************************************************************************)
EXTENDS SafetyGateway, FiniteSetTheorems, SequenceTheorems, TLAPS

-----------------------------------------------------------------------------
(***************************************************************************)
(* Sequences of ages.                                                       *)
(***************************************************************************)

\* Popping old entries off the head leaves a sequence over the same set.
LEMMA DropOldType ==
    ASSUME NEW S, NEW s \in Seq(S)
    PROVE  DropOld(s) \in Seq(S)
<1> DEFINE old == {i \in DOMAIN s : s[i] >= RateWindow}
<1>1. DOMAIN s = 1..Len(s) /\ Len(s) \in Nat
  OBVIOUS
<1>2. IsFiniteSet(1..Len(s)) /\ Cardinality(1..Len(s)) = Len(s)
  BY <1>1, FS_Interval
<1>3. Cardinality(old) \in Nat /\ Cardinality(old) <= Len(s)
  BY <1>1, <1>2, FS_Subset, FS_CardinalityType
<1>4. \A i \in (Cardinality(old) + 1)..Len(s) : s[i] \in S
  <2> HIDE DEF old
  <2> QED  BY <1>1, <1>3
<1>5. SubSeq(s, Cardinality(old) + 1, Len(s)) \in Seq(S)
  <2> HIDE DEF old
  <2>1. Cardinality(old) + 1 \in Int /\ Len(s) \in Int
    BY <1>1, <1>3
  <2> QED  BY <1>4, <2>1, SubSeqProperties
<1> QED
  BY <1>5 DEF DropOld

\* Ageing the entries of a sequence one by one leaves a sequence.
LEMMA AgedType ==
    ASSUME NEW s \in Seq(Nat), NEW S, NEW f \in [DOMAIN s -> S]
    PROVE  f \in Seq(S)
<1>1. DOMAIN s = 1..Len(s) /\ Len(s) \in Nat
  OBVIOUS
<1> QED
  BY <1>1, SeqDef

-----------------------------------------------------------------------------
(***************************************************************************)
(* Types.                                                                   *)
(***************************************************************************)

\* TypeOK is inductive once it says that a persist step has a persist to do.
EngineTypeInv ==
    /\ EngineTypeOK
    /\ lock \in PersistSteps => persists \in 1..2

TypeInv == EngineTypeInv /\ CallersTypeOK

LEMMA InitialTypes == Init => TypeInv
<1> SUFFICES ASSUME Init PROVE TypeInv
  OBVIOUS
<1>1. EngineTypeInv
  <2>1. state \in {"NORMAL", "EMERGENCY_HALT"}
    BY DEF Init
  <2>2. /\ hwm \in Equities /\ dayStart \in Equities /\ equity \in Equities
        /\ rearm \in [valid : BOOLEAN, clean : BOOLEAN]
    BY EquitiesAssumption DEF Init, NoRequest
  <2>3. /\ file \subseteq Snapshot /\ fileDur \subseteq Snapshot
        /\ perr \in BOOLEAN /\ marker \in BOOLEAN /\ markerDur \in BOOLEAN
    BY DEF Init
  <2>4. lock \in LockSteps /\ lock \notin PersistSteps /\ persists \in 0..2
    BY DEF Init, LockSteps, PersistSteps
  <2> QED  BY <2>1, <2>2, <2>3, <2>4 DEF EngineTypeInv, EngineTypeOK
<1>2. CallersTypeOK
  BY LimitsAssumption DEF Init, CallersTypeOK, OrderSteps
<1> QED
  BY <1>1, <1>2 DEF TypeInv

\* A new process, whatever part of the disk it finds.
LEMMA RestartTypes ==
    ASSUME NEW f, NEW m, f \subseteq Snapshot, m \in BOOLEAN, Restart(f, m),
           fileDur' \subseteq Snapshot, markerDur' \in BOOLEAN
    PROVE  TypeInv'
<1>1. /\ state' \in {"NORMAL", "EMERGENCY_HALT"}
      /\ hwm' \in Equities /\ dayStart' \in Equities /\ equity' \in Equities
      /\ perr' \in BOOLEAN
  BY EquitiesAssumption DEF Restart, Boot, Fresh, Snapshot
<1>2. EngineTypeInv'
  BY <1>1 DEF Restart, NoRequest, EngineTypeInv, EngineTypeOK, LockSteps, PersistSteps
<1>3. CallersTypeOK'
  BY LimitsAssumption DEF Restart, CallersTypeOK, OrderSteps
<1> QED
  BY <1>2, <1>3 DEF TypeInv

\* The steps that write the disk under the lock.
LEMMA DiskStepTypes ==
    ASSUME EngineTypeInv, PersistNext \/ RearmNext
    PROVE  EngineTypeInv'
<1>0. NoRequest \in [valid : BOOLEAN, clean : BOOLEAN]
  BY DEF NoRequest
<1>a. lock \in PersistSteps /\ PersistDone =>
        /\ lock' \in {"replace", "free"}
        /\ persists' \in 0..2
        /\ lock' = "replace" => persists' \in 1..2
  BY DEF EngineTypeInv, EngineTypeOK, PersistDone
<1> USE DEF EngineTypeInv, EngineTypeOK, LockSteps, RearmSteps, PersistSteps
<1>1. CASE PersistReplace
  <2>1. file' \subseteq Snapshot
    BY <1>1 DEF PersistReplace, Snapshot
  <2> QED  BY <1>1, <2>1 DEF PersistReplace
<1>2. CASE PersistSync
  BY <1>a, <1>2 DEF PersistSync, SyncDirectory
<1>3. CASE WriteMarker
  BY <1>a, <1>3 DEF WriteMarker, memVars
<1>4. CASE SyncMarker
  BY <1>a, <1>4 DEF SyncMarker, SyncDirectory, memVars
<1>5. CASE RearmAuth
  BY <1>0, <1>5 DEF RearmAuth, RearmReturns, memVars, diskVars
<1>6. CASE RemoveFile
  BY <1>0, <1>6 DEF RemoveFile, RearmAbort, RearmReturns
<1>7. CASE SyncRemoval
  BY <1>0, <1>7 DEF SyncRemoval, SyncDirectory, RearmAbort, RearmReturns
<1>8. CASE RemoveMarker
  BY <1>0, <1>8 DEF RemoveMarker, RearmAbort, RearmReturns
<1>9. CASE SyncMarkerRemoval
  BY <1>0, <1>9 DEF SyncMarkerRemoval, SyncDirectory, RearmAbort, RearmReturns
<1>10. CASE RearmComplete
  BY <1>0, <1>10 DEF RearmComplete, RearmReturns, diskVars
<1> QED
  BY <1>1, <1>2, <1>3, <1>4, <1>5, <1>6, <1>7, <1>8, <1>9, <1>10
     DEF PersistNext, RearmNext

\* The deque, the clock and the callers of validate_order.
LEMMA TickTypes ==
    ASSUME CallersTypeOK, Tick
    PROVE  CallersTypeOK'
<1>1. rate' \in Seq(0..RateWindow)
  <2>1. rate \in Seq(Nat) /\ DOMAIN rate = 1..Len(rate)
    BY LimitsAssumption DEF CallersTypeOK
  <2>2. \A i \in DOMAIN rate : Older(rate[i], RateWindow) \in 0..RateWindow
    BY LimitsAssumption DEF CallersTypeOK, Older
  <2>3. rate' \in [DOMAIN rate -> 0..RateWindow]
    BY <2>2 DEF Tick
  <2> QED  BY <2>1, <2>3, AgedType
<1>2. admitted' \in Seq(Nat)
  <2> DEFINE aged == [i \in DOMAIN admitted |-> admitted[i] + 1]
  <2>1. admitted \in Seq(Nat) /\ aged \in [DOMAIN admitted -> Nat]
    BY DEF CallersTypeOK
  <2>2. aged \in Seq(Nat)
    BY <2>1, AgedType
  <2> QED  BY <2>2, DropOldType DEF Tick
<1>3. hbAge' \in 0..(HeartbeatTimeout + 1)
  BY LimitsAssumption DEF Tick, Older, CallersTypeOK
<1> QED
  BY <1>1, <1>2, <1>3 DEF Tick, CallersTypeOK

LEMMA RateStepTypes ==
    ASSUME CallersTypeOK, NEW t \in Threads, ValidateOrderRate(t)
    PROVE  CallersTypeOK'
<1>1. Pruned \in Seq(0..RateWindow)
  BY DropOldType DEF Pruned, CallersTypeOK
<1>2. Append(Pruned, 0) \in Seq(0..RateWindow) /\ Append(admitted, 0) \in Seq(Nat)
  BY <1>1, LimitsAssumption DEF CallersTypeOK
<1>3. rate' \in Seq(0..RateWindow)
  BY <1>1, <1>2 DEF ValidateOrderRate, RateAfter, CallersTypeOK
<1>4. admitted' \in Seq(Nat)
  BY <1>2 DEF ValidateOrderRate, CallersTypeOK
<1>5. order' \in [Threads -> OrderSteps]
  BY DEF ValidateOrderRate, OrderSteps, CallersTypeOK
<1> QED
  BY <1>3, <1>4, <1>5 DEF ValidateOrderRate, CallersTypeOK

LEMMA NextTypes == TypeInv /\ [Next]_vars => TypeInv'
<1> SUFFICES ASSUME TypeInv, [Next]_vars PROVE TypeInv'
  OBVIOUS
<1>0. EngineTypeInv /\ CallersTypeOK
  BY DEF TypeInv
<1> DEFINE EngineFrame == UNCHANGED <<memVars, diskVars, lockVars>>
           CallersFrame == UNCHANGED <<timeVars, orderVars>>
<1>1. EngineFrame => EngineTypeInv'
  BY <1>0 DEF EngineTypeInv, EngineTypeOK, memVars, diskVars, lockVars
<1>2. CallersFrame => CallersTypeOK'
  BY <1>0 DEF CallersTypeOK, timeVars, orderVars
<1> HIDE DEF EngineFrame, CallersFrame
<1>3. CASE Tick
  BY <1>0, <1>1, <1>3, TickTypes DEF Tick, EngineFrame, TypeInv
<1>4. CASE RecordHeartbeat
  <2>1. CallersTypeOK'
    BY <1>0, <1>4, LimitsAssumption DEF RecordHeartbeat, CallersTypeOK, orderVars
  <2> QED  BY <1>1, <1>4, <2>1 DEF RecordHeartbeat, EngineFrame, TypeInv
<1>5. CASE ProcessCrash
  BY <1>0, <1>5, RestartTypes DEF ProcessCrash, EngineTypeInv, EngineTypeOK
<1>6. CASE PowerLoss
  <2>1. PICK f \in {file, fileDur}, m \in {marker, markerDur} :
           Restart(f, m) /\ fileDur' = f /\ markerDur' = m
    BY <1>6 DEF PowerLoss
  <2> QED  BY <1>0, <2>1, RestartTypes DEF EngineTypeInv, EngineTypeOK
<1>7. CASE TriggerEmergencyHalt \/ CheckWatchdog
  <2>1. EngineTypeInv'
    BY <1>0, <1>7 DEF TriggerEmergencyHalt, CheckWatchdog, Trip, EngineTypeInv,
       EngineTypeOK, LockSteps, PersistSteps, diskVars
  <2> QED
    BY <1>2, <1>7, <2>1 DEF TriggerEmergencyHalt, CheckWatchdog, CallersFrame, TypeInv
<1>8. ASSUME NEW e \in Equities, UpdateEquity(e) PROVE TypeInv'
  <2>1. EngineTypeInv'
    BY <1>0, <1>8 DEF UpdateEquity, Trip, EngineTypeInv, EngineTypeOK, LockSteps,
       PersistSteps, LockFree, diskVars
  <2> QED  BY <1>2, <1>8, <2>1 DEF UpdateEquity, CallersFrame, TypeInv
<1>9. ASSUME NEW e \in Equities, UpdateSessionOpenEquity(e) PROVE TypeInv'
  <2>1. EngineTypeInv'
    BY <1>0, <1>9 DEF UpdateSessionOpenEquity, EngineTypeInv, EngineTypeOK, diskVars, lockVars
  <2> QED  BY <1>2, <1>9, <2>1 DEF UpdateSessionOpenEquity, CallersFrame, TypeInv
<1>10. ASSUME NEW v \in BOOLEAN, NEW c \in BOOLEAN, RearmCall(v, c) PROVE TypeInv'
  <2>1. EngineTypeInv'
    BY <1>0, <1>10 DEF RearmCall, EngineTypeInv, EngineTypeOK, LockSteps, PersistSteps,
       memVars, diskVars
  <2> QED  BY <1>2, <1>10, <2>1 DEF RearmCall, CallersFrame, TypeInv
<1>11. CASE PersistNext
  <2>1. CallersTypeOK'
    BY <1>2, <1>11 DEF PersistNext, PersistReplace, PersistSync, WriteMarker, SyncMarker,
       CallersFrame
  <2> QED  BY <1>0, <1>11, <2>1, DiskStepTypes DEF TypeInv
<1>12. CASE RearmNext
  <2>1. CASE RearmComplete
    <3>1. CallersTypeOK'
      BY <1>0, <2>1, LimitsAssumption DEF RearmComplete, CallersTypeOK, orderVars
    <3> QED  BY <1>0, <1>12, <3>1, DiskStepTypes DEF TypeInv
  <2>2. CASE ~RearmComplete
    <3>1. CallersTypeOK'
      BY <1>2, <1>12, <2>2 DEF RearmNext, RearmAuth, RemoveFile, SyncRemoval, RemoveMarker,
         SyncMarkerRemoval, CallersFrame
    <3> QED  BY <1>0, <1>12, <3>1, DiskStepTypes DEF TypeInv
  <2> QED  BY <2>1, <2>2
<1>13. ASSUME NEW t \in Threads, NEW l \in BOOLEAN, ValidateOrderState(t, l) PROVE TypeInv'
  <2>1. CallersTypeOK'
    BY <1>0, <1>13 DEF ValidateOrderState, CallersTypeOK, OrderSteps, timeVars
  <2> QED  BY <1>1, <1>13, <2>1 DEF ValidateOrderState, EngineFrame, TypeInv
<1>14. ASSUME NEW t \in Threads, ValidateOrderRate(t) PROVE TypeInv'
  BY <1>0, <1>1, <1>14, RateStepTypes DEF ValidateOrderRate, EngineFrame, TypeInv
<1>15. ASSUME NEW t \in Threads, Dispatch(t) PROVE TypeInv'
  <2>1. CallersTypeOK'
    BY <1>0, <1>15 DEF Dispatch, CallersTypeOK, OrderSteps, timeVars
  <2> QED  BY <1>1, <1>15, <2>1 DEF Dispatch, EngineFrame, TypeInv
<1>16. CASE UNCHANGED vars
  BY <1>1, <1>2, <1>16 DEF vars, EngineFrame, CallersFrame, TypeInv
<1> QED
  BY <1>3, <1>4, <1>5, <1>6, <1>7, <1>8, <1>9, <1>10, <1>11, <1>12, <1>13, <1>14, <1>15,
     <1>16 DEF Next

\* Type correctness of the engine, its disk and its callers.
THEOREM TypeCorrect == Spec => []TypeOK
<1>1. Spec => []TypeInv
  BY InitialTypes, NextTypes, PTL DEF Spec
<1>2. TypeInv => TypeOK
  BY DEF TypeInv, EngineTypeInv, TypeOK
<1> QED
  BY <1>1, <1>2, PTL

-----------------------------------------------------------------------------
(***************************************************************************)
(* Equity: the peak is never under the current value, in memory or on the   *)
(* disk, and an engine that trades is within its drawdown limit.            *)
(***************************************************************************)

EquityInv ==
    /\ hwm >= equity
    /\ SnapshotsRestorable
    /\ NormalWithinDrawdown

LEMMA NoDrawdownAtPeak ==
    ASSUME NEW e \in Equities
    PROVE  ~DrawdownBreach(e, e)
<1>1. e \in Nat \ {0} /\ MaxDrawdownPct \in Nat \ {0}
  BY EquitiesAssumption, LimitsAssumption
<1>2. MaxDrawdownPct * e > 0
  BY <1>1
<1>3. (e - e) * 100 = 0
  BY <1>1
<1> QED
  BY <1>1, <1>2, <1>3 DEF DrawdownBreach

LEMMA RestartEquity ==
    ASSUME NEW f \in SUBSET Snapshot, NEW m, Restart(f, m), fileDur' \subseteq Snapshot,
           \A s \in f \cup fileDur' : s.hwm >= s.equity
    PROVE  EquityInv'
<1>1. InitialEquity \in Nat /\ ~DrawdownBreach(InitialEquity, InitialEquity)
  BY EquitiesAssumption, NoDrawdownAtPeak
<1>2. hwm' >= equity'
  BY <1>1 DEF Restart, Boot, Fresh
<1>3. NormalWithinDrawdown'
  BY <1>1 DEF Restart, Boot, Fresh, NormalWithinDrawdown
<1>4. SnapshotsRestorable'
  BY DEF Restart, SnapshotsRestorable
<1> QED
  BY <1>2, <1>3, <1>4 DEF EquityInv

LEMMA NextEquity == TypeInv /\ EquityInv /\ [Next]_vars => EquityInv'
<1> SUFFICES ASSUME TypeInv, EquityInv, [Next]_vars PROVE EquityInv'
  OBVIOUS
<1>0. EngineTypeOK
  BY DEF TypeInv, EngineTypeInv
<1> DEFINE Frame == UNCHANGED <<state, hwm, equity, file, fileDur>>
<1>1. Frame => EquityInv'
  BY DEF EquityInv, SnapshotsRestorable, NormalWithinDrawdown, DrawdownBreach
<1>2. ASSUME state' = "EMERGENCY_HALT", UNCHANGED <<hwm, equity, file, fileDur>>
      PROVE  EquityInv'
  BY <1>2 DEF EquityInv, SnapshotsRestorable, NormalWithinDrawdown
<1> HIDE DEF Frame
<1>3. CASE ProcessCrash
  BY <1>0, <1>3, RestartEquity DEF ProcessCrash, EngineTypeOK, EquityInv, SnapshotsRestorable
<1>4. CASE PowerLoss
  <2>1. PICK f \in {file, fileDur}, m \in {marker, markerDur} :
           Restart(f, m) /\ fileDur' = f /\ markerDur' = m
    BY <1>4 DEF PowerLoss
  <2> QED
    BY <1>0, <2>1, RestartEquity DEF EngineTypeOK, EquityInv, SnapshotsRestorable
<1>5. CASE TriggerEmergencyHalt \/ CheckWatchdog
  BY <1>2, <1>5 DEF TriggerEmergencyHalt, CheckWatchdog, Trip, diskVars
<1>6. ASSUME NEW e \in Equities, UpdateEquity(e) PROVE EquityInv'
  <2>1. /\ equity' = e /\ e \in Nat /\ hwm \in Nat
        /\ hwm' = (IF e > hwm THEN e ELSE hwm)
        /\ UNCHANGED <<file, fileDur>>
    BY <1>0, <1>6, EquitiesAssumption DEF UpdateEquity, EngineTypeOK, diskVars
  <2>2. hwm' >= equity'
    BY <2>1
  <2>3. SnapshotsRestorable'
    BY <2>1 DEF EquityInv, SnapshotsRestorable
  <2>4. NormalWithinDrawdown'
    <3>1. CASE DrawdownBreach(hwm', e)
      BY <1>6, <3>1 DEF UpdateEquity, Trip, NormalWithinDrawdown
    <3>2. CASE ~DrawdownBreach(hwm', e)
      BY <2>1, <3>2 DEF NormalWithinDrawdown
    <3> QED  BY <3>1, <3>2
  <2> QED  BY <2>2, <2>3, <2>4 DEF EquityInv
<1>7. CASE PersistReplace
  <2>1. UNCHANGED <<state, hwm, equity, fileDur>>
    BY <1>7 DEF PersistReplace
  <2>2. \A s \in file' : s \in file \/ s = [hwm |-> hwm, dayStart |-> dayStart, equity |-> equity]
    BY <1>7 DEF PersistReplace
  <2> QED
    BY <2>1, <2>2 DEF EquityInv, SnapshotsRestorable, NormalWithinDrawdown, DrawdownBreach
<1>8. CASE PersistSync \/ SyncMarker \/ SyncRemoval \/ SyncMarkerRemoval
  <2>1. UNCHANGED <<state, hwm, equity, file>> /\ fileDur' \subseteq file \cup fileDur
    BY <1>8 DEF PersistSync, SyncMarker, SyncRemoval, SyncMarkerRemoval, SyncDirectory, memVars
  <2> QED
    BY <2>1 DEF EquityInv, SnapshotsRestorable, NormalWithinDrawdown, DrawdownBreach
<1>9. CASE RemoveFile
  <2>1. UNCHANGED <<state, hwm, equity, fileDur>> /\ file' \subseteq file
    BY <1>9 DEF RemoveFile
  <2> QED
    BY <2>1 DEF EquityInv, SnapshotsRestorable, NormalWithinDrawdown, DrawdownBreach
<1>10. CASE RearmComplete
  <2>1. hwm' = equity /\ equity' = equity /\ UNCHANGED <<file, fileDur>>
    BY <1>10 DEF RearmComplete, diskVars
  <2>2. equity \in Nat /\ ~DrawdownBreach(equity, equity)
    BY <1>0, EquitiesAssumption, NoDrawdownAtPeak DEF EngineTypeOK
  <2> QED
    BY <2>1, <2>2 DEF EquityInv, SnapshotsRestorable, NormalWithinDrawdown
<1>11. CASE Tick \/ RecordHeartbeat \/ WriteMarker \/ RearmAuth \/ RemoveMarker
  BY <1>1, <1>11 DEF Tick, RecordHeartbeat, WriteMarker, RearmAuth, RemoveMarker, Frame,
     memVars, diskVars
<1>12. ASSUME NEW e \in Equities, UpdateSessionOpenEquity(e) PROVE EquityInv'
  BY <1>1, <1>12 DEF UpdateSessionOpenEquity, Frame, diskVars
<1>13. ASSUME NEW v \in BOOLEAN, NEW c \in BOOLEAN, RearmCall(v, c) PROVE EquityInv'
  BY <1>1, <1>13 DEF RearmCall, Frame, memVars, diskVars
<1>14. ASSUME NEW t \in Threads, NEW l \in BOOLEAN, ValidateOrderState(t, l) PROVE EquityInv'
  BY <1>1, <1>14 DEF ValidateOrderState, Frame, memVars, diskVars
<1>15. ASSUME NEW t \in Threads, ValidateOrderRate(t) \/ Dispatch(t) PROVE EquityInv'
  BY <1>1, <1>15 DEF ValidateOrderRate, Dispatch, Frame, memVars, diskVars
<1>16. CASE UNCHANGED vars
  BY <1>1, <1>16 DEF vars, memVars, diskVars, Frame
<1> QED
  BY <1>3, <1>4, <1>5, <1>6, <1>7, <1>8, <1>9, <1>10, <1>11, <1>12, <1>13, <1>14, <1>15,
     <1>16 DEF Next, PersistNext, RearmNext

LEMMA InitialEquityInv == Init => EquityInv
<1> SUFFICES ASSUME Init PROVE EquityInv
  OBVIOUS
<1>1. InitialEquity \in Nat /\ ~DrawdownBreach(InitialEquity, InitialEquity)
  BY EquitiesAssumption, NoDrawdownAtPeak
<1> QED
  BY <1>1 DEF Init, EquityInv, SnapshotsRestorable, NormalWithinDrawdown

\* Whatever marks, halts, crashes, power losses and re-arms happen, an engine
\* that is trading is within its drawdown limit.
THEOREM TradingWithinDrawdown == Spec => []NormalWithinDrawdown
<1>1. Spec => [](TypeInv /\ EquityInv)
  BY InitialTypes, NextTypes, InitialEquityInv, NextEquity, PTL DEF Spec
<1>2. EquityInv => NormalWithinDrawdown
  BY DEF EquityInv
<1> QED
  BY <1>1, <1>2, PTL

\* No halt the engine recorded is refused by its own restore.
THEOREM SnapshotsAlwaysRestorable == Spec => []SnapshotsRestorable
<1>1. Spec => [](TypeInv /\ EquityInv)
  BY InitialTypes, NextTypes, InitialEquityInv, NextEquity, PTL DEF Spec
<1>2. EquityInv => SnapshotsRestorable
  BY DEF EquityInv
<1> QED
  BY <1>1, <1>2, PTL

-----------------------------------------------------------------------------
(***************************************************************************)
(* The halt on the disk.  What must be true between the steps of an         *)
(* operation for HaltOnDisk to hold when the lock is free: a step that has   *)
(* lost the halt on the disk has either set the persistence error or is on   *)
(* its way to NORMAL.                                                        *)
(***************************************************************************)

DiskInv ==
    /\ state = "NORMAL" =>
          file = {} /\ ~marker /\ lock \in {"free", "auth", "rmfile", "rmmarker", "complete"}
    /\ lock \in {"marker", "markersync"} => perr
    /\ lock = "sync" => file # {}
    /\ lock \in RearmSteps \ {"rmfile"} => file = {}
    /\ lock \in {"rmmarkersync", "complete"} => ~marker
    /\ Halted /\ ~perr /\ lock \in {"free", "auth", "rmfile"} => RestartHalts
    /\ lock \in RearmSteps => rearm.valid /\ rearm.clean

LEMMA InitialDisk == Init => DiskInv
BY DEF Init, DiskInv, RearmSteps, Halted, RestartHalts

LEMMA RestartDisk ==
    ASSUME NEW f, NEW m \in BOOLEAN, Restart(f, m)
    PROVE  DiskInv'
<1>1. lock' = "free" /\ file' = f /\ marker' = m
  BY DEF Restart
<1>2. state' = "NORMAL" => file' = {} /\ ~marker'
  BY DEF Restart, Boot, Fresh
<1>3. state' = "EMERGENCY_HALT" => RequireEstablished \/ marker' \/ file' # {}
  BY DEF Restart, Boot, Fresh
<1> QED
  BY <1>1, <1>2, <1>3 DEF DiskInv, RearmSteps, Halted, RestartHalts

LEMMA NextDisk == TypeInv /\ DiskInv /\ [Next]_vars => DiskInv'
<1> SUFFICES ASSUME TypeInv, DiskInv, [Next]_vars PROVE DiskInv'
  OBVIOUS
<1>0. EngineTypeInv
  BY DEF TypeInv
<1> DEFINE Frame == UNCHANGED <<state, perr, lock, file, marker, rearm>>
<1>1. Frame => DiskInv'
  BY DEF DiskInv, Halted, RestartHalts
<1>2. ASSUME lock' = "replace", state' = "EMERGENCY_HALT" PROVE DiskInv'
  BY <1>2 DEF DiskInv, RearmSteps
<1> HIDE DEF Frame
<1>3. CASE ProcessCrash
  BY <1>0, <1>3, RestartDisk DEF ProcessCrash, EngineTypeInv, EngineTypeOK
<1>4. CASE PowerLoss
  BY <1>0, <1>4, RestartDisk DEF PowerLoss, EngineTypeInv, EngineTypeOK
<1>5. CASE TriggerEmergencyHalt \/ CheckWatchdog
  BY <1>2, <1>5 DEF TriggerEmergencyHalt, CheckWatchdog, Trip
<1>6. ASSUME NEW e \in Equities, UpdateEquity(e) PROVE DiskInv'
  <2>1. CASE state' = "EMERGENCY_HALT" /\ lock' = "replace"
    BY <1>2, <2>1
  <2>2. CASE UNCHANGED <<state, lock>>
    BY <1>1, <1>6, <2>2 DEF UpdateEquity, Frame, diskVars
  <2> QED  BY <1>6, <2>1, <2>2 DEF UpdateEquity, Trip
<1>7. CASE PersistReplace
  BY <1>0, <1>7 DEF PersistReplace, DiskInv, RearmSteps, Halted, EngineTypeInv, EngineTypeOK
<1>8. CASE PersistSync
  BY <1>0, <1>8 DEF PersistSync, PersistDone, DiskInv, RearmSteps, Halted, RestartHalts,
     EngineTypeInv, EngineTypeOK
<1>9. CASE WriteMarker \/ SyncMarker
  BY <1>0, <1>9 DEF WriteMarker, SyncMarker, PersistDone, DiskInv, RearmSteps, Halted,
     memVars, EngineTypeInv, EngineTypeOK
<1>10. CASE RearmAuth
  BY <1>10 DEF RearmAuth, RearmReturns, DiskInv, RearmSteps, Halted, RestartHalts, memVars,
     diskVars
<1>11. CASE RemoveFile
  BY <1>11 DEF RemoveFile, RearmAbort, RearmReturns, DiskInv, RearmSteps, Halted, RestartHalts
<1>12. CASE SyncRemoval
  BY <1>12 DEF SyncRemoval, RearmAbort, RearmReturns, DiskInv, RearmSteps, Halted
<1>13. CASE RemoveMarker
  BY <1>13 DEF RemoveMarker, RearmAbort, RearmReturns, DiskInv, RearmSteps, Halted
<1>14. CASE SyncMarkerRemoval
  BY <1>14 DEF SyncMarkerRemoval, RearmAbort, RearmReturns, DiskInv, RearmSteps, Halted
<1>15. CASE RearmComplete
  BY <1>15 DEF RearmComplete, RearmReturns, DiskInv, RearmSteps, Halted, diskVars
<1>16. CASE Tick \/ RecordHeartbeat
  BY <1>1, <1>16 DEF Tick, RecordHeartbeat, Frame, memVars, diskVars, lockVars
<1>17. ASSUME NEW e \in Equities, UpdateSessionOpenEquity(e) PROVE DiskInv'
  BY <1>0, <1>1, <1>17 DEF UpdateSessionOpenEquity, Frame, diskVars, lockVars
<1>18. ASSUME NEW v \in BOOLEAN, NEW c \in BOOLEAN, RearmCall(v, c) PROVE DiskInv'
  BY <1>18 DEF RearmCall, DiskInv, RearmSteps, LockFree, Halted, RestartHalts, memVars,
     diskVars
<1>19. ASSUME NEW t \in Threads, NEW l \in BOOLEAN, ValidateOrderState(t, l) PROVE DiskInv'
  BY <1>1, <1>19 DEF ValidateOrderState, Frame, memVars, diskVars, lockVars
<1>20. ASSUME NEW t \in Threads, ValidateOrderRate(t) \/ Dispatch(t) PROVE DiskInv'
  BY <1>1, <1>20 DEF ValidateOrderRate, Dispatch, Frame, memVars, diskVars, lockVars
<1>21. CASE UNCHANGED vars
  BY <1>1, <1>21 DEF vars, memVars, diskVars, lockVars, Frame
<1> QED
  BY <1>3, <1>4, <1>5, <1>6, <1>7, <1>8, <1>9, <1>10, <1>11, <1>12, <1>13, <1>14, <1>15,
     <1>16, <1>17, <1>18, <1>19, <1>20, <1>21 DEF Next, PersistNext, RearmNext

LEMMA DiskInvariant == Spec => [](TypeInv /\ DiskInv)
BY InitialTypes, NextTypes, InitialDisk, NextDisk, PTL DEF Spec

\* A visible halt without a persistence error is on the disk, whichever calls
\* of the file system failed, and in whatever order, before.
THEOREM HaltsAreOnDisk == Spec => []HaltOnDisk
<1>1. DiskInv => HaltOnDisk
  BY DEF DiskInv, HaltOnDisk, LockFree
<1> QED
  BY <1>1, DiskInvariant, PTL

\* An engine that trades has left no halt behind for a restart to resurrect.
THEOREM TradingLeavesNoHalt == Spec => []NormalLeavesNoHalt
<1>1. DiskInv => NormalLeavesNoHalt
  BY DEF DiskInv, NormalLeavesNoHalt
<1> QED
  BY <1>1, DiskInvariant, PTL

\* One step never clears a halt except the last one of an authorised re-arm, or
\* a restart after a halt that was not recorded.
THEOREM HaltsLeftOnlyByRearm == Spec => HaltLeftOnlyByRearm
<1> DEFINE A == Halted /\ ~Halted' =>
                  \/ AcceptedRearm /\ (RequireEstablished => lock = "complete")
                  \/ ~RequireEstablished /\ lock \notin RearmSteps /\ Unrecorded
<1>1. TypeInv /\ TypeInv' /\ DiskInv /\ [Next]_vars => A
  <2> SUFFICES ASSUME TypeInv, TypeInv', DiskInv, [Next]_vars, Halted, ~Halted'
               PROVE  A
    OBVIOUS
  <2>0. EngineTypeOK /\ EngineTypeOK'
    BY DEF TypeInv, EngineTypeInv
  <2>1. state = "EMERGENCY_HALT" /\ state' = "NORMAL"
    BY <2>0 DEF Halted, EngineTypeOK
  <2>2. CASE RearmComplete
    BY <2>2 DEF RearmComplete, DiskInv, RearmSteps, AcceptedRearm
  <2>3. CASE ProcessCrash
    <3>1. file = {} /\ ~marker /\ ~RequireEstablished
      BY <2>1, <2>3 DEF ProcessCrash, Restart, Boot, Fresh
    <3>2. lock \in {"free", "auth"} => perr
      BY <2>1, <3>1 DEF DiskInv, RestartHalts, Halted
    <3> QED
      BY <2>0, <3>1, <3>2
         DEF DiskInv, EngineTypeOK, LockSteps, AcceptedRearm, Unrecorded
  <2>4. CASE PowerLoss
    <3>1. PICK f \in {file, fileDur}, m \in {marker, markerDur} : Restart(f, m)
      BY <2>4 DEF PowerLoss
    <3>2. f = {} /\ ~m /\ ~RequireEstablished
      BY <2>1, <3>1 DEF Restart, Boot, Fresh
    <3>3. lock \in {"free", "auth"} => perr \/ f # file \/ m # marker
      BY <2>1, <3>2 DEF DiskInv, RestartHalts, Halted
    <3> QED
      BY <2>0, <3>1, <3>2, <3>3
         DEF DiskInv, EngineTypeOK, LockSteps, AcceptedRearm, Unrecorded
  <2>5. CASE \/ Tick \/ RecordHeartbeat \/ TriggerEmergencyHalt \/ CheckWatchdog
             \/ PersistNext \/ (RearmNext /\ ~RearmComplete) \/ UNCHANGED vars
    BY <2>1, <2>5 DEF Tick, RecordHeartbeat, TriggerEmergencyHalt, CheckWatchdog, Trip,
       PersistNext, PersistReplace, PersistSync, WriteMarker, SyncMarker, RearmNext,
       RearmAuth, RemoveFile, SyncRemoval, RemoveMarker, SyncMarkerRemoval, memVars, vars
  <2>6. ASSUME NEW e \in Equities, UpdateEquity(e) \/ UpdateSessionOpenEquity(e) PROVE A
    BY <2>1, <2>6 DEF UpdateEquity, UpdateSessionOpenEquity, Trip
  <2>7. ASSUME NEW v \in BOOLEAN, NEW c \in BOOLEAN, RearmCall(v, c) PROVE A
    BY <2>1, <2>7 DEF RearmCall, memVars
  <2>8. ASSUME NEW t \in Threads, NEW l \in BOOLEAN,
               ValidateOrderState(t, l) \/ ValidateOrderRate(t) \/ Dispatch(t)
        PROVE  A
    BY <2>1, <2>8 DEF ValidateOrderState, ValidateOrderRate, Dispatch, memVars
  <2> QED
    BY <2>2, <2>3, <2>4, <2>5, <2>6, <2>7, <2>8 DEF Next
<1>2. Spec => [][Next]_vars
  BY DEF Spec
<1>3. Spec => [][A]_vars
  BY <1>1, <1>2, DiskInvariant, PTL
<1> QED
  BY <1>3 DEF HaltLeftOnlyByRearm

-----------------------------------------------------------------------------
(***************************************************************************)
(* The rate limiter.  The deque is pruned by the next call only, so it      *)
(* holds more than the orders of the last second; what a call would leave   *)
(* of it is exactly those.                                                  *)
(***************************************************************************)

\* The oldest age is first.
OldestFirst(s) == \A i, j \in 1..Len(s) : i <= j => s[j] <= s[i]

\* k entries of s are out of the window.
OutOfWindow(s, k) == k \in 0..Len(s) /\ \A i \in 1..Len(s) : i <= k <=> s[i] >= RateWindow

\* Popping the head while it is old drops all that is old.
LEMMA DropOldIs ==
    ASSUME NEW s \in Seq(Nat), NEW k \in Nat, OutOfWindow(s, k)
    PROVE  /\ DropOld(s) \in Seq(Nat) /\ Len(DropOld(s)) = Len(s) - k
           /\ \A i \in 1..(Len(s) - k) : DropOld(s)[i] = s[k + i]
<1>1. k \in Nat /\ k <= Len(s) /\ Len(s) \in Nat /\ DOMAIN s = 1..Len(s)
  BY DEF OutOfWindow
<1>2. {i \in DOMAIN s : s[i] >= RateWindow} = 1..k
  BY <1>1 DEF OutOfWindow
<1>3. Cardinality(1..k) = k
  BY <1>1, FS_Interval
<1>4. DropOld(s) = SubSeq(s, k + 1, Len(s))
  BY <1>2, <1>3 DEF DropOld
<1>5. \A i \in (k + 1)..Len(s) : s[i] \in Nat
  BY <1>1
<1>6. /\ DropOld(s) \in Seq(Nat)
      /\ Len(DropOld(s)) = IF k + 1 <= Len(s) THEN Len(s) - (k + 1) + 1 ELSE 0
      /\ \A i \in 1..(Len(s) - (k + 1) + 1) : DropOld(s)[i] = s[k + 1 + i - 1]
  BY <1>1, <1>4, <1>5, SubSeqProperties
<1>7. ASSUME NEW i \in 1..(Len(s) - k) PROVE DropOld(s)[i] = s[k + i]
  <2>1. i \in 1..(Len(s) - (k + 1) + 1) /\ k + 1 + i - 1 = k + i
    BY <1>1, <1>7
  <2> QED
    BY <1>6, <2>1
<1>8. Len(DropOld(s)) = Len(s) - k
  <2>1. k \in Nat /\ Len(s) \in Nat /\ k <= Len(s)
    BY <1>1
  <2>2. k + 1 <= Len(s) \/ k = Len(s)
    BY <2>1
  <2>3. Len(DropOld(s)) = IF k + 1 <= Len(s) THEN Len(s) - (k + 1) + 1 ELSE 0
    BY <1>6
  <2> QED
    BY <2>1, <2>2, <2>3
<1>9. DropOld(s) \in Seq(Nat)
  BY <1>6
<1> QED
  BY <1>7, <1>8, <1>9

\* In a deque with the oldest first, the old entries are the first ones.
LEMMA OutOfWindowExists ==
    ASSUME NEW s \in Seq(Nat), OldestFirst(s)
    PROVE  \E k \in Nat : OutOfWindow(s, k)
<1> DEFINE old == {i \in 1..Len(s) : s[i] >= RateWindow}
           k == Cardinality(old)
<1>1. Len(s) \in Nat /\ \A i \in 1..Len(s) : s[i] \in Nat
  OBVIOUS
<1>2. IsFiniteSet(1..Len(s)) /\ Cardinality(1..Len(s)) = Len(s)
  BY <1>1, FS_Interval
<1>3. IsFiniteSet(old) /\ k \in Nat /\ k <= Len(s)
  BY <1>1, <1>2, FS_Subset, FS_CardinalityType
<1>4. ASSUME NEW i \in old PROVE i <= k
  <2>1. 1..i \subseteq old
    BY <1>1, <1>4, LimitsAssumption DEF OldestFirst
  <2>2. Cardinality(1..i) = i
    BY <1>1, <1>4, FS_Interval
  <2> QED
    BY <1>1, <1>3, <2>1, <2>2, FS_Subset
<1>5. ASSUME NEW i \in 1..Len(s), i \notin old PROVE i > k
  <2>1. old \subseteq 1..(i - 1)
    BY <1>1, <1>5, LimitsAssumption DEF OldestFirst
  <2>2. IsFiniteSet(1..(i - 1)) /\ Cardinality(1..(i - 1)) = i - 1
    <3>1. i - 1 \in Int /\ i - 1 >= 0
      BY <1>1, <1>5
    <3>2. Cardinality(1..(i - 1)) = IF 1 > i - 1 THEN 0 ELSE (i - 1) - 1 + 1
      BY <3>1, FS_Interval
    <3>3. IsFiniteSet(1..(i - 1))
      BY <3>1, FS_Interval
    <3> QED
      BY <3>1, <3>2, <3>3
  <2>3. k <= i - 1
    BY <2>1, <2>2, FS_Subset
  <2> QED
    BY <1>1, <1>3, <2>3
<1>6. OutOfWindow(s, k)
  <2> HIDE DEF k
  <2> QED
    BY <1>1, <1>3, <1>4, <1>5, LimitsAssumption DEF OutOfWindow
<1> QED
  BY <1>3, <1>6

\* The orders let through under RateWindow ago are what a call would leave of the deque.
RateInv ==
    /\ Len(rate) <= MaxOrderRate
    /\ OldestFirst(rate)
    /\ admitted = Pruned

\* Pruning a deque leaves no old entry, the oldest first.
LEMMA PrunedDeque ==
    ASSUME NEW s \in Seq(Nat), OldestFirst(s)
    PROVE  /\ DropOld(s) \in Seq(Nat) /\ Len(DropOld(s)) <= Len(s)
           /\ OldestFirst(DropOld(s))
           /\ \A i \in 1..Len(DropOld(s)) : DropOld(s)[i] < RateWindow
<1>1. PICK k \in Nat : OutOfWindow(s, k)
  BY OutOfWindowExists
<1>2. /\ DropOld(s) \in Seq(Nat) /\ Len(DropOld(s)) = Len(s) - k
      /\ \A i \in 1..(Len(s) - k) : DropOld(s)[i] = s[k + i]
  BY <1>1, DropOldIs
<1>3. Len(s) \in Nat /\ k <= Len(s) /\ \A i \in 1..Len(s) : s[i] \in Nat
  BY <1>1 DEF OutOfWindow
<1>4. ASSUME NEW i \in 1..(Len(s) - k) PROVE DropOld(s)[i] < RateWindow
  <2>1. k + i \in 1..Len(s) /\ ~(k + i <= k)
    BY <1>3, <1>4
  <2>2. s[k + i] < RateWindow
    BY <1>1, <1>3, <2>1, LimitsAssumption DEF OutOfWindow
  <2> QED
    BY <1>2, <2>2
<1>5. OldestFirst(DropOld(s))
  <2>1. ASSUME NEW i \in 1..(Len(s) - k), NEW j \in 1..(Len(s) - k), i <= j
        PROVE  DropOld(s)[j] <= DropOld(s)[i]
    <3>1. k + i \in 1..Len(s) /\ k + j \in 1..Len(s) /\ k + i <= k + j
      BY <1>3, <2>1
    <3> QED
      BY <1>2, <3>1 DEF OldestFirst
  <2> QED
    BY <1>2, <2>1 DEF OldestFirst
<1> QED
  BY <1>2, <1>3, <1>4, <1>5

\* A deque without old entries is left alone.
LEMMA NothingToPrune ==
    ASSUME NEW s \in Seq(Nat), \A i \in 1..Len(s) : s[i] < RateWindow
    PROVE  DropOld(s) = s
<1>1. OutOfWindow(s, 0)
  BY LimitsAssumption DEF OutOfWindow
<1>2. /\ DropOld(s) \in Seq(Nat) /\ Len(DropOld(s)) = Len(s)
      /\ \A i \in 1..Len(s) : DropOld(s)[i] = s[i]
  BY <1>1, DropOldIs
<1> QED
  BY <1>2, SeqEqual

\* Nor is an empty one changed.
LEMMA EmptyDeque == DropOld(<<>>) = <<>>
<1> DEFINE s == <<>>
<1>1. s \in Seq(Nat) /\ \A i \in 1..Len(s) : s[i] < RateWindow
  OBVIOUS
<1> HIDE DEF s
<1>2. DropOld(s) = s
  BY <1>1, NothingToPrune
<1> QED
  BY <1>2 DEF s

\* A call that is refused prunes the deque or leaves it alone; one that gets a token adds
\* it to both.
LEMMA RateStepRate ==
    ASSUME CallersTypeOK, RateInv, NEW t \in Threads, ValidateOrderRate(t)
    PROVE  RateInv'
<1> DEFINE p == Pruned
<1>1. rate \in Seq(Nat)
  BY LimitsAssumption DEF CallersTypeOK
<1>2. /\ p \in Seq(Nat) /\ Len(p) <= Len(rate) /\ OldestFirst(p)
      /\ \A i \in 1..Len(p) : p[i] < RateWindow
  BY <1>1, PrunedDeque DEF RateInv, Pruned
<1>3. DropOld(p) = p
  BY <1>2, NothingToPrune
<1>4. CASE TakesToken(order[t] = "liq")
  <2>1. rate' = Append(p, 0) /\ admitted' = Append(admitted, 0)
    BY <1>4 DEF ValidateOrderRate, RateAfter, TakesToken
  <2>2. /\ Append(p, 0) \in Seq(Nat) /\ Len(Append(p, 0)) = Len(p) + 1
        /\ \A i \in 1..Len(p) : Append(p, 0)[i] = p[i]
        /\ Append(p, 0)[Len(p) + 1] = 0
    BY <1>2, AppendProperties
  <2>3. Len(p) < MaxOrderRate /\ Len(p) \in Nat
    BY <1>2, <1>4 DEF TakesToken
  <2>4. OldestFirst(Append(p, 0)) /\ \A i \in 1..(Len(p) + 1) : Append(p, 0)[i] < RateWindow
    <3> HIDE DEF p
    <3> QED
      BY <1>2, <2>2, <2>3, LimitsAssumption DEF OldestFirst
  <2>5. DropOld(Append(p, 0)) = Append(p, 0)
    BY <2>2, <2>4, NothingToPrune
  <2>6. admitted' = Pruned'
    BY <2>1, <2>5 DEF RateInv, Pruned
  <2>7. Len(rate') <= MaxOrderRate
    BY <2>1, <2>2, <2>3, LimitsAssumption
  <2> QED
    BY <2>1, <2>4, <2>6, <2>7 DEF RateInv
<1>5. CASE ~TakesToken(order[t] = "liq")
  <2>1. rate' \in {rate, p} /\ admitted' = p
    BY <1>5 DEF ValidateOrderRate, RateAfter, RateInv
  <2>2. DropOld(rate') = p
    BY <1>3, <2>1 DEF Pruned
  <2>3. Len(rate') <= MaxOrderRate /\ OldestFirst(rate')
    BY <1>1, <1>2, <2>1, LimitsAssumption DEF RateInv
  <2> QED
    BY <2>1, <2>2, <2>3 DEF RateInv, Pruned
<1> QED
  BY <1>4, <1>5

\* A tick takes the same orders out of the window in both.
LEMMA TickRate ==
    ASSUME CallersTypeOK, RateInv, Tick
    PROVE  RateInv'
<1> DEFINE n == Len(rate)
           aged == [i \in DOMAIN admitted |-> admitted[i] + 1]
<1>1. /\ rate \in Seq(Nat) /\ n \in Nat /\ DOMAIN rate = 1..n
      /\ \A i \in 1..n : rate[i] \in 0..RateWindow
  BY LimitsAssumption DEF CallersTypeOK
<1>2. /\ rate' \in Seq(Nat) /\ Len(rate') = n
      /\ \A i \in 1..n : rate'[i] = IF rate[i] < RateWindow THEN rate[i] + 1 ELSE RateWindow
  <2>1. rate' = [i \in 1..n |-> Older(rate[i], RateWindow)]
    BY <1>1 DEF Tick
  <2>2. rate' \in [1..n -> Nat]
    BY <1>1, <2>1, LimitsAssumption DEF Older
  <2>3. rate' \in Seq(Nat)
    BY <1>1, <2>2, SeqDef
  <2> QED
    BY <1>1, <2>1, <2>3 DEF Older
<1>3. OldestFirst(rate')
  <2>1. ASSUME NEW i \in 1..n, NEW j \in 1..n, i <= j PROVE rate'[j] <= rate'[i]
    <3>1. rate[j] <= rate[i] /\ rate[i] \in 0..RateWindow /\ rate[j] \in 0..RateWindow
      BY <1>1, <2>1 DEF RateInv, OldestFirst
    <3> QED
      BY <1>2, <2>1, <3>1, LimitsAssumption
  <2> QED
    BY <1>2, <2>1 DEF OldestFirst
<1>4. PICK k \in Nat : OutOfWindow(rate, k)
  BY <1>1, OutOfWindowExists DEF RateInv
<1>5. PICK l \in Nat : OutOfWindow(rate', l)
  BY <1>2, <1>3, OutOfWindowExists
<1>6. k <= n /\ l <= n /\ k <= l
  <2>1. k <= n /\ l <= n
    BY <1>1, <1>2, <1>4, <1>5 DEF OutOfWindow
  <2>2. k > 0 => rate'[k] >= RateWindow
    BY <1>1, <1>2, <1>4, <2>1, LimitsAssumption DEF OutOfWindow
  <2> QED
    BY <1>2, <1>5, <2>1, <2>2 DEF OutOfWindow
<1>7. /\ admitted \in Seq(Nat) /\ Len(admitted) = n - k
      /\ \A i \in 1..(n - k) : admitted[i] = rate[k + i]
  BY <1>1, <1>4, DropOldIs DEF RateInv, Pruned
<1>8. /\ aged \in Seq(Nat) /\ Len(aged) = n - k
      /\ \A i \in 1..(n - k) : aged[i] = rate[k + i] + 1
  <2>1. DOMAIN admitted = 1..(n - k) /\ \A i \in 1..(n - k) : admitted[i] \in Nat
    BY <1>1, <1>6, <1>7
  <2>2. aged \in [1..(n - k) -> Nat]
    BY <2>1
  <2>3. aged \in Seq(Nat)
    BY <1>1, <1>6, <2>2, SeqDef
  <2> QED
    BY <1>1, <1>6, <1>7, <2>1, <2>2, <2>3
<1> HIDE DEF aged, n
<1>9. OutOfWindow(aged, l - k)
  <2>1. ASSUME NEW i \in 1..(n - k) PROVE i <= l - k <=> aged[i] >= RateWindow
    <3>1. k + i \in 1..n /\ ~(k + i <= k)
      BY <1>1, <1>6, <2>1
    <3>2. rate[k + i] < RateWindow
      BY <1>1, <1>4, <3>1, LimitsAssumption DEF OutOfWindow, n
    <3>3. rate'[k + i] = rate[k + i] + 1
      BY <1>2, <3>1, <3>2
    <3>4. k + i <= l <=> rate'[k + i] >= RateWindow
      BY <1>2, <1>5, <3>1 DEF OutOfWindow
    <3> QED
      BY <1>6, <1>8, <2>1, <3>3, <3>4
  <2> QED
    BY <1>1, <1>6, <1>8, <2>1 DEF OutOfWindow
<1>10. DropOld(aged) = DropOld(rate')
  <2>1. /\ DropOld(aged) \in Seq(Nat) /\ Len(DropOld(aged)) = (n - k) - (l - k)
        /\ \A i \in 1..((n - k) - (l - k)) : DropOld(aged)[i] = aged[(l - k) + i]
    <3>1. l - k \in Nat
      BY <1>6
    <3> QED
      BY <1>8, <1>9, <3>1, DropOldIs
  <2>2. /\ DropOld(rate') \in Seq(Nat) /\ Len(DropOld(rate')) = n - l
        /\ \A i \in 1..(n - l) : DropOld(rate')[i] = rate'[l + i]
    BY <1>2, <1>5, DropOldIs
  <2>3. ASSUME NEW i \in 1..(n - l) PROVE aged[(l - k) + i] = rate'[l + i]
    <3>1. (l - k) + i \in 1..(n - k) /\ k + ((l - k) + i) = l + i /\ l + i \in 1..n
          /\ ~(l + i <= k)
      BY <1>1, <1>6, <2>3
    <3>2. aged[(l - k) + i] = rate[l + i] + 1
      BY <1>8, <3>1
    <3>3. rate[l + i] < RateWindow
      BY <1>1, <1>4, <3>1, LimitsAssumption DEF OutOfWindow, n
    <3> QED
      BY <1>2, <3>1, <3>2, <3>3
  <2>4. (n - k) - (l - k) = n - l
    BY <1>1, <1>6
  <2> QED
    BY <2>1, <2>2, <2>3, <2>4, SeqEqual
<1>11. admitted' = DropOld(aged)
  BY DEF Tick, aged
<1> QED
  BY <1>2, <1>3, <1>10, <1>11 DEF RateInv, Pruned, n

\* The rest of the engine leaves the deque alone or starts with an empty one.
LEMMA NextRate ==
    ASSUME TypeInv, RateInv, [Next]_vars
    PROVE  RateInv'
<1>1. CASE UNCHANGED <<rate, admitted>>
  BY <1>1 DEF RateInv, Pruned
<1>2. CASE rate' = <<>> /\ admitted' = <<>>
  <2>1. DropOld(<<>>) = <<>>
    BY EmptyDeque
  <2> QED
    BY <1>2, <2>1, LimitsAssumption DEF RateInv, Pruned, OldestFirst
<1>3. CASE Tick
  BY <1>3, TickRate DEF TypeInv
<1>4. ASSUME NEW t \in Threads, ValidateOrderRate(t) PROVE RateInv'
  BY <1>4, RateStepRate DEF TypeInv
<1>5. CASE ProcessCrash \/ PowerLoss
  BY <1>2, <1>5 DEF ProcessCrash, PowerLoss, Restart
<1>6. CASE RecordHeartbeat \/ TriggerEmergencyHalt \/ CheckWatchdog \/ UNCHANGED vars
  BY <1>1, <1>6 DEF RecordHeartbeat, TriggerEmergencyHalt, CheckWatchdog, vars, timeVars,
     orderVars
<1>7. CASE PersistNext \/ RearmNext
  BY <1>1, <1>7 DEF PersistNext, PersistReplace, PersistSync, WriteMarker, SyncMarker,
     RearmNext, RearmAuth, RemoveFile, SyncRemoval, RemoveMarker, SyncMarkerRemoval,
     RearmComplete, timeVars, orderVars
<1>8. ASSUME NEW e \in Equities, UpdateEquity(e) \/ UpdateSessionOpenEquity(e) PROVE RateInv'
  BY <1>1, <1>8 DEF UpdateEquity, UpdateSessionOpenEquity, timeVars, orderVars
<1>9. ASSUME NEW v \in BOOLEAN, NEW c \in BOOLEAN, RearmCall(v, c) PROVE RateInv'
  BY <1>1, <1>9 DEF RearmCall, timeVars, orderVars
<1>10. ASSUME NEW t \in Threads, NEW l \in BOOLEAN, ValidateOrderState(t, l) \/ Dispatch(t)
       PROVE  RateInv'
  BY <1>1, <1>10 DEF ValidateOrderState, Dispatch, timeVars
<1> QED
  BY <1>3, <1>4, <1>5, <1>6, <1>7, <1>8, <1>9, <1>10 DEF Next

\* However lazily the deque is pruned, and whatever calls are refused in between, no
\* window of RateWindow ticks sees more than MaxOrderRate orders.
THEOREM RateWindowIsRespected == Spec => []RateWindowRespected
<1>1. Init => RateInv
  <2>1. DropOld(<<>>) = <<>>
    BY EmptyDeque
  <2> QED
    BY <2>1, LimitsAssumption DEF Init, RateInv, Pruned, OldestFirst
<1>2. Spec => [](TypeInv /\ RateInv)
  BY <1>1, InitialTypes, NextTypes, NextRate, PTL DEF Spec
<1>3. TypeInv /\ RateInv => RateWindowRespected
  <2> SUFFICES ASSUME TypeInv, RateInv PROVE RateWindowRespected
    OBVIOUS
  <2>1. rate \in Seq(Nat)
    BY LimitsAssumption DEF TypeInv, CallersTypeOK
  <2>2. Len(Pruned) <= Len(rate) /\ Pruned \in Seq(Nat)
    BY <2>1, PrunedDeque DEF RateInv, Pruned
  <2> QED
    BY <2>1, <2>2, LimitsAssumption DEF RateInv, RateWindowRespected
<1> QED
  BY <1>2, <1>3, PTL

-----------------------------------------------------------------------------
(***************************************************************************)
(* Refinement.                                                              *)
(***************************************************************************)

LEMMA StepsOfTheLatch ==
    ASSUME RequireEstablished, TypeInv, DiskInv, [Next]_vars
    PROVE  [Latch!Next]_(Latch!latchVars)
<1>0. EngineTypeOK
  BY DEF TypeInv, EngineTypeInv
<1> DEFINE Stutter == UNCHANGED <<Halted, lock \in RearmSteps>>
<1> USE DEF Latch!Next, Latch!latchVars
<1>1. ASSUME NEW f, NEW m, Restart(f, m) PROVE Latch!Reboot
  <2>1. state' = "EMERGENCY_HALT" /\ lock' = "free"
    BY <1>1 DEF Restart, Boot, Fresh
  <2> QED  BY <2>1 DEF Latch!Reboot, Halted, RearmSteps
<1>2. CASE ProcessCrash \/ PowerLoss
  BY <1>1, <1>2 DEF ProcessCrash, PowerLoss
<1>3. ASSUME state' = "EMERGENCY_HALT", lock = "free", lock' = "replace" PROVE Latch!Halt
  BY <1>3 DEF Latch!Halt, Halted, RearmSteps
<1>4. CASE TriggerEmergencyHalt \/ CheckWatchdog
  BY <1>3, <1>4 DEF TriggerEmergencyHalt, CheckWatchdog, Trip, LockFree
<1>5. ASSUME NEW e \in Equities, UpdateEquity(e) PROVE [Latch!Next]_(Latch!latchVars)
  <2>1. CASE UNCHANGED <<state, lock>>
    BY <2>1 DEF Halted
  <2>2. CASE ~UNCHANGED <<state, lock>>
    BY <1>3, <1>5, <2>2 DEF UpdateEquity, Trip, LockFree
  <2> QED  BY <2>1, <2>2
<1>6. CASE PersistNext
  <2>1. UNCHANGED state /\ lock \in PersistSteps /\ lock' \in PersistSteps \cup {"free"}
    BY <1>6 DEF PersistNext, PersistReplace, PersistSync, WriteMarker, SyncMarker,
       PersistDone, PersistSteps, memVars
  <2> QED  BY <2>1 DEF Halted, RearmSteps, PersistSteps
<1>7. CASE RearmAuth
  <2>1. CASE lock' = "rmfile"
    BY <1>7, <2>1 DEF RearmAuth, Latch!AcceptRequest, Halted, RearmSteps, memVars
  <2>2. CASE lock' = "free"
    BY <1>7, <2>2 DEF RearmAuth, Halted, RearmSteps, memVars
  <2> QED  BY <1>7, <2>1, <2>2 DEF RearmAuth, RearmReturns
<1>8. CASE RemoveFile \/ SyncRemoval \/ RemoveMarker \/ SyncMarkerRemoval
  <2>1. UNCHANGED state /\ lock \in RearmSteps /\ lock' \in RearmSteps \cup {"free"}
    BY <1>8 DEF RemoveFile, SyncRemoval, RemoveMarker, SyncMarkerRemoval, RearmAbort,
       RearmReturns, RearmSteps
  <2>2. CASE lock' \in RearmSteps
    BY <2>1, <2>2 DEF Halted
  <2>3. CASE lock' = "free"
    BY <2>1, <2>3 DEF Latch!Abandon, Halted, RearmSteps
  <2> QED  BY <2>1, <2>2, <2>3
<1>9. CASE RearmComplete
  BY <1>9 DEF RearmComplete, RearmReturns, Latch!Rearm, Halted, RearmSteps
<1>10. CASE Tick \/ RecordHeartbeat \/ UNCHANGED vars
  BY <1>10 DEF Tick, RecordHeartbeat, vars, memVars, lockVars, Halted
<1>11. ASSUME NEW e \in Equities, UpdateSessionOpenEquity(e)
       PROVE  [Latch!Next]_(Latch!latchVars)
  BY <1>11 DEF UpdateSessionOpenEquity, lockVars, Halted
<1>12. ASSUME NEW v \in BOOLEAN, NEW c \in BOOLEAN, RearmCall(v, c)
       PROVE  [Latch!Next]_(Latch!latchVars)
  BY <1>12 DEF RearmCall, LockFree, memVars, Halted, RearmSteps
<1>13. ASSUME NEW t \in Threads, NEW l \in BOOLEAN,
              ValidateOrderState(t, l) \/ ValidateOrderRate(t) \/ Dispatch(t)
       PROVE  [Latch!Next]_(Latch!latchVars)
  BY <1>13 DEF ValidateOrderState, ValidateOrderRate, Dispatch, memVars, lockVars, Halted
<1> QED
  BY <1>2, <1>4, <1>5, <1>6, <1>7, <1>8, <1>9, <1>10, <1>11, <1>12, <1>13
     DEF Next, RearmNext

\* With require_established_state, as in production, the engine with its disk,
\* crashes and I/O errors implements the latch.
THEOREM EngineImplementsLatch ==
    ASSUME RequireEstablished
    PROVE  Spec => ImplementsLatch
<1>1. Init => Latch!Init
  BY DEF Init, Latch!Init, RearmSteps, Halted
<1>2. TypeInv /\ DiskInv /\ [Next]_vars => [Latch!Next]_(Latch!latchVars)
  BY StepsOfTheLatch
<1>3. Spec => [][Next]_vars /\ Init
  BY DEF Spec
<1>4. Spec => Latch!Spec
  BY <1>1, <1>2, <1>3, DiskInvariant, PTL DEF Latch!Spec
<1> QED
  BY <1>4 DEF ImplementsLatch

-----------------------------------------------------------------------------
(***************************************************************************)
(* The gateway.                                                             *)
(***************************************************************************)

\* What the lockout rests on: at most one submission is in flight, and one
\* that passed the duplicate check still has an id that was never processed.
InFlightInv ==
    /\ payload \subseteq Payload
    /\ \A p, q \in payload : p = q
    /\ step \in {"rate", "solvency"} => \A p \in payload : p.id \notin processed

AcceptsInv ==
    /\ accepts \in [OrderIds -> Nat]
    /\ ProcessedMeansAcceptedOnce

GatewayInv == InFlightInv /\ AcceptsInv

\* A gateway just built has accepted nothing.
LEMMA InitialGateway == GatewayInit => GatewayInv
  BY DEF GatewayInit, GatewayInv, InFlightInv, AcceptsInv, ProcessedMeansAcceptedOnce

\* A step that leaves the ids alone, and the submission or what it has passed.
LEMMA QuietStep ==
    ASSUME GatewayInv, UNCHANGED <<processed, accepts>>,
           \/ UNCHANGED <<payload, step>>
           \/ payload' = {} /\ step' = "free"
           \/ UNCHANGED payload /\ step' \notin {"rate", "solvency"}
           \/ UNCHANGED payload /\ step = "rate" /\ step' = "solvency"
    PROVE  GatewayInv'
  BY DEF GatewayInv, InFlightInv, AcceptsInv, ProcessedMeansAcceptedOnce

\* Each check of a submission keeps the invariant; the breaker's other callers and a
\* crash do not touch what it speaks of, or clear all of it.
LEMMA NextGateway == GatewayInv /\ [GatewayNext]_gatewayVars => GatewayInv'
<1> SUFFICES ASSUME GatewayInv, [GatewayNext]_gatewayVars
             PROVE  GatewayInv'
  OBVIOUS
<1>1. ASSUME NEW p \in Payload, Submit(p)
      PROVE  GatewayInv'
  BY <1>1 DEF Submit, GatewayInv, InFlightInv, AcceptsInv, ProcessedMeansAcceptedOnce
<1>2. CASE CheckHalted
  BY <1>2, QuietStep DEF CheckHalted, Refuse
<1>3. CASE PassWatchdog
  BY <1>3, QuietStep DEF PassWatchdog
<1>4. CASE FailWatchdog
  BY <1>4, QuietStep DEF FailWatchdog
<1>5. CASE RaiseWatchdog
  BY <1>5, QuietStep DEF RaiseWatchdog, Refuse
<1>6. CASE CheckDuplicate
  <2>1. PICK p \in payload :
          \/ p.id \in processed /\ Refuse
          \/ p.id \notin processed /\ step' = "rate" /\ UNCHANGED payload
    BY <1>6 DEF CheckDuplicate
  <2>2. UNCHANGED <<processed, accepts>>
    BY <1>6 DEF CheckDuplicate
  <2>3. CASE Refuse
    BY <2>2, <2>3, QuietStep DEF Refuse
  <2>4. CASE p.id \notin processed /\ step' = "rate" /\ UNCHANGED payload
    BY <2>2, <2>4 DEF GatewayInv, InFlightInv, AcceptsInv, ProcessedMeansAcceptedOnce
  <2> QED  BY <2>1, <2>3, <2>4
<1>7. CASE CheckRate
  BY <1>7, QuietStep DEF CheckRate, Refuse
<1>8. CASE CheckSolvency
  <2>1. PICK p \in payload :
          \/ p.cost > cash /\ UNCHANGED <<processed, accepts>>
          \/ /\ p.cost <= cash
             /\ processed' = processed \cup {p.id}
             /\ accepts' = [accepts EXCEPT ![p.id] = @ + 1]
    BY <1>8 DEF CheckSolvency
  <2>2. step = "solvency" /\ Refuse
    BY <1>8 DEF CheckSolvency
  <2>3. CASE UNCHANGED <<processed, accepts>>
    BY <2>2, <2>3, QuietStep DEF Refuse
  <2>4. CASE /\ processed' = processed \cup {p.id}
             /\ accepts' = [accepts EXCEPT ![p.id] = @ + 1]
    <3>1. p.id \in OrderIds /\ p.id \notin processed
      BY <2>2 DEF GatewayInv, InFlightInv, Payload
    <3>2. accepts[p.id] = 0
      BY <3>1 DEF GatewayInv, AcceptsInv, ProcessedMeansAcceptedOnce
    <3>3. AcceptsInv'
      BY <2>4, <3>1, <3>2 DEF GatewayInv, AcceptsInv, ProcessedMeansAcceptedOnce
    <3>4. InFlightInv'
      BY <2>2 DEF Refuse, InFlightInv
    <3> QED  BY <3>3, <3>4 DEF GatewayInv
  <2> QED  BY <2>1, <2>3, <2>4
<1>9. ASSUME NEW b \in Balances, UpdateCashBalance(b)
      PROVE  GatewayInv'
  BY <1>9, QuietStep DEF UpdateCashBalance
<1>10. CASE Breaker
  BY <1>10, QuietStep DEF Breaker
<1>11. CASE GatewayCrash
  BY <1>11 DEF GatewayCrash, Refuse, GatewayInv, InFlightInv, AcceptsInv,
     ProcessedMeansAcceptedOnce
<1>12. CASE UNCHANGED gatewayVars
  BY <1>12, QuietStep DEF gatewayVars, gwVars
<1> QED
  BY <1>1, <1>2, <1>3, <1>4, <1>5, <1>6, <1>7, <1>8, <1>9, <1>10, <1>11, <1>12
     DEF GatewayNext, Submission

\* validate_and_process_order: no id is accepted twice by one process, and a
\* refused submission locks no id out.
THEOREM NoIdAcceptedTwice == GatewaySpec => []ProcessedMeansAcceptedOnce
<1>1. GatewayInv => ProcessedMeansAcceptedOnce
  BY DEF GatewayInv, AcceptsInv
<1> QED
  BY <1>1, InitialGateway, NextGateway, PTL DEF GatewaySpec

-----------------------------------------------------------------------------
(***************************************************************************)
(* New orders and the halt.  The last look before the token asks for the    *)
(* state alone; what the state NORMAL means for the disk, the equity and    *)
(* the persistence error is an invariant of the breaker, and of the breaker *)
(* under the gateway.                                                       *)
(***************************************************************************)

\* An engine that trades has no persistence error.
ErrorInv == state = "NORMAL" => ~perr

LEMMA NextError == TypeInv /\ DiskInv /\ ErrorInv /\ [Next]_vars => ErrorInv'
<1> SUFFICES ASSUME TypeInv, DiskInv, ErrorInv, [Next]_vars, state' = "NORMAL" PROVE ~perr'
  BY DEF ErrorInv
<1>0. EngineTypeInv
  BY DEF TypeInv
<1>1. CASE UNCHANGED <<state, perr>>
  BY <1>1 DEF ErrorInv
<1>2. CASE ProcessCrash \/ PowerLoss
  BY <1>2 DEF ProcessCrash, PowerLoss, Restart, Boot, Fresh
<1>3. CASE PersistNext
  <2>1. lock \in PersistSteps /\ state' = state
    BY <1>3 DEF PersistNext, PersistReplace, PersistSync, WriteMarker, SyncMarker, PersistSteps,
       memVars
  <2> QED  BY <2>1 DEF DiskInv, PersistSteps
<1>4. CASE RearmComplete
  BY <1>4 DEF RearmComplete
<1>5. CASE RearmNext /\ ~RearmComplete
  <2>1. state' = state /\ perr' # perr =>
            \/ lock = "rmfile" /\ file # {}
            \/ lock \in {"rmsync", "rmmarkersync"}
            \/ lock = "rmmarker" /\ marker
    BY <1>5 DEF RearmNext, RearmAuth, RemoveFile, SyncRemoval, RemoveMarker,
       SyncMarkerRemoval, RearmAbort, memVars
  <2>2. state' = state
    BY <1>5 DEF RearmNext, RearmAuth, RemoveFile, SyncRemoval, RemoveMarker,
       SyncMarkerRemoval, memVars
  <2> QED  BY <1>1, <2>1, <2>2 DEF DiskInv
<1>6. CASE TriggerEmergencyHalt \/ CheckWatchdog
  BY <1>6 DEF TriggerEmergencyHalt, CheckWatchdog, Trip
<1>7. ASSUME NEW e \in Equities, UpdateEquity(e) \/ UpdateSessionOpenEquity(e) PROVE ~perr'
  BY <1>7 DEF UpdateEquity, UpdateSessionOpenEquity, Trip, ErrorInv
<1>8. CASE Tick \/ RecordHeartbeat
  BY <1>1, <1>8 DEF Tick, RecordHeartbeat, memVars
<1>9. ASSUME NEW v \in BOOLEAN, NEW c \in BOOLEAN, RearmCall(v, c) PROVE ~perr'
  BY <1>1, <1>9 DEF RearmCall, memVars
<1>10. ASSUME NEW t \in Threads, NEW l \in BOOLEAN,
              ValidateOrderState(t, l) \/ ValidateOrderRate(t) \/ Dispatch(t)
       PROVE  ~perr'
  BY <1>1, <1>10 DEF ValidateOrderState, ValidateOrderRate, Dispatch, memVars
<1>11. CASE UNCHANGED vars
  BY <1>1, <1>11 DEF vars, memVars
<1> QED
  BY <1>2, <1>3, <1>4, <1>5, <1>6, <1>7, <1>8, <1>9, <1>10, <1>11 DEF Next

BreakerInv == TypeInv /\ EquityInv /\ DiskInv /\ ErrorInv

\* The gateway's own step on the breaker takes a token; all its others are steps
\* of the breaker, or none.
LEMMA GatewaySteps == [GatewayNext]_gatewayVars => [Next]_vars \/ CheckRate
<1> SUFFICES ASSUME [GatewayNext]_gatewayVars, ~CheckRate PROVE [Next]_vars
  OBVIOUS
<1>1. CASE Submission
  <2>1. FailWatchdog \/ UNCHANGED vars
    BY <1>1 DEF Submission, Submit, CheckHalted, PassWatchdog, RaiseWatchdog, CheckDuplicate,
       CheckSolvency
  <2> QED  BY <2>1 DEF FailWatchdog, Next
<1>2. CASE Breaker
  BY <1>2 DEF Breaker, Next
<1>3. CASE GatewayCrash
  BY <1>3 DEF GatewayCrash, Next
<1>4. ASSUME NEW b \in Balances, UpdateCashBalance(b) PROVE [Next]_vars
  BY <1>4 DEF UpdateCashBalance
<1>5. CASE UNCHANGED gatewayVars
  BY <1>5 DEF gatewayVars
<1> QED
  BY <1>1, <1>2, <1>3, <1>4, <1>5 DEF GatewayNext

LEMMA NextBreaker == BreakerInv /\ [GatewayNext]_gatewayVars => BreakerInv'
<1> SUFFICES ASSUME BreakerInv, [GatewayNext]_gatewayVars PROVE BreakerInv'
  OBVIOUS
<1>1. CASE [Next]_vars
  BY <1>1, NextTypes, NextEquity, NextDisk, NextError DEF BreakerInv
<1>2. CASE CheckRate
  <2>1. UNCHANGED <<memVars, diskVars, lockVars, hbAge, order>>
    BY <1>2 DEF CheckRate
  <2>2. EngineTypeInv /\ CallersTypeOK
    BY DEF BreakerInv, TypeInv
  <2>3. EngineTypeInv'
    BY <2>1, <2>2 DEF EngineTypeInv, EngineTypeOK, memVars, diskVars, lockVars
  <2>4. Pruned \in Seq(0..RateWindow)
    BY <2>2, DropOldType DEF Pruned, CallersTypeOK
  <2>5. Append(Pruned, 0) \in Seq(0..RateWindow) /\ Append(admitted, 0) \in Seq(Nat)
    BY <2>2, <2>4, LimitsAssumption DEF CallersTypeOK
  <2>6. rate' \in Seq(0..RateWindow) /\ admitted' \in Seq(Nat)
    BY <1>2, <2>2, <2>4, <2>5 DEF CheckRate, RateAfter, CallersTypeOK
  <2>7. TypeInv'
    BY <2>1, <2>2, <2>3, <2>6 DEF TypeInv, CallersTypeOK
  <2>8. EquityInv'
    BY <2>1 DEF BreakerInv, EquityInv, SnapshotsRestorable, NormalWithinDrawdown,
       DrawdownBreach, memVars, diskVars
  <2>9. DiskInv' /\ ErrorInv'
    BY <2>1 DEF BreakerInv, DiskInv, ErrorInv, Halted, RestartHalts, memVars, diskVars, lockVars
  <2> QED  BY <2>7, <2>8, <2>9 DEF BreakerInv
<1> QED
  BY <1>1, <1>2, GatewaySteps

\* The breaker under the gateway keeps the invariants that it has alone.
LEMMA BreakerInvariant == GatewaySpec => []BreakerInv
<1>1. GatewayInit => BreakerInv
  BY InitialTypes, InitialEquityInv, InitialDisk DEF GatewayInit, BreakerInv, ErrorInv, Init
<1> QED
  BY <1>1, NextBreaker, PTL DEF GatewaySpec

\* The last look before a token, the gateway's or that of validate_order.
LEMMA LastLook ==
    ASSUME TypeInv, [GatewayNext]_gatewayVars, NewOrderLet
    PROVE  ~Halted
<1>0. order \in [Threads -> OrderSteps]
  BY DEF TypeInv, CallersTypeOK
<1>1. CASE CheckRate
  <2>1. UNCHANGED order
    BY <1>1 DEF CheckRate
  <2>2. step = "rate" /\ step' = "solvency"
    BY <2>1 DEF NewOrderLet
  <2> QED  BY <1>1, <2>2 DEF CheckRate, Refuse, TakesToken
<1>2. ASSUME NEW u \in Threads, ValidateOrderRate(u), UNCHANGED step PROVE ~Halted
  <2>1. PICK t \in Threads : order[t] = "new" /\ order'[t] = "admitted"
    BY <1>2 DEF NewOrderLet
  <2>2. order' = [order EXCEPT ![u] = IF TakesToken(order[u] = "liq") THEN "admitted" ELSE "idle"]
    BY <1>2 DEF ValidateOrderRate
  <2>3. u = t /\ TakesToken(FALSE)
    BY <1>0, <2>1, <2>2
  <2> QED  BY <2>3 DEF TakesToken
<1>3. ASSUME NEW u \in Threads, NEW l \in BOOLEAN, ValidateOrderState(u, l) \/ Dispatch(u),
             UNCHANGED step
      PROVE  ~Halted
  <2>1. PICK t \in Threads : order[t] = "new" /\ order'[t] = "admitted"
    BY <1>3 DEF NewOrderLet
  <2>2. order' = [order EXCEPT ![u] = "liq"] \/ order' = [order EXCEPT ![u] = "new"]
           \/ order' = [order EXCEPT ![u] = "idle"]
    BY <1>3 DEF ValidateOrderState, Dispatch
  <2> QED  BY <1>0, <2>1, <2>2
<1>4. CASE step' # "solvency" /\ UNCHANGED order
  BY <1>4 DEF NewOrderLet
<1>5. CASE UNCHANGED <<step, order>>
  BY <1>5 DEF NewOrderLet
<1>6. CASE Submission /\ ~CheckRate
  <2>1. UNCHANGED order
    BY <1>6 DEF Submission, Submit, CheckHalted, PassWatchdog, FailWatchdog, RaiseWatchdog,
       CheckDuplicate, CheckSolvency, CheckWatchdog, vars, orderVars
  <2>2. step' # "solvency"
    BY <1>6 DEF Submission, Submit, CheckHalted, PassWatchdog, FailWatchdog, RaiseWatchdog,
       CheckDuplicate, CheckSolvency, Refuse
  <2> QED  BY <1>4, <2>1, <2>2
<1>7. CASE GatewayCrash
  <2>1. step' = "free" /\ order' = [t \in Threads |-> "idle"]
    BY <1>7 DEF GatewayCrash, Refuse, ProcessCrash, PowerLoss, Restart
  <2> QED  BY <2>1 DEF NewOrderLet
<1>8. CASE Breaker
  <2>1. UNCHANGED step
    BY <1>8 DEF Breaker
  <2>2. CASE \/ Tick \/ RecordHeartbeat \/ TriggerEmergencyHalt \/ CheckWatchdog
             \/ PersistNext \/ RearmNext
    BY <1>5, <2>1, <2>2 DEF Tick, RecordHeartbeat, TriggerEmergencyHalt, CheckWatchdog,
       PersistNext, PersistReplace, PersistSync, WriteMarker, SyncMarker, RearmNext,
       RearmAuth, RemoveFile, SyncRemoval, RemoveMarker, SyncMarkerRemoval,
       RearmComplete, orderVars
  <2>3. ASSUME NEW e \in Equities, UpdateEquity(e) \/ UpdateSessionOpenEquity(e)
        PROVE  ~Halted
    BY <1>5, <2>1, <2>3 DEF UpdateEquity, UpdateSessionOpenEquity, orderVars
  <2>4. ASSUME NEW v \in BOOLEAN, RearmCall(v, TRUE) PROVE ~Halted
    BY <1>5, <2>1, <2>4 DEF RearmCall, orderVars
  <2> QED
    BY <1>2, <1>3, <1>8, <2>1, <2>2, <2>3, <2>4 DEF Breaker
<1>9. ASSUME NEW b \in Balances, UpdateCashBalance(b) PROVE ~Halted
  BY <1>5, <1>9 DEF UpdateCashBalance, vars, orderVars
<1>10. CASE UNCHANGED gatewayVars
  BY <1>5, <1>10 DEF gatewayVars, gwVars, vars, orderVars
<1> QED
  BY <1>1, <1>6, <1>7, <1>8, <1>9, <1>10 DEF GatewayNext

\* A new order gets its token only without a persistence error, without a halt on
\* the disk and within the drawdown limit, whichever calls of the file system
\* failed before, whatever was removed by re-arms that did not finish, and whatever
\* fell between the earlier checks of the order and its last.
THEOREM OrdersPassInTheClear == GatewaySpec => OrdersOnlyInTheClear
<1>1. BreakerInv /\ [GatewayNext]_gatewayVars => (NewOrderLet => AllClear)
  <2> SUFFICES ASSUME BreakerInv, [GatewayNext]_gatewayVars, NewOrderLet PROVE AllClear
    OBVIOUS
  <2>1. ~Halted
    BY LastLook DEF BreakerInv
  <2>2. state = "NORMAL"
    BY <2>1 DEF BreakerInv, TypeInv, EngineTypeInv, EngineTypeOK, Halted
  <2> QED
    BY <2>2 DEF BreakerInv, EquityInv, NormalWithinDrawdown, DiskInv, ErrorInv, AllClear
<1>2. GatewaySpec => [][NewOrderLet => AllClear]_gatewayVars
  BY <1>1, BreakerInvariant, PTL DEF GatewaySpec
<1> QED
  BY <1>2 DEF OrdersOnlyInTheClear

=============================================================================
