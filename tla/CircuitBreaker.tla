---------------------------- MODULE CircuitBreaker ----------------------------
(***************************************************************************)
(* The risk circuit breaker of services/execution_gateway/                 *)
(* circuit_breaker.py: one engine behind a non-reentrant lock, the disk it  *)
(* records a halt on, the callers of validate_order, and the crashes, power *)
(* losses and file-system errors it is written to survive.                  *)
(*                                                                          *)
(* An operation that does no input or output under the lock is one action.  *)
(* One that writes the disk holds the lock over several steps, so that a    *)
(* crash or an I/O error may fall between any two of them; `lock' names the *)
(* step its holder is about to take.                                        *)
(*                                                                          *)
(* Time is kept as ages: Tick makes everything one tick older, and an age   *)
(* stops growing once no comparison can tell it from a larger one.          *)
(***************************************************************************)
EXTENDS Integers, Sequences, FiniteSets

CONSTANTS
    Equities,            \* the equity values callers report
    InitialEquity,       \* the constructor's initial_equity
    MaxDrawdownPct,      \* max_portfolio_drawdown_pct * 100
    MaxDailyLossPct,     \* max_daily_loss_pct * 100
    MaxOrderRate,        \* max_order_rate_per_sec
    RateWindow,          \* the 1.0 s of the rate limiter, in ticks
    HeartbeatTimeout,    \* watchdog_heartbeat_timeout_sec, in ticks
    RequireEstablished,  \* require_established_state (TRUE in production)
    IOFaults,            \* the file-system calls that may fail on this host
    Threads              \* the threads calling validate_order

IOCalls == {"replace", "sync", "marker", "markersync", "rmfile", "rmsync",
            "rmmarker", "rmmarkersync"}

ASSUME EquitiesAssumption ==
    /\ Equities \subseteq Nat \ {0}
    /\ InitialEquity \in Equities
ASSUME LimitsAssumption ==
    /\ MaxDrawdownPct \in Nat \ {0}
    /\ MaxDailyLossPct \in Nat \ {0}
    /\ MaxOrderRate \in Nat \ {0}
    /\ RateWindow \in Nat \ {0}
    /\ HeartbeatTimeout \in Nat
    /\ RequireEstablished \in BOOLEAN
    /\ IOFaults \subseteq IOCalls

VARIABLES
    state,       \* _state: GatewayState.NORMAL or EMERGENCY_HALT
    hwm,         \* _high_water_mark
    dayStart,    \* _day_start_equity
    equity,      \* _current_equity
    perr,        \* _persistence_error is set
    hbAge,       \* age of _last_heartbeat_monotonic
    rate,        \* _rate_limiter_deque, as ages, the oldest first
    lock,        \* the next step of the holder of _lock, or "free"
    persists,    \* calls of _persist_disk_state the holder still has to make
    rearm,       \* arguments of the admin_rearm call that holds the lock
    file,        \* the state file: {} or {snapshot}
    marker,      \* the ".failed" marker exists
    fileDur,     \* the part of the directory that a power loss preserves
    markerDur,
    order,       \* where each caller of validate_order stands
    admitted     \* ages, under RateWindow, of the orders this process let through

memVars   == <<state, hwm, dayStart, equity, perr>>
diskVars  == <<file, marker, fileDur, markerDur>>
lockVars  == <<lock, persists, rearm>>
timeVars  == <<hbAge, rate>>
orderVars == <<order, admitted>>
vars == <<memVars, diskVars, lockVars, timeVars, orderVars>>

Snapshot == [hwm : Equities, dayStart : Equities, equity : Equities]

\* Steps of admin_rearm after its credentials and the ledger were accepted.
RearmSteps == {"rmfile", "rmsync", "rmmarker", "rmmarkersync", "complete"}
PersistSteps == {"replace", "sync", "marker", "markersync"}
LockSteps == {"free", "auth"} \cup RearmSteps \cup PersistSteps

\* Where a validate_order call stands: it checks the state under the lock,
\* RELEASES it, and takes it again in validate_rate_limit.  "new" and "liq"
\* are calls between the two, the second one a liquidation.
OrderSteps == {"idle", "new", "liq", "admitted"}

Halted == state = "EMERGENCY_HALT"
LockFree == lock = "free"
NoRequest == [valid |-> FALSE, clean |-> FALSE]

DrawdownBreach(h, e) == (h - e) * 100 >= MaxDrawdownPct * h
DailyLossBreach(d, e) == (d - e) * 100 >= MaxDailyLossPct * d

-----------------------------------------------------------------------------
(***************************************************************************)
(* Start and restart: __init__ and _restore_disk_state.                     *)
(***************************************************************************)

\* Memory of a new engine that restores nothing from the disk.
Fresh(s) ==
    /\ state' = s
    /\ hwm' = InitialEquity
    /\ dayStart' = InitialEquity
    /\ equity' = InitialEquity

\* Mutant: a missing state file is never a reason to halt.
BootTrustingNoFile(f, m) ==
    \/ m /\ Fresh("EMERGENCY_HALT") /\ perr' = TRUE
    \/ ~m /\ f = {} /\ perr' = FALSE /\ Fresh("NORMAL")
    \/ ~m /\ f # {} /\ perr' = FALSE /\ Fresh("EMERGENCY_HALT")

\* A new engine that finds state file f and marker m.  The fourth case is a
\* file that does not parse, is unsigned, fails validation, or was signed with
\* another key (each development process draws its own).
Boot(f, m) ==
    \/ m /\ Fresh("EMERGENCY_HALT") /\ perr' = TRUE
    \/ ~m /\ f = {} /\ perr' = FALSE
       /\ Fresh(IF RequireEstablished THEN "EMERGENCY_HALT" ELSE "NORMAL")
    \/ ~m /\ perr' = FALSE
       /\ \E s \in f :
            /\ s.hwm >= s.equity
            /\ state' = "EMERGENCY_HALT"
            /\ hwm' = s.hwm
            /\ dayStart' = s.dayStart
            /\ equity' = s.equity
    \/ ~m /\ f # {} /\ perr' = FALSE /\ Fresh("EMERGENCY_HALT")

Restart(f, m) ==
    /\ Boot(f, m)
    /\ file' = f
    /\ marker' = m
    /\ lock' = "free" /\ persists' = 0 /\ rearm' = NoRequest
    /\ hbAge' = 0 /\ rate' = <<>>
    /\ order' = [t \in Threads |-> "idle"] /\ admitted' = <<>>

\* The process dies, at any step of any operation, and is started again.  What
\* it wrote is still in the page cache.
ProcessCrash ==
    /\ Restart(file, marker)
    /\ UNCHANGED <<fileDur, markerDur>>

\* The machine loses power: each directory entry changed since the last fsync
\* of the directory comes back as it was or as it is.
PowerLoss ==
    \E f \in {file, fileDur}, m \in {marker, markerDur} :
        /\ Restart(f, m)
        /\ fileDur' = f
        /\ markerDur' = m

Init ==
    /\ state = IF RequireEstablished THEN "EMERGENCY_HALT" ELSE "NORMAL"
    /\ hwm = InitialEquity
    /\ dayStart = InitialEquity
    /\ equity = InitialEquity
    /\ perr = FALSE
    /\ file = {} /\ fileDur = {}
    /\ marker = FALSE /\ markerDur = FALSE
    /\ lock = "free" /\ persists = 0 /\ rearm = NoRequest
    /\ hbAge = 0
    /\ rate = <<>>
    /\ order = [t \in Threads |-> "idle"]
    /\ admitted = <<>>

-----------------------------------------------------------------------------
(***************************************************************************)
(* Time and the heartbeat.                                                  *)
(***************************************************************************)

Older(age, cap) == IF age < cap THEN age + 1 ELSE cap

\* Pops the head of a deque of ages, oldest first, while it is out of the window.
DropOld(ages) ==
    LET old == {i \in DOMAIN ages : ages[i] >= RateWindow}
    IN  SubSeq(ages, Cardinality(old) + 1, Len(ages))

\* Entries of the deque outlive the window until the next call prunes them;
\* `admitted' forgets an order as soon as it leaves the window.
Tick ==
    /\ hbAge' = Older(hbAge, HeartbeatTimeout + 1)
    /\ rate' = [i \in DOMAIN rate |-> Older(rate[i], RateWindow)]
    /\ admitted' = DropOld([i \in DOMAIN admitted |-> admitted[i] + 1])
    /\ UNCHANGED <<memVars, diskVars, lockVars, order>>

RecordHeartbeat ==
    /\ LockFree
    /\ hbAge' = 0
    /\ UNCHANGED <<memVars, diskVars, lockVars, rate, orderVars>>

-----------------------------------------------------------------------------
(***************************************************************************)
(* Tripping: _trip_halt_locked sets the state, then _persist_disk_state     *)
(* replaces the file and syncs the directory; when either fails the error   *)
(* is kept in memory and _write_failure_marker does what it can.            *)
(***************************************************************************)

Fails(call) == call \in IOFaults

\* n calls of _trip_halt_locked in one operation.
Trip(n) ==
    /\ state' = "EMERGENCY_HALT"
    /\ lock' = "replace"
    /\ persists' = n

\* One _persist_disk_state is over: make the next one or release the lock.
PersistDone ==
    /\ lock' = IF persists > 1 THEN "replace" ELSE "free"
    /\ persists' = persists - 1

SyncDirectory == fileDur' = file /\ markerDur' = marker

\* Mutant: a failed write leaves its marker but not its error.
PersistReplaceQuietly ==
    /\ lock = "replace"
    /\ \/ /\ file' = {[hwm |-> hwm, dayStart |-> dayStart, equity |-> equity]}
          /\ lock' = "sync"
       \/ Fails("replace") /\ lock' = "marker" /\ UNCHANGED file
    /\ UNCHANGED <<memVars, marker, fileDur, markerDur, persists, rearm,
                   timeVars, orderVars>>

\* os.replace of a complete, fsynced temporary file: all of it or none.
PersistReplace ==
    /\ lock = "replace"
    /\ \/ /\ file' = {[hwm |-> hwm, dayStart |-> dayStart, equity |-> equity]}
          /\ lock' = "sync"
          /\ UNCHANGED perr
       \/ /\ Fails("replace")
          /\ perr' = TRUE
          /\ lock' = "marker"
          /\ UNCHANGED file
    /\ UNCHANGED <<state, hwm, dayStart, equity, marker, fileDur, markerDur,
                   persists, rearm, timeVars, orderVars>>

PersistSync ==
    /\ lock = "sync"
    /\ \/ SyncDirectory /\ perr' = FALSE /\ PersistDone
       \/ /\ Fails("sync")
          /\ perr' = TRUE
          /\ lock' = "marker"
          /\ UNCHANGED <<fileDur, markerDur, persists>>
    /\ UNCHANGED <<state, hwm, dayStart, equity, file, marker, rearm,
                   timeVars, orderVars>>

\* _write_failure_marker swallows every exception.
WriteMarker ==
    /\ lock = "marker"
    /\ \/ marker' = TRUE /\ lock' = "markersync" /\ UNCHANGED persists
       \/ Fails("marker") /\ PersistDone /\ UNCHANGED marker
    /\ UNCHANGED <<memVars, file, fileDur, markerDur, rearm, timeVars, orderVars>>

SyncMarker ==
    /\ lock = "markersync"
    /\ \/ SyncDirectory
       \/ Fails("markersync") /\ UNCHANGED <<fileDur, markerDur>>
    /\ PersistDone
    /\ UNCHANGED <<memVars, file, marker, rearm, timeVars, orderVars>>

-----------------------------------------------------------------------------
(***************************************************************************)
(* The operations that may trip.                                            *)
(***************************************************************************)

\* trigger_emergency_halt, and update_equity when the value is NaN, infinite or
\* not positive (it trips before it stores anything).
TriggerEmergencyHalt ==
    /\ LockFree
    /\ Trip(1)
    /\ UNCHANGED <<hwm, dayStart, equity, perr, diskVars, rearm, timeVars, orderVars>>

\* update_equity with a finite value: each limit breached is a trip of its own.
UpdateEquity(e) ==
    /\ LockFree
    /\ equity' = e
    /\ hwm' = IF e > hwm THEN e ELSE hwm
    /\ LET breaches == (IF DrawdownBreach(hwm', e) THEN 1 ELSE 0)
                       + (IF DailyLossBreach(dayStart, e) THEN 1 ELSE 0)
       IN  IF breaches > 0 THEN Trip(breaches)
           ELSE UNCHANGED <<state, lock, persists>>
    /\ UNCHANGED <<dayStart, perr, diskVars, rearm, timeVars, orderVars>>

\* The reference equity of the daily loss; nothing is evaluated against it here.
UpdateSessionOpenEquity(e) ==
    /\ LockFree
    /\ dayStart' = e
    /\ UNCHANGED <<state, hwm, equity, perr, diskVars, lockVars, timeVars, orderVars>>

CheckWatchdog ==
    /\ LockFree
    /\ hbAge > HeartbeatTimeout
    /\ Trip(1)
    /\ UNCHANGED <<hwm, dayStart, equity, perr, diskVars, rearm, timeVars, orderVars>>

-----------------------------------------------------------------------------
(***************************************************************************)
(* admin_rearm: credentials and ledger, then the disk, then memory.         *)
(***************************************************************************)

RearmCall(valid, clean) ==
    /\ LockFree
    /\ lock' = "auth"
    /\ rearm' = [valid |-> valid, clean |-> clean]
    /\ UNCHANGED <<memVars, diskVars, persists, timeVars, orderVars>>

RearmReturns == lock' = "free" /\ rearm' = NoRequest

\* Mutant: the answer of the ledger verifier is ignored.
RearmAuthAnyLedger ==
    /\ lock = "auth"
    /\ \/ rearm.valid /\ lock' = "rmfile" /\ UNCHANGED rearm
       \/ ~rearm.valid /\ RearmReturns
    /\ UNCHANGED <<memVars, diskVars, persists, timeVars, orderVars>>

RearmAuth ==
    /\ lock = "auth"
    /\ \/ rearm.valid /\ rearm.clean /\ lock' = "rmfile" /\ UNCHANGED rearm
       \/ ~(rearm.valid /\ rearm.clean) /\ RearmReturns
    /\ UNCHANGED <<memVars, diskVars, persists, timeVars, orderVars>>

\* _clear_disk_state raised: the saved state is put back and False returned.
RearmAbort ==
    /\ perr' = TRUE
    /\ RearmReturns

RemoveFile ==
    /\ lock = "rmfile"
    /\ \/ file = {} /\ lock' = "rmmarker" /\ UNCHANGED <<file, perr, rearm>>
       \/ file # {} /\ file' = {} /\ lock' = "rmsync" /\ UNCHANGED <<perr, rearm>>
       \/ file # {} /\ Fails("rmfile") /\ RearmAbort /\ UNCHANGED file
    /\ UNCHANGED <<state, hwm, dayStart, equity, marker, fileDur, markerDur,
                   persists, timeVars, orderVars>>

SyncRemoval ==
    /\ lock = "rmsync"
    /\ \/ SyncDirectory /\ lock' = "rmmarker" /\ UNCHANGED <<perr, rearm>>
       \/ Fails("rmsync") /\ RearmAbort /\ UNCHANGED <<fileDur, markerDur>>
    /\ UNCHANGED <<state, hwm, dayStart, equity, file, marker, persists,
                   timeVars, orderVars>>

\* Mutant: the marker of a failed write is left where it is.
LeaveMarker ==
    /\ lock = "rmmarker" /\ lock' = "complete"
    /\ UNCHANGED <<memVars, diskVars, persists, rearm, timeVars, orderVars>>

RemoveMarker ==
    /\ lock = "rmmarker"
    /\ \/ ~marker /\ lock' = "complete" /\ UNCHANGED <<marker, perr, rearm>>
       \/ marker /\ marker' = FALSE /\ lock' = "rmmarkersync" /\ UNCHANGED <<perr, rearm>>
       \/ marker /\ Fails("rmmarker") /\ RearmAbort /\ UNCHANGED marker
    /\ UNCHANGED <<state, hwm, dayStart, equity, file, fileDur, markerDur,
                   persists, timeVars, orderVars>>

SyncMarkerRemoval ==
    /\ lock = "rmmarkersync"
    /\ \/ SyncDirectory /\ lock' = "complete" /\ UNCHANGED <<perr, rearm>>
       \/ Fails("rmmarkersync") /\ RearmAbort /\ UNCHANGED <<fileDur, markerDur>>
    /\ UNCHANGED <<state, hwm, dayStart, equity, file, marker, persists,
                   timeVars, orderVars>>

\* Mutant: the old peak survives the re-arm.
RearmKeepingPeak ==
    /\ lock = "complete"
    /\ RearmReturns
    /\ state' = "NORMAL"
    /\ perr' = FALSE
    /\ dayStart' = equity
    /\ hbAge' = 0
    /\ UNCHANGED <<hwm, equity, diskVars, persists, rate, orderVars>>

RearmComplete ==
    /\ lock = "complete"
    /\ RearmReturns
    /\ state' = "NORMAL"
    /\ perr' = FALSE
    /\ hwm' = equity
    /\ dayStart' = equity
    /\ hbAge' = 0
    /\ UNCHANGED <<equity, diskVars, persists, rate, orderVars>>

-----------------------------------------------------------------------------
(***************************************************************************)
(* validate_order and validate_rate_limit.                                  *)
(***************************************************************************)

Pruned == DropOld(rate)

\* Mutant: one order too many fits in the window.
TakesTokenAtLimit(liquidation) ==
    /\ ~Halted \/ liquidation
    /\ Len(Pruned) <= MaxOrderRate

\* validate_rate_limit up to its verdict: does the caller get a token?  A caller
\* refused by the halt returns before the deque is pruned.
TakesToken(liquidation) ==
    /\ ~Halted \/ liquidation
    /\ Len(Pruned) < MaxOrderRate

RateAfter(liquidation) ==
    IF Halted /\ ~liquidation THEN rate
    ELSE IF TakesToken(liquidation) THEN Append(Pruned, 0) ELSE Pruned

\* The first half of validate_order.  A refused call changes nothing.
ValidateOrderState(t, liquidation) ==
    /\ LockFree
    /\ order[t] = "idle"
    /\ ~Halted \/ liquidation
    /\ ~perr
    /\ order' = [order EXCEPT ![t] = IF liquidation THEN "liq" ELSE "new"]
    /\ UNCHANGED <<memVars, diskVars, lockVars, timeVars, admitted>>

ValidateOrderRate(t) ==
    LET liquidation == order[t] = "liq" IN
    /\ LockFree
    /\ order[t] \in {"new", "liq"}
    /\ rate' = RateAfter(liquidation)
    /\ IF TakesToken(liquidation)
       THEN /\ order' = [order EXCEPT ![t] = "admitted"]
            /\ admitted' = Append(admitted, 0)
       ELSE /\ order' = [order EXCEPT ![t] = "idle"]
            /\ UNCHANGED admitted
    /\ UNCHANGED <<memVars, diskVars, lockVars, hbAge>>

\* The caller takes its admitted order away.
Dispatch(t) ==
    /\ order[t] = "admitted"
    /\ order' = [order EXCEPT ![t] = "idle"]
    /\ UNCHANGED <<memVars, diskVars, lockVars, timeVars, admitted>>

-----------------------------------------------------------------------------
PersistNext == PersistReplace \/ PersistSync \/ WriteMarker \/ SyncMarker
RearmNext ==
    \/ RearmAuth \/ RemoveFile \/ SyncRemoval \/ RemoveMarker
    \/ SyncMarkerRemoval \/ RearmComplete

Next ==
    \/ Tick \/ RecordHeartbeat
    \/ ProcessCrash \/ PowerLoss
    \/ TriggerEmergencyHalt \/ CheckWatchdog
    \/ \E e \in Equities : UpdateEquity(e) \/ UpdateSessionOpenEquity(e)
    \/ \E valid, clean \in BOOLEAN : RearmCall(valid, clean)
    \/ PersistNext \/ RearmNext
    \/ \E t \in Threads :
         \/ \E liquidation \in BOOLEAN : ValidateOrderState(t, liquidation)
         \/ ValidateOrderRate(t)
         \/ Dispatch(t)

Spec == Init /\ [][Next]_vars

-----------------------------------------------------------------------------
(***************************************************************************)
(* Properties.                                                              *)
(***************************************************************************)

EngineTypeOK ==
    /\ state \in {"NORMAL", "EMERGENCY_HALT"}
    /\ hwm \in Equities /\ dayStart \in Equities /\ equity \in Equities
    /\ perr \in BOOLEAN
    /\ file \subseteq Snapshot /\ fileDur \subseteq Snapshot
    /\ marker \in BOOLEAN /\ markerDur \in BOOLEAN
    /\ lock \in LockSteps
    /\ persists \in 0..2
    /\ rearm \in [valid : BOOLEAN, clean : BOOLEAN]

CallersTypeOK ==
    /\ hbAge \in 0..(HeartbeatTimeout + 1)
    /\ rate \in Seq(0..RateWindow)
    /\ order \in [Threads -> OrderSteps]
    /\ admitted \in Seq(Nat)

TypeOK == EngineTypeOK /\ CallersTypeOK

\* Trading is only open while the loss from the peak is under the limit,
\* whatever sequence of marks, restarts and re-arms led here.
NormalWithinDrawdown ==
    state = "NORMAL" => ~DrawdownBreach(hwm, equity)

\* A snapshot the engine wrote is one its own restore accepts: a halt is never
\* turned into "corrupted state" by the check high_water_mark >= current_equity.
SnapshotsRestorable ==
    \A s \in file \cup fileDur : s.hwm >= s.equity

\* A restart of the process now comes up halted.
RestartHalts == RequireEstablished \/ marker \/ file # {}

\* A halt that everyone can see (the lock is free) and that reports no
\* persistence error is on the disk: whatever failed on the way, and in
\* whatever order, a restart cannot come up trading.
HaltOnDisk ==
    Halted /\ LockFree /\ ~perr => RestartHalts

\* Memory and disk never disagree the dangerous way round: an engine that is
\* trading has no halt left on the disk a restart would resurrect.
NormalLeavesNoHalt ==
    state = "NORMAL" => file = {} /\ ~marker

\* No more than MaxOrderRate orders get through in any window of 1.0 s,
\* although the deque is pruned lazily and refused calls prune it too.
RateWindowRespected == Len(admitted) <= MaxOrderRate

\* An admin_rearm call whose token and ledger were good is removing the halt.
AcceptedRearm == lock \in RearmSteps /\ rearm.valid /\ rearm.clean

\* A halt the disk may not show: its persistence error is set, it is still being
\* recorded, or the directory was not synced since.
Unrecorded ==
    perr \/ lock \in PersistSteps \/ file # fileDur \/ marker # markerDur

\* The only way out of a halt is an admin_rearm call whose token and ledger were
\* good, in its last step or in a restart that interrupts it, or a restart that
\* finds a halt not recorded.  With an established state required, it is the
\* last step of such a call and nothing else.
HaltLeftOnlyByRearm ==
    [][Halted /\ ~Halted' =>
          \/ AcceptedRearm /\ (RequireEstablished => lock = "complete")
          \/ ~RequireEstablished /\ lock \notin RearmSteps /\ Unrecorded]_vars

\* The engine implements the latch (with require_established_state, as in
\* production: without it a restart may clear a halt that was not recorded).
Latch == INSTANCE HaltLatch WITH halted <- Halted, rearming <- lock \in RearmSteps
ImplementsLatch == Latch!Spec
=============================================================================
