---------------------------- MODULE SafetyGateway ----------------------------
(***************************************************************************)
(* ExecutionSafetyGateway (services/execution_gateway/safety_gateway.py)    *)
(* composed with the circuit breaker it shares with the rest of the         *)
(* platform.  The gateway has a lock of its own, held over a whole          *)
(* submission; each question it asks the breaker takes and releases the     *)
(* breaker's lock, so a halt, a re-arm, a mark or a heartbeat may fall       *)
(* between any two of them.                                                 *)
(***************************************************************************)
EXTENDS CircuitBreaker

CONSTANTS
    OrderIds,    \* order ids callers submit, and submit again
    Costs,       \* price * abs(quantity) of a payload
    Balances     \* values update_cash_balance is given; the largest is the initial one

ASSUME GatewayAssumption ==
    /\ Costs \subseteq Nat
    /\ Balances \subseteq Nat

VARIABLES
    step,         \* the next check of the submission in flight, or "free"
    payload,      \* {} or {the payload in flight}
    cash,         \* _available_cash
    processed,    \* _processed_order_ids
    accepts       \* how many times this process returned True, per order id

gwVars == <<step, payload, cash, processed, accepts>>
gatewayVars == <<vars, gwVars>>

Payload == [id : OrderIds, cost : Costs]
Steps == {"free", "halted", "watchdog", "tripped", "duplicate", "rate", "solvency"}

-----------------------------------------------------------------------------
\* validate_and_process_order takes the gateway's lock.
Submit(p) ==
    /\ step = "free"
    /\ step' = "halted"
    /\ payload' = {p}
    /\ UNCHANGED <<vars, cash, processed, accepts>>

\* The call ends with an exception; nothing of it is remembered.
Refuse == step' = "free" /\ payload' = {}

\* 1. circuit_breaker.is_halted
CheckHalted ==
    /\ step = "halted" /\ LockFree
    /\ \/ Halted /\ Refuse
       \/ ~Halted /\ step' = "watchdog" /\ UNCHANGED payload
    /\ UNCHANGED <<vars, cash, processed, accepts>>

\* 2. circuit_breaker.check_watchdog: a silent heartbeat trips the breaker, and
\* the exception reaches the gateway when the halt has been recorded.
PassWatchdog ==
    /\ step = "watchdog" /\ LockFree
    /\ hbAge <= HeartbeatTimeout
    /\ step' = "duplicate"
    /\ UNCHANGED <<vars, payload, cash, processed, accepts>>

FailWatchdog ==
    /\ step = "watchdog"
    /\ CheckWatchdog
    /\ step' = "tripped"
    /\ UNCHANGED <<payload, cash, processed, accepts>>

RaiseWatchdog ==
    /\ step = "tripped" /\ LockFree
    /\ Refuse
    /\ UNCHANGED <<vars, cash, processed, accepts>>

\* Mutant: no lockout.
CheckNoDuplicate ==
    /\ step = "duplicate" /\ step' = "rate"
    /\ UNCHANGED <<vars, payload, cash, processed, accepts>>

\* 3. the duplicate lockout
CheckDuplicate ==
    /\ step = "duplicate"
    /\ \E p \in payload :
          \/ p.id \in processed /\ Refuse
          \/ p.id \notin processed /\ step' = "rate" /\ UNCHANGED payload
    /\ UNCHANGED <<vars, cash, processed, accepts>>

\* 4. circuit_breaker.validate_rate_limit: looks at the halt once more.
CheckRate ==
    /\ step = "rate" /\ LockFree
    /\ rate' = RateAfter(FALSE)
    /\ IF TakesToken(FALSE)
       THEN /\ admitted' = Append(admitted, 0)
            /\ step' = "solvency"
            /\ UNCHANGED payload
       ELSE Refuse /\ UNCHANGED admitted
    /\ UNCHANGED <<memVars, diskVars, lockVars, hbAge, order, cash, processed, accepts>>

\* 5. the solvency check and the record of the id.  The token is spent either
\* way, and the cost is not taken off the cash.
CheckSolvency ==
    /\ step = "solvency"
    /\ \E p \in payload :
          \/ p.cost > cash /\ UNCHANGED <<processed, accepts>>
          \/ /\ p.cost <= cash
             /\ processed' = processed \cup {p.id}
             /\ accepts' = [accepts EXCEPT ![p.id] = @ + 1]
    /\ Refuse
    /\ UNCHANGED <<vars, cash>>

UpdateCashBalance(b) ==
    /\ step = "free"
    /\ cash' = b
    /\ UNCHANGED <<vars, step, payload, processed, accepts>>

-----------------------------------------------------------------------------
InitialBalance == CHOOSE b \in Balances : \A c \in Balances : c <= b

GatewayInit ==
    /\ Init
    /\ step = "free" /\ payload = {}
    /\ cash = InitialBalance
    /\ processed = {}
    /\ accepts = [i \in OrderIds |-> 0]

\* The breaker's other callers: marks, session opens, operators, the heartbeat,
\* the clock.  A re-arm refused for its token stands for one refused for its
\* ledger: they end alike.
Breaker ==
    /\ \/ Tick \/ RecordHeartbeat \/ TriggerEmergencyHalt \/ CheckWatchdog
       \/ \E e \in Equities : UpdateEquity(e) \/ UpdateSessionOpenEquity(e)
       \/ \E valid \in BOOLEAN : RearmCall(valid, TRUE)
       \/ PersistNext \/ RearmNext
       \/ \E t \in Threads :
            \/ \E liquidation \in BOOLEAN : ValidateOrderState(t, liquidation)
            \/ ValidateOrderRate(t)
            \/ Dispatch(t)
    /\ UNCHANGED <<step, payload, cash, processed, accepts>>

\* Both objects are built anew; the ids already processed were only in memory.
GatewayCrash ==
    /\ ProcessCrash \/ PowerLoss
    /\ Refuse
    /\ cash' = InitialBalance
    /\ processed' = {}
    /\ accepts' = [i \in OrderIds |-> 0]

Submission ==
    \/ \E p \in Payload : Submit(p)
    \/ CheckHalted \/ PassWatchdog \/ FailWatchdog \/ RaiseWatchdog
    \/ CheckDuplicate \/ CheckRate \/ CheckSolvency

GatewayNext ==
    \/ Submission
    \/ \E b \in Balances : UpdateCashBalance(b)
    \/ Breaker
    \/ GatewayCrash

GatewaySpec == GatewayInit /\ [][GatewayNext]_gatewayVars

-----------------------------------------------------------------------------
\* An order id is processed exactly when one submission of it was accepted: no
\* id is accepted twice, and a refusal (halt, watchdog, rate, cash) does not
\* lock the id out of a later attempt.
ProcessedMeansAcceptedOnce ==
    \A i \in OrderIds : accepts[i] = IF i \in processed THEN 1 ELSE 0

\* A new order gets its token, from the gateway or from validate_order.
NewOrderLet ==
    \/ step = "rate" /\ step' = "solvency"
    \/ \E t \in Threads : order[t] = "new" /\ order'[t] = "admitted"

\* No error of recording a halt, no halt on the disk, no loss over the limit.
AllClear == ~perr /\ file = {} /\ ~marker /\ ~DrawdownBreach(hwm, equity)

\* A new order gets through only when all is clear.  The last look before the
\* token, validate_rate_limit, asks for the state alone (the gateway never asks
\* for the persistence error, validate_order only before it lets go of the
\* lock), so the state must never say NORMAL too early: not after failed
\* writes, removals and re-arms in any order, and not after a restart.
OrdersOnlyInTheClear == [][NewOrderLet => AllClear]_gatewayVars

=============================================================================
