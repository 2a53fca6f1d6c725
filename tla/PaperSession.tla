----------------------------- MODULE PaperSession -----------------------------
(***************************************************************************)
(* PaperTradingEngine (services/paper-engine/session.py): sessions kept in  *)
(* memory and in one SQLite row each, the orders submitted to them, and the *)
(* circuit breaker they share.                                              *)
(*                                                                          *)
(* Every method holds the engine's lock from its first look at the session  *)
(* to the commit of its row, so calls do not overlap; but the process may   *)
(* die, the commit may fail, and the breaker, which has a lock of its own,   *)
(* may be tripped or re-armed, between two steps of one call.               *)
(***************************************************************************)
EXTENDS PaperPortfolio, FiniteSets

CONSTANTS
    Sessions,
    Capital,            \* initial_capital of each session
    Quantities, Prices, \* what callers order, and the prices that reach the engine
    Fee,                \* transaction costs of a fill
    Slippage,           \* slippage of a fill, per share
    MinSellPrice,       \* INR 0.05, under which no sell fills
    MaxTradePct, MaxDailyLossPct, MaxDrawdownPct, MaxOpenPositions,
                        \* HardRiskLimits
    BreakerAttached,    \* the engine was given a circuit breaker
    BreakerEquity,      \* initial_equity of the shared breaker
    BreakerDailyPct, BreakerDrawdownPct,
    MaxTrades,          \* bound on the fills of a session
    MaxFaults           \* bound on lost commits, crashes and operators' halts

ASSUME SessionAssumption ==
    /\ IsFiniteSet(Symbols)
    /\ Capital \in [Sessions -> Nat \ {0}]
    /\ Quantities \subseteq Nat \ {0}
    /\ Prices \subseteq Nat \ {0}
    /\ Fee \in Nat /\ Slippage \in Nat /\ MinSellPrice \in Nat \ {0}
    /\ MaxTradePct \in Nat /\ MaxDailyLossPct \in Nat /\ MaxDrawdownPct \in Nat
    /\ MaxOpenPositions \in Nat \ {0}
    /\ BreakerAttached \in BOOLEAN
    /\ BreakerEquity \in Nat \ {0}
    /\ BreakerDailyPct \in Nat /\ BreakerDrawdownPct \in Nat
    /\ MaxTrades \in Nat /\ MaxFaults \in Nat

VARIABLES
    status,     \* session.status; "NONE" before create_session
    pf,         \* session.portfolio
    row,        \* the row of paper_sessions: {} or {its contents}
    lock,       \* the next step of the holder of the engine's lock, or "free"
    holder,     \* {} or {the session that call is about}
    order,      \* {} or {the order that call has admitted}
    dirty,      \* sessions whose last call raised because its commit failed
    breaker,    \* the shared CircuitBreakerEngine
    faults      \* bound: lost commits, crashes and operators' halts so far

callVars == <<lock, holder, order>>
sessionVars == <<status, pf, row, callVars, dirty>>
vars == <<sessionVars, breaker, faults>>

Order == [side : {"BUY", "SELL"}, symbol : Symbols, qty : Quantities, price : Prices]

-----------------------------------------------------------------------------
(***************************************************************************)
(* The breaker as the engine meets it.  CircuitBreaker has it in full; here *)
(* it has neither I/O errors nor a rate limiter, and `saved' is its file.   *)
(***************************************************************************)

FreshBreaker ==
    [halted |-> FALSE, hwm |-> BreakerEquity, dayStart |-> BreakerEquity,
     equity |-> BreakerEquity, saved |-> {}]

Tripped(b) ==
    [b EXCEPT !.halted = TRUE,
              !.saved = {[hwm |-> b.hwm, dayStart |-> b.dayStart, equity |-> b.equity]}]

\* update_equity
Reported(b, e) ==
    LET c == [b EXCEPT !.equity = e, !.hwm = IF e > @ THEN e ELSE @]
        breach == \/ (c.hwm - e) * 100 >= BreakerDrawdownPct * c.hwm
                  \/ (c.dayStart - e) * 100 >= BreakerDailyPct * c.dayStart
    IN  IF ~BreakerAttached THEN b ELSE IF breach THEN Tripped(c) ELSE c

Fault == faults < MaxFaults /\ faults' = faults + 1

Halt ==
    /\ BreakerAttached
    /\ Fault
    /\ breaker' = Tripped(breaker)
    /\ UNCHANGED sessionVars

Rearm ==
    /\ breaker.halted
    /\ breaker' = [breaker EXCEPT !.halted = FALSE, !.saved = {},
                                  !.hwm = breaker.equity, !.dayStart = breaker.equity]
    /\ UNCHANGED <<sessionVars, faults>>

-----------------------------------------------------------------------------
(***************************************************************************)
(* Calls that change a session and commit it.                               *)
(***************************************************************************)

Free == lock = "free"

\* The call has changed the session in memory; _persist_session comes next.
ThenPersist(n) == lock' = "persist" /\ holder' = {n} /\ order' = {}

Return == lock' = "free" /\ holder' = {} /\ order' = {}

CreateSession(n) ==
    /\ Free /\ status[n] = "NONE"
    /\ status' = [status EXCEPT ![n] = "CREATED"]
    /\ pf' = [pf EXCEPT ![n] = Initialize(Capital[n])]
    /\ ThenPersist(n)
    /\ UNCHANGED <<row, dirty, breaker, faults>>

\* start_session, pause_session, stop_session: from any state.
SetStatus(n, s) ==
    /\ Free /\ status[n] # "NONE"
    /\ status' = [status EXCEPT ![n] = s]
    /\ ThenPersist(n)
    /\ UNCHANGED <<pf, row, dirty, breaker, faults>>

\* Mutant: a new day is not committed.
ResetDailyMetricsUnsaved(n) ==
    /\ Free /\ status[n] # "NONE"
    /\ pf' = [pf EXCEPT ![n] = NewDay(@, Equity(@))]
    /\ UNCHANGED <<status, row, callVars, dirty, breaker, faults>>

ResetDailyMetrics(n) ==
    /\ Free /\ status[n] # "NONE"
    /\ pf' = [pf EXCEPT ![n] = NewDay(@, Equity(@))]
    /\ ThenPersist(n)
    /\ UNCHANGED <<status, row, dirty, breaker, faults>>

ProcessBar(n, s, p) ==
    /\ Free /\ status[n] = "RUNNING"
    /\ pf' = [pf EXCEPT ![n] = Marked(@, [t \in {s} |-> p])]
    /\ ThenPersist(n)
    /\ UNCHANGED <<status, row, dirty, breaker, faults>>

\* _persist_session: one transaction that writes the whole session.
PersistSession ==
    /\ lock = "persist"
    /\ \E n \in holder :
          \/ /\ row' = [row EXCEPT ![n] = {[status |-> status[n], pf |-> pf[n]]}]
             /\ dirty' = dirty \ {n}
             /\ UNCHANGED faults
          \/ /\ Fault
             /\ dirty' = dirty \cup {n}
             /\ UNCHANGED row
    /\ Return
    /\ UNCHANGED <<status, pf, breaker>>

-----------------------------------------------------------------------------
(***************************************************************************)
(* submit_manual_order                                                      *)
(***************************************************************************)

StatusAdmits(n, side) ==
    \/ status[n] \in {"CREATED", "RUNNING"}
    \/ status[n] = "PAUSED" /\ side = "SELL"

\* The order passes the status and, if it is not a liquidation, the breaker.
AdmitOrder(n, o) ==
    /\ Free
    /\ StatusAdmits(n, o.side)
    /\ ~breaker.halted \/ o.side = "SELL"
    /\ pf[n].trades < MaxTrades
    /\ lock' = "fill" /\ holder' = {n} /\ order' = {o}
    /\ UNCHANGED <<status, pf, row, dirty, breaker, faults>>

\* A price that is not finite, a closed market, a stale or future quote: the
\* rejected order is appended to the session, which is committed.
RejectOrder(n) ==
    /\ Free
    /\ \E side \in {"BUY", "SELL"} : StatusAdmits(n, side)
    /\ ThenPersist(n)
    /\ UNCHANGED <<status, pf, row, dirty, breaker, faults>>

\* calculate_fill_price
FillPrice(side, price) ==
    IF side = "BUY" THEN price + Slippage
    ELSE IF price - Slippage < MinSellPrice THEN MinSellPrice ELSE price - Slippage

\* Mutant: the drawdown limits are not looked at.
RiskApprovesAnyDrawdown(p, o) ==
    IF o.side = "SELL" THEN o.qty <= p.pos[o.symbol].qty
    ELSE /\ o.qty * o.price * 100 <= MaxTradePct * Equity(p)
         /\ ~DailyLossReached(p, MaxDailyLossPct)
         /\ Cardinality(Open(p)) < MaxOpenPositions
         /\ p.cash >= Outflow(o.qty, FillPrice("BUY", o.price), Fee)

\* evaluate_risk: holdings for a sell; RiskEngine.evaluate and the cash, costs
\* and slippage included, for a buy.
RiskApproves(p, o) ==
    IF o.side = "SELL" THEN o.qty <= p.pos[o.symbol].qty
    ELSE /\ o.qty * o.price * 100 <= MaxTradePct * Equity(p)
         /\ ~DailyLossReached(p, MaxDailyLossPct)
         /\ p.maxDd < 90 * MaxDrawdownPct
         /\ Cardinality(Open(p)) < MaxOpenPositions
         /\ p.cash >= Outflow(o.qty, FillPrice("BUY", o.price), Fee)

\* submit_paper_order and on_fill.
AfterFill(p, o) ==
    LET price == FillPrice(o.side, o.price) IN
    IF o.side = "BUY" THEN Bought(p, o.symbol, o.qty, price, o.price, Fee)
    ELSE {Sold(p, o.symbol, o.qty, price, Fee)}

Fills(p, o) ==
    /\ RiskApproves(p, o)
    /\ FillAccepted(p, o.side, o.symbol, o.qty, FillPrice(o.side, o.price), Fee)

FillOrder ==
    /\ lock = "fill"
    /\ \E n \in holder, o \in order :
          /\ \/ /\ Fills(pf[n], o)
                /\ \E p \in AfterFill(pf[n], o) : pf' = [pf EXCEPT ![n] = p]
                /\ breaker' = Reported(breaker, Equity(pf'[n]))
             \/ ~Fills(pf[n], o) /\ UNCHANGED <<pf, breaker>>
          /\ ThenPersist(n)
    /\ UNCHANGED <<status, row, dirty, faults>>

-----------------------------------------------------------------------------
\* The process dies and is started again: get_session reads the row, and the
\* breaker restores a halt it recorded, or forgets what it knew.
Crash ==
    /\ Fault
    /\ status' = [n \in Sessions |->
                    IF row[n] = {} THEN "NONE" ELSE (CHOOSE r \in row[n] : TRUE).status]
    /\ pf' = [n \in Sessions |->
                IF row[n] = {} THEN Initialize(Capital[n])
                ELSE (CHOOSE r \in row[n] : TRUE).pf]
    /\ breaker' =
         IF breaker.saved = {} THEN FreshBreaker
         ELSE LET s == CHOOSE s \in breaker.saved : TRUE
              IN  [halted |-> TRUE, hwm |-> s.hwm, dayStart |-> s.dayStart,
                   equity |-> s.equity, saved |-> breaker.saved]
    /\ Return
    /\ dirty' = {}
    /\ UNCHANGED row

Init ==
    /\ status = [n \in Sessions |-> "NONE"]
    /\ pf = [n \in Sessions |-> Initialize(Capital[n])]
    /\ row = [n \in Sessions |-> {}]
    /\ lock = "free" /\ holder = {} /\ order = {}
    /\ dirty = {}
    /\ breaker = FreshBreaker
    /\ faults = 0

Call(n) ==
    \/ CreateSession(n)
    \/ \E s \in {"RUNNING", "PAUSED", "STOPPED"} : SetStatus(n, s)
    \/ ResetDailyMetrics(n)
    \/ \E s \in Symbols, p \in Prices : ProcessBar(n, s, p)
    \/ RejectOrder(n)
    \/ \E o \in Order : AdmitOrder(n, o)

Next ==
    \/ \E n \in Sessions : Call(n)
    \/ FillOrder \/ PersistSession
    \/ Halt \/ Rearm
    \/ Crash

Spec == Init /\ [][Next]_vars

-----------------------------------------------------------------------------
\* A call that returned is durable: what a session shows while no call is in
\* progress is what its row says, unless its last call raised.
AnsweredMeansDurable ==
    Free => \A n \in Sessions \ dirty :
        status[n] # "NONE" => row[n] = {[status |-> status[n], pf |-> pf[n]]}

\* The only money that the books lose or invent is the rounding of average
\* prices: half a tick for each share held when a price was averaged, over
\* any number of fills, marks, restarts and lost commits.
LedgerDriftBounded ==
    \A n \in Sessions :
        2 * Abs(Imbalance(pf[n], Capital[n])) <= pf[n].averaged

\* This step is a fill.
Filling == lock = "fill" /\ lock' = "persist"

\* No session buys while its equity, as last marked, is nine tenths of the
\* drawdown limit under its peak (to the half basis point that the recorded
\* drawdown is rounded by).
DrawdownStopsBuying ==
    [][\A n \in Sessions, s \in Symbols :
          Filling /\ pf'[n].pos[s].qty > pf[n].pos[s].qty =>
             20000 * (pf[n].hwm - Equity(pf[n])) < (180 * MaxDrawdownPct + 1) * pf[n].hwm]_vars

\* Neither a recovery, nor a new day, nor a restart from the disk, nor the commit
\* of a call after one that was lost, forgives a drawdown that was committed.
DrawdownNeverForgiven ==
    [][\A n \in Sessions : \A old \in row[n], new \in row'[n] :
          new.pf.hwm >= old.pf.hwm /\ new.pf.maxDd >= old.pf.maxDd]_vars

=============================================================================
