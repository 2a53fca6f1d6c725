---------------------------- MODULE PaperPortfolio ----------------------------
(***************************************************************************)
(* The accounting of services/paper-engine/session.py: what a fill, a mark  *)
(* and a new day do to a PaperPortfolio, and the audit that                 *)
(* services/execution_gateway/reconciliation_engine.py makes of it.  Pure   *)
(* operators on a portfolio record.                                         *)
(*                                                                          *)
(* Money is counted in ticks of INR 0.0001: the code rounds every amount to *)
(* four decimals, so sums and products of ticks are exact and a division is *)
(* where rounding happens.                                                  *)
(***************************************************************************)
EXTENDS Integers, FiniteSetsExt

CONSTANT Symbols

Abs(n) == IF n < 0 THEN -n ELSE n

\* round(n / d, 4) for n >= 0: half a tick goes either way, since the quotient
\* that Python rounds is itself an approximation.
Rounded(n, d) == {a \in {n \div d, n \div d + 1} : 2 * Abs(a * d - n) <= d}

\* No entry in `positions'.
NoPosition == [qty |-> 0, avg |-> 0, cost |-> 0, price |-> 0]

Open(pf) == {s \in Symbols : pf.pos[s].qty > 0}

\* market_value_of_positions and total_equity
MarketValue(pf) == MapThenSumSet(LAMBDA s : pf.pos[s].qty * pf.pos[s].price, Symbols)
Equity(pf) == pf.cash + MarketValue(pf)

\* `averaged' is not in the code: the shares held after each buy that averaged
\* a price, added up.
Initialize(capital) ==
    [cash |-> capital, pos |-> [s \in Symbols |-> NoPosition],
     realized |-> 0, fees |-> 0, trades |-> 0,
     hwm |-> capital, dayStart |-> capital, maxDd |-> 0, averaged |-> 0]

\* _update_pnl_and_hwm; max_drawdown_pct is kept in basis points, as rounded.
Revalued(pf) ==
    LET eq == Equity(pf)
        peak == IF eq > pf.hwm THEN eq ELSE pf.hwm
        loss == peak - eq
    IN  [pf EXCEPT !.hwm = peak,
                   !.maxDd = IF loss * 10000 > @ * peak
                             THEN (2 * loss * 10000 + peak) \div (2 * peak) ELSE @]

-----------------------------------------------------------------------------
(***************************************************************************)
(* on_fill: everything is validated before anything is changed.             *)
(***************************************************************************)

Outflow(q, price, fee) == q * price + fee

FillAccepted(pf, side, s, q, price, fee) ==
    IF side = "BUY" THEN pf.cash >= Outflow(q, price, fee)
    ELSE q <= pf.pos[s].qty

\* ref is the price before slippage: a new position is marked at it.
BoughtPosition(p, q, price, ref) ==
    IF p.qty = 0
    THEN {[qty |-> q, avg |-> price, cost |-> q * price, price |-> ref]}
    ELSE {[p EXCEPT !.qty = @ + q, !.cost = @ + q * price, !.avg = a] :
            a \in Rounded(p.cost + q * price, p.qty + q)}

Bought(pf, s, q, price, ref, fee) ==
    LET held == pf.pos[s].qty IN
    {Revalued([pf EXCEPT !.cash = @ - Outflow(q, price, fee),
                         !.pos[s] = p,
                         !.fees = @ + fee,
                         !.trades = @ + 1,
                         !.averaged = @ + IF held > 0 THEN held + q ELSE 0]) :
        p \in BoughtPosition(pf.pos[s], q, price, ref)}

\* Mutant: the cost basis of what was sold stays in the books.
SoldPositionAtCost(p, q) == IF q = p.qty THEN NoPosition ELSE [p EXCEPT !.qty = @ - q]

SoldPosition(p, q) ==
    IF q = p.qty THEN NoPosition
    ELSE [p EXCEPT !.qty = @ - q, !.cost = (p.qty - q) * p.avg]

Sold(pf, s, q, price, fee) ==
    Revalued([pf EXCEPT !.cash = @ + q * price - fee,
                        !.pos[s] = SoldPosition(@, q),
                        !.realized = @ + q * price - q * pf.pos[s].avg,
                        !.fees = @ + fee,
                        !.trades = @ + 1])

-----------------------------------------------------------------------------
\* mark_to_market, without the unrealized profit, which nothing decides on.
Marked(pf, prices) ==
    Revalued([pf EXCEPT !.pos = [s \in Symbols |->
        IF s \in Open(pf) \cap DOMAIN prices
        THEN [@[s] EXCEPT !.price = prices[s]] ELSE @[s]]])

\* Mutant: a new day forgives the drawdown.
NewDayForgiving(pf, open) == [pf EXCEPT !.dayStart = open, !.maxDd = 0]

\* reset_daily_metrics
NewDay(pf, open) == [pf EXCEPT !.dayStart = open]

\* daily_loss_pct >= pct / 100
DailyLossReached(pf, pct) == (pf.dayStart - Equity(pf)) * 100 >= pct * pf.dayStart

\* audit_accounting_invariants: cash against what it should be.
Imbalance(pf, capital) ==
    pf.cash - (capital + pf.realized - pf.fees
               - MapThenSumSet(LAMBDA s : pf.pos[s].cost, Symbols))
=============================================================================
