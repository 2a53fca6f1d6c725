-------------------------- MODULE SimulatedPortfolio --------------------------
(***************************************************************************)
(* PortfolioTracker (services/backtest-engine/portfolio.py): the cash,      *)
(* positions and accounting of a simulated portfolio, as operators on one   *)
(* record.  Money is whole; a position is {} or {[side, qty, entry, price]} *)
(* and its unrealized profit is that of the price it was last marked at.    *)
(***************************************************************************)
EXTENDS Integers, FiniteSets, FiniteSetsExt

CONSTANTS
    Symbols,
    InitialCapital,
    MaxPositions,       \* max_positions of can_open_position
    MaxCapitalPct       \* max_capital_pct, in percent

ASSUME PortfolioAssumption ==
    /\ IsFiniteSet(Symbols)
    /\ InitialCapital \in Nat \ {0}
    /\ MaxPositions \in Nat
    /\ MaxCapitalPct \in Nat

NewPortfolio ==
    [cash |-> InitialCapital, pos |-> [s \in Symbols |-> {}],
     gross |-> 0, fees |-> 0, peak |-> InitialCapital]

Held(p) == {s \in Symbols : p.pos[s] # {}}
Position(p, s) == CHOOSE x \in p.pos[s] : TRUE
SumOfPositions(p, value(_)) == MapThenSumSet(LAMBDA s : value(Position(p, s)), Held(p))

\* update_price: the gain per share times the quantity, as the side has it.
Gain(side, qty, entry, price) ==
    IF side = "BUY" THEN (price - entry) * qty ELSE (entry - price) * qty

Unrealized(p) == SumOfPositions(p, LAMBDA x : Gain(x.side, x.qty, x.entry, x.price))

\* total_equity: the cost basis of the longs only.
Equity(p) ==
    p.cash + SumOfPositions(p, LAMBDA x : IF x.side = "BUY" THEN x.qty * x.entry ELSE 0)
           + Unrealized(p)

\* can_open_position
CanOpen(p, s, qty, price) ==
    /\ p.pos[s] = {}
    /\ Cardinality(Held(p)) < MaxPositions
    /\ qty * price <= p.cash
    /\ 100 * qty * price <= Equity(p) * MaxCapitalPct

\* open_position: the cost of the fill leaves the cash, for either side.
Opened(p, s, side, qty, price, fee) ==
    [p EXCEPT !.cash = @ - qty * price - fee,
              !.fees = @ + fee,
              !.pos[s] = {[side |-> side, qty |-> qty, entry |-> price, price |-> price]}]

\* Mutant: what the sale or the purchase trades at comes back, for either side.
ClosedAtProceeds(p, s, price, fee) ==
    LET x == Position(p, s)
    IN  [p EXCEPT !.cash = @ + x.qty * price - fee,
                  !.fees = @ + fee,
                  !.gross = @ + Gain(x.side, x.qty, x.entry, price),
                  !.pos[s] = {}]

\* close_position: the cost of the entry comes back with the gross profit.
Closed(p, s, price, fee) ==
    LET x == Position(p, s)
        gross == Gain(x.side, x.qty, x.entry, price)
    IN  [p EXCEPT !.cash = @ + x.qty * x.entry + gross - fee,
                  !.fees = @ + fee,
                  !.gross = @ + gross,
                  !.pos[s] = {}]

\* mark_to_market: the position in the symbol of the bar, and the peak.
MarkedToMarket(p, s, price) ==
    LET q == [p EXCEPT !.pos[s] = {[x EXCEPT !.price = price] : x \in p.pos[s]}]
    IN  [q EXCEPT !.peak = IF Equity(q) > @ THEN Equity(q) ELSE @]

\* verify_accounting_integrity: the cost basis of every position.
IntegrityHolds(p) ==
    Equity(p) = p.cash + SumOfPositions(p, LAMBDA x : x.qty * x.entry) + Unrealized(p)

=============================================================================
