-------------------------- MODULE OptionStrategies --------------------------
(***************************************************************************)
(* The option strategies of services/derivatives_engine/strategy_builder.py: *)
(* what each factory builds, what validate_strategy_spec asks of it and     *)
(* what it pays at expiry.  All legs have the underlying and the expiry of  *)
(* the strategy; money is in ticks.  The multiplier of a contract scales    *)
(* every amount alike and is left out.                                      *)
(***************************************************************************)
EXTENDS Integers, Sequences

\* A leg is long when its quantity is positive, short when it is negative.
Leg(type, strike, quantity, price) ==
    [type |-> type, strike |-> strike, quantity |-> quantity, entry_price |-> price]
Call(strike, quantity, price) == Leg("CALL", strike, quantity, price)
Put(strike, quantity, price)  == Leg("PUT", strike, quantity, price)

Magnitude(n) == IF n < 0 THEN -n ELSE n
Positive(n)  == IF n > 0 THEN n ELSE 0

\* No factory builds more than four legs.
At(seq, i)  == IF i \in DOMAIN seq THEN seq[i] ELSE 0
SumLegs(seq) == At(seq, 1) + At(seq, 2) + At(seq, 3) + At(seq, 4)

-----------------------------------------------------------------------------
(* Validation.                                                             *)

\* OptionContract and OptionLeg, whose constructors refuse anything else.
LegAllowed(leg) == leg.strike > 0 /\ leg.quantity # 0 /\ leg.entry_price >= 0

\* The whole lots of a quantity; a lot size below one is not looked at.
InLots(quantity, lot) ==
    lot > 0 => \E n \in 0..Magnitude(quantity) : Magnitude(quantity) = n * lot

SameLeg(a, b) ==
    a.type = b.type /\ a.strike = b.strike /\ (a.quantity > 0 <=> b.quantity > 0)

\* validate_strategy_spec
ValidSpec(legs, lot) ==
    /\ legs # <<>>
    /\ \A i \in DOMAIN legs : LegAllowed(legs[i]) /\ InLots(legs[i].quantity, lot)
    /\ \A i, j \in DOMAIN legs : i # j => ~SameLeg(legs[i], legs[j])

-----------------------------------------------------------------------------
(* Payoff.                                                                 *)

Intrinsic(leg, spot) ==
    IF leg.type = "CALL" THEN Positive(spot - leg.strike) ELSE Positive(leg.strike - spot)

\* calculate_strategy_payoff: the premium, the payoff at expiry and the profit.
Premium(legs) == SumLegs([i \in DOMAIN legs |-> -(legs[i].quantity * legs[i].entry_price)])
Payoff(legs, spot) == SumLegs([i \in DOMAIN legs |-> legs[i].quantity * Intrinsic(legs[i], spot)])
Pnl(legs, spot, costs) == Premium(legs) - costs + Payoff(legs, spot)

\* run_backtest of strategy_backtester.py charges its entry by the leg and the lot.
EntryFees(legs, commission, lot) == Len(legs) * commission * lot
Contracts(legs) == SumLegs([i \in DOMAIN legs |-> Magnitude(legs[i].quantity)])

-----------------------------------------------------------------------------
(* The factories.  Strikes must ascend; prices are those of the legs.      *)

Ascending(k) == \A i, j \in DOMAIN k : i < j => k[i] < k[j]

BullCallSpread(k, p, lot) == << Call(k[1], lot, p[1]), Call(k[2], -lot, p[2]) >>
BearCallSpread(k, p, lot) == << Call(k[1], -lot, p[1]), Call(k[2], lot, p[2]) >>
BullPutSpread(k, p, lot)  == << Put(k[1], lot, p[1]), Put(k[2], -lot, p[2]) >>
BearPutSpread(k, p, lot)  == << Put(k[1], -lot, p[1]), Put(k[2], lot, p[2]) >>

IronCondor(k, p, lot) ==
    << Put(k[1], lot, p[1]), Put(k[2], -lot, p[2]), Call(k[3], -lot, p[3]), Call(k[4], lot, p[4]) >>

Butterfly(k, p, lot) ==
    << Call(k[1], lot, p[1]), Call(k[2], -2 * lot, p[2]), Call(k[3], lot, p[3]) >>

\* The legs of the options only: the stock they protect is not one of them.
Collar(k, p, lot) == << Put(k[1], lot, p[1]), Call(k[2], -lot, p[2]) >>

\* A short one has the negated lot.
Strangle(k, p, quantity) == << Put(k[1], quantity, p[1]), Call(k[2], quantity, p[2]) >>

\* Both options at one strike.
Straddle(strike, p, quantity) == << Call(strike, quantity, p[1]), Put(strike, quantity, p[2]) >>
SyntheticLong(strike, p, lot) == << Call(strike, lot, p[1]), Put(strike, -lot, p[2]) >>

=============================================================================
