-------------------------- MODULE StrategyDispatch --------------------------
(***************************************************************************)
(* The strategy registry of quant/strategies/registry.py and the point in   *)
(* time evaluation of its strategies (evaluate_data), with the daemon's     *)
(* scanner that supplies their market data.  Market data is a record that   *)
(* has only the fields its producer filled in, as the dictionary it is in   *)
(* the code.  Prices are in ticks, the ATR multiples in tenths.             *)
(***************************************************************************)
EXTENDS Integers

\* The classes the registry knows, under the names manifests use for them.
Registered ==
    [STRAT_EMA_MOMENTUM        |-> "SMACross",
     STRAT_VWAP_REVERSION      |-> "VWAPReversion",
     STRAT_ORB                 |-> "OpeningRangeBreakout",
     BUY_AND_HOLD              |-> "BuyAndHold",
     STRAT_DONCHIAN_BREAKOUT   |-> "DonchianBreakout",
     STRAT_BOLLINGER_REVERSION |-> "BollingerReversion"]

IsRegistered(name) == name \in DOMAIN Registered

Field(data, name, default) == IF name \in DOMAIN data THEN data[name] ELSE default

\* validate_parameters: each parameter that is present is in its range.
ValidParameters(p) ==
    /\ Field(p, "stop_loss_atr", 15) \in 1..200
    /\ Field(p, "target_atr", 30) \in 1..500
    /\ Field(p, "risk_multiplier", 10) \in 1..50
    /\ Field(p, "fast_period", 1) > 0 /\ Field(p, "slow_period", 1) > 0
    /\ {"fast_period", "slow_period"} \subseteq DOMAIN p => p["fast_period"] < p["slow_period"]
    /\ Field(p, "allocation_pct", 10) \in 1..10

-----------------------------------------------------------------------------
(* What each strategy buys on.                                             *)

\* The entry condition of a class, on the facts it is given.
Setup(class, data) ==
    CASE class = "SMACross" ->
            {"sma9", "sma21"} \subseteq DOMAIN data /\ data["sma9"] > data["sma21"]
      [] class = "VWAPReversion" ->
            \/ "vwap_lower" \in DOMAIN data /\ data["price"] < data["vwap_lower"]
            \/ /\ "vwap_lower" \notin DOMAIN data /\ {"vwap", "std20"} \subseteq DOMAIN data
               /\ data["price"] < data["vwap"] - 2 * data["std20"]
      [] class = "OpeningRangeBreakout" ->
            "opening_high" \in DOMAIN data /\ data["price"] > data["opening_high"]
      [] class = "DonchianBreakout" ->
            "high_20" \in DOMAIN data /\ data["price"] > data["high_20"]
      [] class = "BollingerReversion" ->
            "lower_bb" \in DOMAIN data /\ data["price"] < data["lower_bb"]
      [] OTHER -> TRUE     \* buy and hold: a strategy made anew has entered nothing

\* The evidence a class decides on is absent: only these two then look at the
\* signal of whoever scanned the symbol.
FallsBack(class, data) ==
    \/ class = "SMACross" /\ ~({"sma9", "sma21"} \subseteq DOMAIN data)
    \/ class = "DonchianBreakout" /\ "high_20" \notin DOMAIN data

\* evaluate_data: BUY or WAIT.
Signal(class, data) ==
    IF \/ Setup(class, data)
       \/ FallsBack(class, data) /\ Field(data, "signal", "WAIT") = "BUY"
    THEN "BUY" ELSE "WAIT"

\* The stop and the target the decision carries, those dispatch_symbol fills in included.
StopOf(class, data, p) ==
    IF class = "BuyAndHold" THEN (data["price"] * 9) \div 10
    ELSE data["price"] - (Field(p, "stop_loss_atr", 15) * data["atr"]) \div 10

TargetOf(class, data, p) ==
    IF class = "VWAPReversion" /\ "vwap" \in DOMAIN data THEN data["vwap"]
    ELSE IF class = "BollingerReversion" THEN Field(data, "sma20", data["price"])
    ELSE data["price"] + (Field(p, "target_atr", 30) * data["atr"]) \div 10

\* dispatch_symbol: an unknown strategy waits.
Dispatch(name, data, p) ==
    IF ~IsRegistered(name) THEN [signal |-> "WAIT"]
    ELSE LET class == Registered[name]
         IN IF Signal(class, data) = "BUY"
            THEN [signal |-> "BUY", stop |-> StopOf(class, data, p),
                  target |-> TargetOf(class, data, p)]
            ELSE [signal |-> "WAIT"]

-----------------------------------------------------------------------------
(* The daemon's scanner.                                                   *)

\* The signal scan_symbol computes of its own, from all it knows of the symbol.
ScannerSignal(m) ==
    IF \/ m["sma9"] > m["sma21"] /\ m["rsi"] < 65
       \/ 2 * m["price"] < 2 * m["vwap"] - 3 * m["std20"] /\ m["rsi"] < 35
    THEN "BUY" ELSE "WAIT"

\* scan_symbol: what it returns of a symbol with enough bars.
Scan(m) == [price |-> m["price"], atr |-> m["atr"], rsi |-> m["rsi"], signal |-> ScannerSignal(m)]

=============================================================================
