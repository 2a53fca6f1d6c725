-------------------------- MODULE MCHistoricalReplay --------------------------
(* Values for the constants of HistoricalReplay. *)
EXTENDS HistoricalReplay

CONSTANTS A, B

MCSymbols == {A, B}
MCInstruments == {A}
MCRank == [s \in Symbols |-> IF s = A THEN 1 ELSE 2]

\* Day 1 trades, day 2 is a holiday, day 3 trades; 09:15 IST is quarter 15 UTC.
MCClosedDays == {2}
Open1 == 96 + 15
Noon1 == 96 + 27
Late1 == 96 + 41
Midnight3 == 288 - 22
Open3 == 288 + 15
Ahead == 288 + 30

\* Prices rise and fall with the time.
PriceAt(t) == IF t \in {Open1, Midnight3} THEN 20 ELSE IF t = Noon1 THEN 30 ELSE 10

BarAt(s, x, t) ==
    [symbol |-> s, exchange |-> x, time |-> t, close |-> PriceAt(t),
     high |-> PriceAt(t), low |-> PriceAt(t), volume |-> IF t = Noon1 THEN 30 ELSE 1,
     flat |-> t = Open3, late |-> t = Late1, bad |-> {}]

\* A plain bar of the first exchange at a close of its own.
Priced(s, t, c) == [BarAt(s, "NSE", t) EXCEPT !.close = c, !.high = c, !.low = c]

\* Two days for the breakout, its first one with a second chance after an exit;
\* a fall and a rise for the crossover.
Sessions ==
    {<<Priced(A, Open1, 20), Priced(A, Open1 + 4, 30), Priced(A, Noon1, 10), Priced(A, Noon1 + 4, 30)>>,
     <<Priced(A, Open1, 20), Priced(A, Open1 + 4, 30), Priced(A, Open3, 30), Priced(A, Open3 + 4, 40)>>,
     <<Priced(A, Open1, 30), Priced(A, Open1 + 4, 10), Priced(A, Noon1, 20), Priced(A, Noon1 + 4, 10)>>}

Plain == {BarAt(s, "NSE", t) : s \in MCSymbols, t \in {Open1, Noon1, Open3}}
Odd == {BarAt(A, "BSE", Noon1), BarAt(A, "NSE", Late1), BarAt(A, "NSE", Midnight3),
        BarAt(B, "NSE", Ahead),
        [BarAt(A, "NSE", Open1) EXCEPT !.bad = {"ohlc"}],
        [BarAt(A, "NSE", Open3) EXCEPT !.bad = {"price"}]}

MCDatasets ==
    {<<>>} \cup {<<x>> : x \in Plain \cup Odd}
           \cup {<<x, y>> : x, y \in Plain \cup Odd}
           \cup Sessions
           \cup {<<x, y, z>> : x, y \in {b \in Plain : b.time < Open3}, z \in Plain \cup Odd}

Config(symbols, from, to, holidays, hours) ==
    [symbols |-> symbols, from |-> from, to |-> to, holidays |-> holidays, hours |-> hours]

MCConfigs ==
    {Config(MCSymbols, 0, 400, TRUE, FALSE), Config(MCSymbols, 0, 400, TRUE, TRUE),
     Config({A}, Noon1, 400, FALSE, FALSE), Config(MCSymbols, 0, Noon1, FALSE, TRUE)}

MCStrategies == {"orb", "hold", "sma", "any"}
MCQuantities == {2, 4}
=============================================================================
