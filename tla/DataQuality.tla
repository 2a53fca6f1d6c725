---------------------------- MODULE DataQuality ----------------------------
(***************************************************************************)
(* The judges of a series of bars: DataQualityEngine and                    *)
(* DataQualityValidator (services/data-quality), the canonical validator    *)
(* that stands before a replay (data/schemas/canonical_market_data.py), and *)
(* the market calendar they ask (services/market-data/calendar.py).         *)
(*                                                                          *)
(* Time is counted in quarters of an hour, UTC.  A bar is a record [symbol, *)
(* exchange, time, close, volume, flat, late, bad]: `flat' when its four    *)
(* prices are equal, `late' when it is stamped as ingested before its       *)
(* market time, `bad' the set of what its numbers violate.                  *)
(***************************************************************************)
EXTENDS Naturals, Sequences, FiniteSets, SequencesExt, FiniteSetsExt

CONSTANTS
    Instruments,       \* the symbols of the instrument master
    ClosedDays,        \* weekends and holidays, as day numbers
    Now,               \* the time of the wall clock, with the tolerated skew
    MaxStaleBars,      \* max_allowed_stale_bars
    EngineSpike,       \* volume_anomaly_multiplier of DataQualityEngine
    ValidatorSpike     \* volume_anomaly_multiplier of DataQualityValidator

ASSUME QualityAssumption ==
    /\ ClosedDays \subseteq Nat
    /\ Now \in Nat /\ MaxStaleBars \in Nat
    /\ EngineSpike \in Nat \ {0} /\ ValidatorSpike \in Nat \ {0}

\* What the numbers of a bar may violate.
NumberFlaws == {"ohlc", "price", "volume"}

-----------------------------------------------------------------------------
(***************************************************************************)
(* The calendar.                                                            *)
(***************************************************************************)

DayUtc(t) == t \div 96
QuarterIst(t) == t + 22

\* A datetime is judged by the date it carries: the UTC date for a UTC time.
IsTradingDay(d) == d \notin ClosedDays

\* 09:15 to 15:30 IST, both ends included, on a trading day in IST.
IsRegularSession(t) ==
    LET ist == QuarterIst(t) IN
    /\ IsTradingDay(ist \div 96)
    /\ ist % 96 >= 37
    /\ ist % 96 <= 62

-----------------------------------------------------------------------------
(***************************************************************************)
(* Checks that both judges of services/data-quality make, whatever the      *)
(* symbols of the bars are.                                                 *)
(***************************************************************************)

HasDuplicates(bars) ==
    \E i, j \in DOMAIN bars : i < j /\ bars[i].time = bars[j].time

OutOfOrder(bars) ==
    \E i \in DOMAIN bars \ {1} : bars[i].time <= bars[i - 1].time

\* max_stale: more than MaxStaleBars flat bars in a row.
Stale(bars) ==
    \E i \in DOMAIN bars :
        /\ i + MaxStaleBars <= Len(bars)
        /\ \A j \in i .. i + MaxStaleBars : bars[j].flat

\* A bar with more than `multiple' times the mean volume of the series.
VolumeSpike(bars, multiple) ==
    LET total == FoldSeq(LAMBDA b, sum : b.volume + sum, 0, bars)
    IN  \E i \in DOMAIN bars : total > 0 /\ bars[i].volume * Len(bars) > total * multiple

Flawed(bars, flaw) == \E i \in DOMAIN bars : flaw \in bars[i].bad

-----------------------------------------------------------------------------
(***************************************************************************)
(* DataQualityEngine.validate_dataset                                       *)
(***************************************************************************)

OutOfSession(bars) == \E i \in DOMAIN bars : ~IsRegularSession(bars[i].time)
InFuture(bars) == \E i \in DOMAIN bars : bars[i].time > Now

\* Mutant: hours are not looked at.
CriticalAtAnyHour(bars, enforceHours) ==
    \/ HasDuplicates(bars) \/ OutOfOrder(bars)
    \/ \E flaw \in NumberFlaws : Flawed(bars, flaw)
    \/ InFuture(bars)

Critical(bars, enforceHours) ==
    \/ HasDuplicates(bars) \/ OutOfOrder(bars)
    \/ \E flaw \in NumberFlaws : Flawed(bars, flaw)
    \/ enforceHours /\ OutOfSession(bars)
    \/ InFuture(bars)

\* More than 30 minutes between two bars of one date.
HasGap(bars) ==
    \E i \in DOMAIN bars \ {1} :
        /\ DayUtc(bars[i].time) = DayUtc(bars[i - 1].time)
        /\ bars[i].time > bars[i - 1].time + 2

Suspicious(bars) ==
    \/ bars[1].symbol \notin Instruments
    \/ VolumeSpike(bars, EngineSpike)
    \/ Stale(bars)
    \/ \E i \in DOMAIN bars : bars[i].late
    \/ HasGap(bars)

Verdict(bars, enforceHours) ==
    IF bars = <<>> THEN "INCOMPLETE"
    ELSE IF Critical(bars, enforceHours) THEN "REJECTED"
    ELSE IF Suspicious(bars) THEN "SUSPECT" ELSE "VALID"

\* assert_trading_eligibility: critical failures, which an empty series has.
Eligible(bars, enforceHours) ==
    Verdict(bars, enforceHours) \notin {"INCOMPLETE", "REJECTED"}

\* DataQualityValidator.validate_series: order, stale bars and volume only.
SeriesVerdict(bars) ==
    IF bars = <<>> THEN "INCOMPLETE"
    ELSE IF HasDuplicates(bars) \/ OutOfOrder(bars) THEN "REJECTED"
    ELSE IF Stale(bars) \/ VolumeSpike(bars, ValidatorSpike) THEN "SUSPECT" ELSE "VALID"

-----------------------------------------------------------------------------
(***************************************************************************)
(* CanonicalMarketDataBar and CanonicalMarketDataValidator.validate_series  *)
(***************************************************************************)

\* A canonical bar with impossible numbers cannot be built.
IsCanonical(bar) == bar.bad = {}

SameSeries(a, b) == a.symbol = b.symbol /\ a.exchange = b.exchange

\* No series has two bars of one time, nor one before an earlier one.
IsValidSeries(bars) ==
    /\ bars # <<>>
    /\ \A i, j \in DOMAIN bars :
          i < j /\ SameSeries(bars[i], bars[j]) => bars[i].time < bars[j].time

=============================================================================
