---------------------------- MODULE BarStrategies ----------------------------
(***************************************************************************)
(* The strategies that are called bar by bar and keep a memory of their own *)
(* between calls (on_bar of quant/strategies): the opening range breakout,  *)
(* buy and hold, and the SMA crossover, which remembers nothing.  Each call *)
(* may change the memory and propose to enter or to exit.  Stops, targets   *)
(* and sizes, which the caller may ignore, are left out.                    *)
(***************************************************************************)
EXTENDS DataQuality

CONSTANTS
    RangeBars,               \* range_bars of the breakout
    FastPeriod, SlowPeriod,  \* of the crossover
    None                     \* no day, no proposal

ASSUME StrategyAssumption ==
    /\ RangeBars \in Nat \ {0}
    /\ SlowPeriod \in Nat /\ FastPeriod \in 1 .. SlowPeriod
    /\ None \notin Nat \cup {"enter", "exit"}

NewMemory ==
    [day |-> None, count |-> 0, high |-> 0, low |-> 0, taken |-> FALSE, entered |-> {}]

-----------------------------------------------------------------------------
(* OpeningRangeBreakout: one range for all symbols it is called with.       *)

\* Mutant: a new day does not begin a new session.
SameSession(m, bar) ==
    IF m.day = None THEN [NewMemory EXCEPT !.day = DayUtc(bar.time)] ELSE m

Session(m, bar) ==
    IF DayUtc(bar.time) # m.day THEN [NewMemory EXCEPT !.day = DayUtc(bar.time)] ELSE m

FormsRange(m, bar) == Session(m, bar).count < RangeBars

Breaks(m, bar, held) ==
    LET s == Session(m, bar)
    IN  ~FormsRange(m, bar) /\ ~held /\ ~s.taken /\ bar.close > s.high

AfterBreakoutBar(m, bar, held) ==
    LET s == Session(m, bar)
        first == s.count = 0
        c == [s EXCEPT !.count = @ + 1]
    IN  IF FormsRange(m, bar)
        THEN [c EXCEPT !.high = IF first \/ bar.high > @ THEN bar.high ELSE @,
                       !.low = IF first \/ bar.low < @ THEN bar.low ELSE @]
        ELSE [c EXCEPT !.taken = @ \/ Breaks(m, bar, held)]

-----------------------------------------------------------------------------
(* BuyAndHold: an entry proposed is an entry made, whatever became of it.   *)

EntersFirst(m, bar, held) == ~held /\ bar.symbol \notin m.entered

-----------------------------------------------------------------------------
(* SMACross: `seen' are the closes before the bar and that of the bar.      *)

SumOfLast(closes, last, period) ==
    FoldSeq(LAMBDA x, sum : x + sum, 0, SubSeq(closes, last - period + 1, last))

\* -1, 0 or 1: the fast mean against the slow one, `back' bars ago.
Above(closes, back) ==
    LET last == Len(closes) - back
        fast == SumOfLast(closes, last, FastPeriod) * SlowPeriod
        slow == SumOfLast(closes, last, SlowPeriod) * FastPeriod
    IN  IF fast > slow THEN 1 ELSE IF fast < slow THEN -1 ELSE 0

Warm(closes) == Len(closes) > SlowPeriod
GoldenCross(closes) == Warm(closes) /\ Above(closes, 0) = 1 /\ Above(closes, 1) <= 0
DeathCross(closes) == Warm(closes) /\ Above(closes, 0) = -1 /\ Above(closes, 1) >= 0

-----------------------------------------------------------------------------
(* One call of on_bar.                                                      *)

Proposal(kind, m, bar, closes, held) ==
    CASE kind = "orb" -> IF Breaks(m, bar, held) THEN "enter" ELSE None
      [] kind = "hold" -> IF EntersFirst(m, bar, held) THEN "enter" ELSE None
      [] kind = "sma" -> IF ~held /\ GoldenCross(closes) THEN "enter"
                         ELSE IF held /\ DeathCross(closes) THEN "exit" ELSE None

AfterBar(kind, m, bar, held) ==
    CASE kind = "orb" -> AfterBreakoutBar(m, bar, held)
      [] kind = "hold" -> IF held THEN m ELSE [m EXCEPT !.entered = @ \cup {bar.symbol}]
      [] kind = "sma" -> m

=============================================================================
