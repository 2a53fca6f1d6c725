---------------------------- MODULE StrategyProofs ----------------------------
(***************************************************************************)
(* Proofs about the way of a strategy, from its evaluation to its orders.   *)
(* First the modules that are operators alone: the windows and partitions   *)
(* of EvaluationSplits, for every configuration, every length of data and   *)
(* every date range; and the strategies of OptionStrategies, for all        *)
(* strikes, prices, lot sizes and prices of the underlying at expiry.       *)
(* Then StrategyAllocation: the bot's decisions and what the daemon trades  *)
(* under them, for any histories, markets, manifests an operator may leave, *)
(* holidays, and number of days and runs.                                   *)
(***************************************************************************)
EXTENDS EvaluationSplits, OptionStrategies, StrategyAllocation, FiniteSetTheorems,
        WellFoundedInduction, TLAPS

(* Walk-forward windows.                                                   *)

\* What a window's bounds are made of.
LEMMA StepDistance ==
    ASSUME NEW c \in WalkForwardConfig, NEW k \in Nat
    PROVE  /\ k * c.step_size \in Nat
           /\ c.initial_train_size \in Nat /\ c.test_size \in Nat \ {0}
           /\ c.step_size \in Nat \ {0} /\ c.min_train_size \in Nat
           /\ c.initial_train_size >= c.min_train_size
           /\ c.mode \in {"EXPANDING", "ROLLING"}
<1>1. c.step_size \in Nat
  BY DEF WalkForwardConfig
<1>2. k * c.step_size \in Nat
  BY <1>1, SMT
<1> QED
  BY <1>2 DEF WalkForwardConfig

\* The windows advance: each step moves the whole window on by the step size.
LEMMA StepsAdvance ==
    ASSUME NEW c \in WalkForwardConfig, NEW j \in Nat, NEW k \in Nat, j < k
    PROVE  j * c.step_size + c.step_size <= k * c.step_size
<1> DEFINE s == c.step_size
<1>1. s \in Nat
  BY StepDistance
<1>2. PICK d \in Nat : k = j + 1 + d
  <2>1. k - j - 1 \in Nat /\ k = j + 1 + (k - j - 1)
    OBVIOUS
  <2> QED
    BY <2>1
<1> HIDE DEF s
<1>3. k * s = j * s + s + d * s /\ d * s \in Nat /\ j * s \in Nat
  BY <1>1, <1>2, SMT
<1>4. j * s + s <= k * s
  BY <1>1, <1>3, SMT
<1> QED
  BY <1>4 DEF s

\* The loop of generate_windows stops at the first window that leaves the data, and no
\* later one would fit: what it returns is every window that does.  The error after
\* the loop cannot be raised, because a data set that passes the first check has a
\* window.
THEOREM EveryWindowThatFits ==
    ASSUME NEW c \in WalkForwardConfig, NEW n \in Nat
    PROVE  /\ Steps(c, n) = {k \in Nat : TestEnd(c, k) <= n}
           /\ Sufficient(c, n) <=> Steps(c, n) # {}
<1>1. ASSUME NEW k \in Nat, TestEnd(c, k) <= n, NEW j \in 0..k
      PROVE  TestEnd(c, j) <= n
  <2>1. CASE j = k
    BY <1>1, <2>1
  <2>2. CASE j < k
    <3>1. j * c.step_size + c.step_size <= k * c.step_size
      BY <2>2, StepsAdvance
    <3>2. j * c.step_size \in Nat /\ k * c.step_size \in Nat
      BY StepDistance
    <3> QED
      BY <1>1, <3>1, <3>2, StepDistance DEF TestEnd, TrainEnd
  <2> QED
    BY <2>1, <2>2
<1>2. Steps(c, n) = {k \in Nat : TestEnd(c, k) <= n}
  BY <1>1 DEF Steps
<1>3. \A k \in Nat : TestEnd(c, k) >= c.initial_train_size + c.test_size
  BY StepDistance DEF TestEnd, TrainEnd
<1>4. TestEnd(c, 0) = c.initial_train_size + c.test_size
  <2>1. 0 * c.step_size = 0
    BY StepDistance
  <2> QED
    BY <2>1, StepDistance DEF TestEnd, TrainEnd
<1>5. \A k \in Nat : TestEnd(c, k) \in Nat
  BY StepDistance DEF TestEnd, TrainEnd
<1> QED
  BY <1>2, <1>3, <1>4, <1>5, StepDistance DEF Sufficient

\* No window trains on a bar that it or any later window tests, every bar it uses is in
\* the data, and its training holds at least the minimum.
THEOREM TrainingPrecedesTests ==
    ASSUME NEW c \in WalkForwardConfig, NEW n \in Nat,
           NEW j \in Steps(c, n), NEW k \in Steps(c, n), j <= k
    PROVE  /\ \A x \in Train(c, j), y \in Test(c, k) : x < y
           /\ Train(c, k) \cup Test(c, k) \subseteq 0 .. n - 1
           /\ TrainEnd(c, k) - TrainStart(c, k) >= c.min_train_size
<1> j \in Nat /\ k \in Nat
  BY DEF Steps
<1>1. j * c.step_size \in Nat /\ k * c.step_size \in Nat
  BY StepDistance
<1>2. j * c.step_size <= k * c.step_size
  <2>1. CASE j = k
    BY <2>1, <1>1
  <2>2. CASE j < k
    <3>1. j * c.step_size + c.step_size <= k * c.step_size
      BY <2>2, StepsAdvance
    <3> QED
      BY <3>1, <1>1, StepDistance
  <2> QED
    BY <2>1, <2>2
<1>3. TestEnd(c, k) <= n
  BY EveryWindowThatFits
<1>4. TrainStart(c, k) \in {0, k * c.step_size}
  BY DEF TrainStart
<1>5. \A x \in Train(c, j), y \in Test(c, k) : x < y
  BY <1>1, <1>2, StepDistance DEF Train, Test, TrainStart, TrainEnd, TestEnd
<1>6. Train(c, k) \cup Test(c, k) \subseteq 0 .. n - 1
  BY <1>1, <1>3, <1>4, StepDistance DEF Train, Test, TrainEnd, TestEnd
<1>7. TrainEnd(c, k) - TrainStart(c, k) >= c.min_train_size
  BY <1>1, <1>4, StepDistance DEF TrainEnd
<1> QED
  BY <1>5, <1>6, <1>7

\* The results of the windows are out of sample of each other exactly when the step is
\* no smaller than the test, which WalkForwardConfig does not ask for: a smaller step
\* tests bars again in the next window, that validate_no_leakage already showed in
\* this one.
THEOREM TestsDisjointByStep ==
    ASSUME NEW c \in WalkForwardConfig
    PROVE  /\ c.step_size >= c.test_size =>
                \A j, k \in Nat : j < k =>
                    /\ Test(c, j) \cap Test(c, k) = {}
                    /\ \A i \in Nat : Permitted(c, j, i) => i \notin Test(c, k)
           /\ c.step_size < c.test_size =>
                \A k \in Nat : \E i \in Test(c, k) \cap Test(c, k + 1) : Permitted(c, k, i)
<1>1. ASSUME c.step_size >= c.test_size, NEW j \in Nat, NEW k \in Nat, j < k
      PROVE  /\ Test(c, j) \cap Test(c, k) = {}
             /\ \A i \in Nat : Permitted(c, j, i) => i \notin Test(c, k)
  <2>1. j * c.step_size + c.step_size <= k * c.step_size
    BY <1>1, StepsAdvance
  <2>2. j * c.step_size \in Nat /\ k * c.step_size \in Nat
    BY StepDistance
  <2>3. TestEnd(c, j) <= TrainEnd(c, k) /\ TestEnd(c, j) \in Nat /\ TrainEnd(c, k) \in Nat
    BY <1>1, <2>1, <2>2, StepDistance DEF TestEnd, TrainEnd
  <2> QED
    BY <2>3 DEF Test, Permitted
<1>2. ASSUME c.step_size < c.test_size, NEW k \in Nat
      PROVE  \E i \in Test(c, k) \cap Test(c, k + 1) : Permitted(c, k, i)
  <2>1. k * c.step_size \in Nat /\ (k + 1) * c.step_size = k * c.step_size + c.step_size
    <3> DEFINE s == c.step_size
    <3>1. s \in Nat
      BY StepDistance
    <3> HIDE DEF s
    <3>2. k * s \in Nat /\ (k + 1) * s = k * s + s
      BY <3>1, SMT
    <3> QED
      BY <3>2 DEF s
  <2>2. TrainEnd(c, k + 1) = TrainEnd(c, k) + c.step_size /\ TrainEnd(c, k) \in Nat
    BY <2>1, StepDistance DEF TrainEnd
  <2>3. /\ TrainEnd(c, k + 1) \in Test(c, k) \cap Test(c, k + 1)
        /\ Permitted(c, k, TrainEnd(c, k + 1))
    BY <1>2, <2>2, StepDistance DEF Test, TestEnd, Permitted
  <2> QED
    BY <2>3
<1> QED
  BY <1>1, <1>2

-----------------------------------------------------------------------------
(* Partitions of a date range.                                             *)

\* Whatever validate_partition_chronology accepts shares no instant, and is in order.
LEMMA ChronologicalIsDisjoint ==
    ASSUME NEW parts, Chronological(parts), DOMAIN parts \subseteq Nat,
           \A i \in DOMAIN parts : parts[i].first \in Int /\ parts[i].last \in Int,
           NEW i \in DOMAIN parts, NEW j \in DOMAIN parts, i < j
    PROVE  \A x \in Instants(parts[i]), y \in Instants(parts[j]) : x < y
  BY DEF Chronological, Instants

\* What a split into three is accepted for.
LEMMA SplitChronological ==
    ASSUME NEW n \in Nat, NEW trainLast \in Int, NEW valLast \in Int
    PROVE  Chronological(Split(n, trainLast, valLast))
              <=> 0 < trainLast /\ trainLast + 1 < valLast /\ valLast + 1 < n
<1> DEFINE parts == Split(n, trainLast, valLast)
<1>1. /\ DOMAIN parts = 1..3
      /\ parts[1] = Partition("TRAIN", 0, trainLast)
      /\ parts[2] = Partition("VALIDATION", trainLast + 1, valLast)
      /\ parts[3] = Partition("TEST", valLast + 1, n)
  BY DEF Split
<1>2. TypeOrder["TRAIN"] = 1 /\ TypeOrder["VALIDATION"] = 2 /\ TypeOrder["TEST"] = 3
  BY DEF TypeOrder
<1> HIDE DEF parts
<1>3. ASSUME Chronological(parts)
      PROVE  0 < trainLast /\ trainLast + 1 < valLast /\ valLast + 1 < n
  BY <1>1, <1>3 DEF Chronological, Partition
<1>4. ASSUME 0 < trainLast, trainLast + 1 < valLast, valLast + 1 < n
      PROVE  Chronological(parts)
  <2>1. \A i \in 1..3 : parts[i].first < parts[i].last
    BY <1>1, <1>4 DEF Partition
  <2>2. ASSUME NEW i \in 1..3, NEW j \in 1..3, i < j
        PROVE  /\ TypeOrder[parts[j].type] >= TypeOrder[parts[i].type]
               /\ parts[j].first >= parts[i].first
               /\ parts[j].first > parts[i].last
    <3>1. CASE i = 1 /\ j = 2
      BY <1>1, <1>2, <1>4, <3>1 DEF Partition
    <3>2. CASE i = 1 /\ j = 3
      BY <1>1, <1>2, <1>4, <3>2 DEF Partition
    <3>3. CASE i = 2 /\ j = 3
      BY <1>1, <1>2, <1>4, <3>3 DEF Partition
    <3> QED
      BY <2>2, <3>1, <3>2, <3>3
  <2> QED
    BY <1>1, <2>1, <2>2 DEF Chronological
<1> QED
  BY <1>3, <1>4 DEF parts

\* The shares of days and seconds are natural numbers.
LEMMA SharesAreNat ==
    ASSUME NEW n \in Nat, NEW p \in Shares
    PROVE  /\ TrainDays(n, p) \in Nat \ {0} /\ ValDays(n, p) \in Nat \ {0}
           /\ (n * p.train) \div 100 \in Nat
           /\ (n * (p.train + p.val)) \div 100 \in Nat
<1>1. p.train \in Nat /\ p.val \in Nat /\ p.train + p.val \in Nat
  BY DEF Shares
<1>2. n * p.train \in Nat /\ n * p.val \in Nat /\ n * (p.train + p.val) \in Nat
  BY <1>1, SMT
<1>3. \A x \in Nat : x \div 100 \in Nat
  BY SMT
<1> QED
  BY <1>2, <1>3 DEF TrainDays, ValDays, AtLeastOne

\* Every accepted split gives each day, or each second, of the range to one partition
\* only, and nothing tested comes before anything trained or validated on.
THEOREM SplitsAreSound ==
    ASSUME NEW n \in Nat, NEW p \in Shares, NEW parts,
           \/ parts = DaySplit(n, p) /\ DaysAccepted(n, p)
           \/ parts = SecondSplit(n, p) /\ SecondsAccepted(n, p)
    PROVE  /\ UNION {Instants(parts[i]) : i \in 1..3} = 0..n
           /\ \A i, j \in 1..3 : i < j =>
                 \A x \in Instants(parts[i]), y \in Instants(parts[j]) : x < y
<1>1. PICK trainLast \in Int, valLast \in Int :
         /\ parts = Split(n, trainLast, valLast) /\ Chronological(parts)
  <2>1. CASE parts = DaySplit(n, p) /\ DaysAccepted(n, p)
    BY <2>1, SharesAreNat DEF DaySplit, DaysAccepted
  <2>2. CASE parts = SecondSplit(n, p) /\ SecondsAccepted(n, p)
    BY <2>2, SharesAreNat DEF SecondSplit, SecondsAccepted
  <2> QED
    BY <2>1, <2>2
<1>2. 0 < trainLast /\ trainLast + 1 < valLast /\ valLast + 1 < n
  BY <1>1, SplitChronological
<1>3. /\ DOMAIN parts = 1..3
      /\ Instants(parts[1]) = 0 .. trainLast
      /\ Instants(parts[2]) = trainLast + 1 .. valLast
      /\ Instants(parts[3]) = valLast + 1 .. n
  BY <1>1 DEF Split, Partition, Instants
<1>4. UNION {Instants(parts[i]) : i \in 1..3}
        = Instants(parts[1]) \cup Instants(parts[2]) \cup Instants(parts[3])
  OBVIOUS
<1>5. UNION {Instants(parts[i]) : i \in 1..3} = 0..n
  BY <1>2, <1>3, <1>4
<1>6. ASSUME NEW i \in 1..3, NEW j \in 1..3, i < j
      PROVE  \A x \in Instants(parts[i]), y \in Instants(parts[j]) : x < y
  <2>1. CASE i = 1 /\ j = 2
    BY <1>2, <1>3, <2>1
  <2>2. CASE i = 1 /\ j = 3
    BY <1>2, <1>3, <2>2
  <2>3. CASE i = 2 /\ j = 3
    BY <1>2, <1>3, <2>3
  <2> QED
    BY <1>6, <2>1, <2>2, <2>3
<1> QED
  BY <1>5, <1>6

\* With the default shares, a range of dates is split exactly when it spans ten days, or
\* eleven seconds: the guard of create_disjoint_partitions lets five to nine days pass
\* as long enough, and the chronology check then refuses the one-day validation.
THEOREM DefaultsNeedTenDays ==
    ASSUME NEW n \in Nat
    PROVE  /\ DaysAccepted(n, DefaultShares) <=> n >= 10
           /\ SecondsAccepted(n, DefaultShares) <=> n >= 11
<1> DEFINE p == DefaultShares
<1>1. p \in Shares /\ p.train = 60 /\ p.val = 20 /\ p.train + p.val = 80
  BY DEF Shares, DefaultShares
<1> HIDE DEF p
<1>2. DaysAccepted(n, p) <=>
         n >= 5 /\ 0 < TrainDays(n, p) - 1 /\ 1 < ValDays(n, p)
                /\ TrainDays(n, p) + ValDays(n, p) < n
  <2> DEFINE t == TrainDays(n, p)
             v == ValDays(n, p)
  <2>1. t \in Nat \ {0} /\ v \in Nat \ {0}
    BY <1>1, SharesAreNat
  <2>2. DaySplit(n, p) = Split(n, t - 1, t + v - 1)
    BY DEF DaySplit
  <2>3. DaysAccepted(n, p) <=> n >= 5 /\ Chronological(Split(n, t - 1, t + v - 1))
    BY <2>2 DEF DaysAccepted
  <2> HIDE DEF t, v
  <2>4. t - 1 \in Int /\ t + v - 1 \in Int
    BY <2>1
  <2>5. Chronological(Split(n, t - 1, t + v - 1))
           <=> 0 < t - 1 /\ t - 1 + 1 < t + v - 1 /\ t + v - 1 + 1 < n
    BY <2>4, SplitChronological
  <2>6. DaysAccepted(n, p) <=> n >= 5 /\ 0 < t - 1 /\ 1 < v /\ t + v < n
    BY <2>1, <2>3, <2>5
  <2> QED
    BY <2>6 DEF t, v
<1>3. TrainDays(n, p) = AtLeastOne((n * 60) \div 100) /\ ValDays(n, p) = AtLeastOne((n * 20) \div 100)
  BY <1>1 DEF TrainDays, ValDays
<1>4. DaysAccepted(n, p) <=> n >= 10
  BY <1>2, <1>3, SMT DEF AtLeastOne
<1>5. SecondsAccepted(n, p) <=>
         n > 0 /\ 0 < (n * 60) \div 100
               /\ (n * 60) \div 100 < (n * 80) \div 100 /\ (n * 80) \div 100 + 2 < n
  <2> DEFINE t == (n * 60) \div 100
             v == (n * 80) \div 100
  <2>1. t \in Nat /\ v \in Nat
    BY <1>1, SharesAreNat
  <2>2. SecondSplit(n, p) = Split(n, t, v + 1)
    BY <1>1 DEF SecondSplit
  <2>3. SecondsAccepted(n, p) <=> n > 0 /\ Chronological(Split(n, t, v + 1))
    BY <2>2 DEF SecondsAccepted
  <2> HIDE DEF t, v
  <2>4. t \in Int /\ v + 1 \in Int
    BY <2>1
  <2>5. Chronological(Split(n, t, v + 1)) <=> 0 < t /\ t + 1 < v + 1 /\ v + 1 + 1 < n
    BY <2>4, SplitChronological
  <2>6. SecondsAccepted(n, p) <=> n > 0 /\ 0 < t /\ t < v /\ v + 2 < n
    BY <2>1, <2>3, <2>5
  <2> QED
    BY <2>6 DEF t, v
<1>6. SecondsAccepted(n, p) <=> n >= 11
  BY <1>5, SMT
<1> QED
  BY <1>4, <1>6 DEF p

-----------------------------------------------------------------------------
(* Option strategies.                                                      *)

Strikes(n) == {k \in [1..n -> Nat \ {0}] : Ascending(k)}
Premiums(n) == [1..n -> Nat]
LotSizes == Nat \ {0}

\* What a leg pays is a natural number.
LEMMA IntrinsicIsNat ==
    ASSUME NEW strike \in Nat, NEW spot \in Nat
    PROVE  Positive(spot - strike) \in Nat /\ Positive(strike - spot) \in Nat
  BY DEF Positive

\* An amount per unit is that amount for every lot.
LEMMA Scaled ==
    ASSUME NEW lot \in LotSizes, NEW x \in Int, NEW y \in Int
    PROVE  /\ lot * x \in Int
           /\ lot * x + (-lot) * y = lot * (x - y)
           /\ (-lot) * x + lot * y = -(lot * (x - y))
           /\ lot * x + lot * y = lot * (x + y)
           /\ x <= y => lot * x <= lot * y
           /\ x < y => lot * x < lot * y
  BY SMT DEF LotSizes

\* What two, three and four legs pay.
LEMMA PayoffOfTwo ==
    ASSUME NEW a, NEW b, NEW spot, NEW w \in Int, NEW x \in Int,
           a.quantity * Intrinsic(a, spot) = w, b.quantity * Intrinsic(b, spot) = x
    PROVE  Payoff(<<a, b>>, spot) = w + x
  BY DEF Payoff, SumLegs, At

LEMMA PayoffOfThree ==
    ASSUME NEW a, NEW b, NEW c, NEW spot, NEW w \in Int, NEW x \in Int, NEW y \in Int,
           a.quantity * Intrinsic(a, spot) = w, b.quantity * Intrinsic(b, spot) = x,
           c.quantity * Intrinsic(c, spot) = y
    PROVE  Payoff(<<a, b, c>>, spot) = w + x + y
  BY DEF Payoff, SumLegs, At

LEMMA PayoffOfFour ==
    ASSUME NEW a, NEW b, NEW c, NEW d, NEW spot,
           NEW w \in Int, NEW x \in Int, NEW y \in Int, NEW z \in Int,
           a.quantity * Intrinsic(a, spot) = w, b.quantity * Intrinsic(b, spot) = x,
           c.quantity * Intrinsic(c, spot) = y, d.quantity * Intrinsic(d, spot) = z
    PROVE  Payoff(<<a, b, c, d>>, spot) = w + x + y + z
  BY DEF Payoff, SumLegs, At

LEMMA StrikesAscend ==
    ASSUME NEW n \in 2..4, NEW k \in Strikes(n)
    PROVE  /\ \A i \in 1..n : k[i] \in Nat \ {0}
           /\ \A i \in 1 .. n - 1 : k[i] < k[i + 1]
  BY DEF Strikes, Ascending

-----------------------------------------------------------------------------
(* Defined risk.                                                           *)

\* AT-286 to AT-289 (algo_lab_stage13_specification.md): a vertical spread never pays,
\* and never owes, more than the distance of its strikes for each of its lots.
THEOREM VerticalsAreBounded ==
    ASSUME NEW k \in Strikes(2), NEW p \in Premiums(2), NEW lot \in LotSizes, NEW spot \in Nat
    PROVE  LET width == lot * (k[2] - k[1])
           IN /\ Payoff(BullCallSpread(k, p, lot), spot) \in 0 .. width
              /\ Payoff(BearPutSpread(k, p, lot), spot) \in 0 .. width
              /\ Payoff(BearCallSpread(k, p, lot), spot) \in -width .. 0
              /\ Payoff(BullPutSpread(k, p, lot), spot) \in -width .. 0
<1> DEFINE c1 == Positive(spot - k[1])
           c2 == Positive(spot - k[2])
           p1 == Positive(k[1] - spot)
           p2 == Positive(k[2] - spot)
<1>1. k[1] \in Nat /\ k[2] \in Nat /\ k[1] < k[2] /\ lot \in Nat
  BY StrikesAscend DEF LotSizes
<1>2. c1 \in Nat /\ c2 \in Nat /\ p1 \in Nat /\ p2 \in Nat
  BY <1>1, IntrinsicIsNat
<1>3. 0 <= c1 - c2 /\ c1 - c2 <= k[2] - k[1] /\ 0 <= p2 - p1 /\ p2 - p1 <= k[2] - k[1]
  BY <1>1 DEF Positive
<1>4. /\ Payoff(BullCallSpread(k, p, lot), spot) = lot * c1 + (-lot) * c2
      /\ Payoff(BearCallSpread(k, p, lot), spot) = (-lot) * c1 + lot * c2
      /\ Payoff(BullPutSpread(k, p, lot), spot) = lot * p1 + (-lot) * p2
      /\ Payoff(BearPutSpread(k, p, lot), spot) = (-lot) * p1 + lot * p2
  <2>1. lot * c1 \in Int /\ (-lot) * c1 \in Int /\ lot * c2 \in Int /\ (-lot) * c2 \in Int
    BY <1>1, <1>2, SMT
  <2>2. lot * p1 \in Int /\ (-lot) * p1 \in Int /\ lot * p2 \in Int /\ (-lot) * p2 \in Int
    BY <1>1, <1>2, SMT
  <2> QED
    BY <2>1, <2>2, PayoffOfTwo
       DEF BullCallSpread, BearCallSpread, BullPutSpread, BearPutSpread, Call, Put, Leg, Intrinsic
<1> HIDE DEF c1, c2, p1, p2
<1>5. /\ lot * c1 + (-lot) * c2 = lot * (c1 - c2)
      /\ (-lot) * c1 + lot * c2 = -(lot * (c1 - c2))
      /\ lot * p1 + (-lot) * p2 = -(lot * (p2 - p1))
      /\ (-lot) * p1 + lot * p2 = lot * (p2 - p1)
  BY <1>1, <1>2, SMT
<1>6. /\ lot * (c1 - c2) \in 0 .. lot * (k[2] - k[1])
      /\ lot * (p2 - p1) \in 0 .. lot * (k[2] - k[1])
  <2>1. ASSUME NEW d \in Int, 0 <= d, d <= k[2] - k[1]
        PROVE  lot * d \in 0 .. lot * (k[2] - k[1])
    <3> DEFINE w == k[2] - k[1]
    <3>1. w \in Int
      BY <1>1
    <3> HIDE DEF w
    <3>2. lot * 0 = 0 /\ lot * d \in Int /\ lot * w \in Int
      BY <1>1, <3>1, SMT
    <3>3. lot * 0 <= lot * d /\ lot * d <= lot * w
      BY <2>1, <3>1, Scaled DEF w
    <3> QED
      BY <3>2, <3>3 DEF w
  <2> QED
    BY <1>1, <1>2, <1>3, <2>1
<1>7. lot * (k[2] - k[1]) \in Int
  BY <1>1, SMT
<1> QED
  BY <1>4, <1>5, <1>6, <1>7

\* The payoff per lot of the wings of a condor.
LEMMA WingsPerLot ==
    ASSUME NEW k \in Strikes(4), NEW spot \in Nat,
           NEW u, u = Positive(k[2] - spot) - Positive(k[1] - spot),
           NEW v, v = Positive(spot - k[3]) - Positive(spot - k[4])
    PROVE  /\ u \in 0 .. k[2] - k[1] /\ v \in 0 .. k[4] - k[3]
           /\ u = 0 \/ v = 0
           /\ spot \in k[2] .. k[3] <=> u = 0 /\ v = 0
<1>1. /\ k[1] \in Nat /\ k[2] \in Nat /\ k[3] \in Nat /\ k[4] \in Nat
      /\ k[1] < k[2] /\ k[2] < k[3] /\ k[3] < k[4]
  <2>1. k \in [1..4 -> Nat \ {0}] /\ Ascending(k)
    BY DEF Strikes
  <2>2. DOMAIN k = 1..4
    BY <2>1
  <2> QED
    BY <2>1, <2>2 DEF Ascending
<1> DEFINE a == k[1]
           b == k[2]
           c == k[3]
           d == k[4]
<1>2. a \in Nat /\ b \in Nat /\ c \in Nat /\ d \in Nat /\ a < b /\ b < c /\ c < d
  BY <1>1
<1>3. u = Positive(b - spot) - Positive(a - spot) /\ v = Positive(spot - c) - Positive(spot - d)
  OBVIOUS
<1> HIDE DEF a, b, c, d
<1>4. CASE spot < b
  <2>1. v = 0
    BY <1>2, <1>3, <1>4 DEF Positive
  <2>2. u \in 0 .. b - a /\ u # 0
    BY <1>2, <1>3, <1>4 DEF Positive
  <2> QED
    BY <1>2, <1>4, <2>1, <2>2 DEF a, b, c, d
<1>5. CASE spot \in b .. c
  <2>1. u = 0 /\ v = 0
    BY <1>2, <1>3, <1>5 DEF Positive
  <2> QED
    BY <1>2, <1>5, <2>1 DEF a, b, c, d
<1>6. CASE spot > c
  <2>1. u = 0
    BY <1>2, <1>3, <1>6 DEF Positive
  <2>2. v \in 0 .. d - c /\ v # 0
    BY <1>2, <1>3, <1>6 DEF Positive
  <2> QED
    BY <1>2, <1>6, <2>1, <2>2 DEF a, b, c, d
<1> QED
  BY <1>2, <1>4, <1>5, <1>6

\* An iron condor never owes more than the wider of its wings for each lot, whatever the
\* other one costs, and owes nothing exactly between its two short strikes.
THEOREM CondorLossIsOneWing ==
    ASSUME NEW k \in Strikes(4), NEW p \in Premiums(4), NEW lot \in LotSizes, NEW spot \in Nat
    PROVE  LET owed == -Payoff(IronCondor(k, p, lot), spot)
           IN /\ 0 <= owed
              /\ owed <= lot * (k[2] - k[1]) \/ owed <= lot * (k[4] - k[3])
              /\ owed = 0 <=> spot \in k[2] .. k[3]
<1> DEFINE p1 == Positive(k[1] - spot)
           p2 == Positive(k[2] - spot)
           c3 == Positive(spot - k[3])
           c4 == Positive(spot - k[4])
           u == p2 - p1
           v == c3 - c4
<1>1. lot \in Nat /\ k[1] \in Nat /\ k[2] \in Nat /\ k[3] \in Nat /\ k[4] \in Nat
  BY DEF Strikes, LotSizes
<1>2. p1 \in Nat /\ p2 \in Nat /\ c3 \in Nat /\ c4 \in Nat
  BY <1>1, IntrinsicIsNat
<1>3. Payoff(IronCondor(k, p, lot), spot) = lot * p1 + (-lot) * p2 + (-lot) * c3 + lot * c4
  <2>1. lot * p1 \in Int /\ (-lot) * p2 \in Int /\ (-lot) * c3 \in Int /\ lot * c4 \in Int
    BY <1>1, <1>2, SMT
  <2> QED
    <3> DEFINE a == Put(k[1], lot, p[1])
               b == Put(k[2], -lot, p[2])
               c == Call(k[3], -lot, p[3])
               d == Call(k[4], lot, p[4])
    <3>1. /\ a.quantity * Intrinsic(a, spot) = lot * p1
          /\ b.quantity * Intrinsic(b, spot) = (-lot) * p2
          /\ c.quantity * Intrinsic(c, spot) = (-lot) * c3
          /\ d.quantity * Intrinsic(d, spot) = lot * c4
      BY DEF Call, Put, Leg, Intrinsic
    <3>2. IronCondor(k, p, lot) = <<a, b, c, d>>
      BY DEF IronCondor
    <3> HIDE DEF a, b, c, d, p1, p2, c3, c4
    <3>3. Payoff(<<a, b, c, d>>, spot) = lot * p1 + (-lot) * p2 + (-lot) * c3 + lot * c4
      BY <2>1, <3>1, PayoffOfFour
    <3> QED
      BY <3>2, <3>3
<1>4. /\ u \in 0 .. k[2] - k[1] /\ v \in 0 .. k[4] - k[3] /\ (u = 0 \/ v = 0)
      /\ spot \in k[2] .. k[3] <=> u = 0 /\ v = 0
  BY WingsPerLot
<1>5. lot * p1 + (-lot) * p2 + (-lot) * c3 + lot * c4 = -(lot * (u + v))
  <2> HIDE DEF p1, p2, c3, c4
  <2> QED
    BY <1>1, <1>2, SMT
<1> HIDE DEF u, v, p1, p2, c3, c4
<1> DEFINE w1 == k[2] - k[1]
           w2 == k[4] - k[3]
<1>6. u \in Nat /\ v \in Nat /\ w1 \in Int /\ w2 \in Int /\ u <= w1 /\ v <= w2
  BY <1>1, <1>4
<1> HIDE DEF w1, w2
<1>7. lot * (u + v) <= lot * w1 \/ lot * (u + v) <= lot * w2
  <2>1. CASE u = 0
    <3>1. u + v = v
      BY <1>6, <2>1
    <3> QED
      BY <1>6, <3>1, Scaled
  <2>2. CASE v = 0
    <3>1. u + v = u
      BY <1>6, <2>2
    <3> QED
      BY <1>6, <3>1, Scaled
  <2> QED
    BY <1>4, <2>1, <2>2
<1>8. lot * (u + v) \in Int /\ 0 <= lot * (u + v) /\ (lot * (u + v) = 0 <=> u = 0 /\ v = 0)
  <2>1. lot * 0 = 0 /\ u + v \in Int /\ 0 <= u + v
    BY <1>1, <1>6
  <2>2. lot * 0 <= lot * (u + v) /\ (0 < u + v => lot * 0 < lot * (u + v)) /\ lot * (u + v) \in Int
    BY <2>1, Scaled
  <2> QED
    BY <1>6, <2>1, <2>2
<1> QED
  BY <1>3, <1>4, <1>5, <1>7, <1>8 DEF w1, w2

\* A butterfly pays most at its middle strike (AT-292), but the factory asks only that the
\* strikes ascend: with the upper wing wider than the lower one it owes money above it,
\* as for a spread nobody meant to sell.
THEOREM ButterflyNeedsItsWing ==
    ASSUME NEW k \in Strikes(3), NEW p \in Premiums(3), NEW lot \in LotSizes
    PROVE  LET paid(spot) == Payoff(Butterfly(k, p, lot), spot)
           IN /\ \A spot \in Nat : paid(spot) <= paid(k[2])
              /\ (\A spot \in Nat : paid(spot) >= 0) <=> k[3] - k[2] <= k[2] - k[1]
<1> DEFINE paid(spot) == Payoff(Butterfly(k, p, lot), spot)
           unit(spot) == Positive(spot - k[1]) - 2 * Positive(spot - k[2]) + Positive(spot - k[3])
<1>1. /\ lot \in Nat /\ k[1] \in Nat /\ k[2] \in Nat /\ k[3] \in Nat
      /\ k[1] < k[2] /\ k[2] < k[3]
  <2>1. k \in [1..3 -> Nat \ {0}] /\ Ascending(k)
    BY DEF Strikes
  <2>2. DOMAIN k = 1..3
    BY <2>1
  <2> QED
    BY <2>1, <2>2 DEF Ascending, LotSizes
<1>2. ASSUME NEW spot \in Nat
      PROVE  paid(spot) = lot * unit(spot) /\ unit(spot) \in Int
  <2> DEFINE c1 == Positive(spot - k[1])
             c2 == Positive(spot - k[2])
             c3 == Positive(spot - k[3])
  <2>1. c1 \in Nat /\ c2 \in Nat /\ c3 \in Nat
    BY <1>1, IntrinsicIsNat
  <2>2. paid(spot) = lot * c1 + (-2 * lot) * c2 + lot * c3
    <3>1. lot * c1 \in Int /\ (-2 * lot) * c2 \in Int /\ lot * c3 \in Int
      <4> HIDE DEF c1, c2, c3
      <4> QED
        BY <1>1, <2>1, SMT
    <3> DEFINE a == Call(k[1], lot, p[1])
               b == Call(k[2], -2 * lot, p[2])
               c == Call(k[3], lot, p[3])
    <3>2. /\ a.quantity * Intrinsic(a, spot) = lot * c1
          /\ b.quantity * Intrinsic(b, spot) = (-2 * lot) * c2
          /\ c.quantity * Intrinsic(c, spot) = lot * c3
      BY DEF Call, Leg, Intrinsic
    <3>3. paid(spot) = Payoff(<<a, b, c>>, spot)
      BY DEF Butterfly
    <3> HIDE DEF a, b, c, c1, c2, c3, paid
    <3>4. Payoff(<<a, b, c>>, spot) = lot * c1 + (-2 * lot) * c2 + lot * c3
      BY <3>1, <3>2, PayoffOfThree
    <3> QED
      BY <3>3, <3>4
  <2>3. lot * c1 + (-2 * lot) * c2 + lot * c3 = lot * (c1 - 2 * c2 + c3)
    <3> HIDE DEF c1, c2, c3
    <3> QED
      BY <1>1, <2>1, SMT
  <2> QED
    BY <2>1, <2>2, <2>3
<1>3. \A spot \in Nat : unit(spot) <= unit(k[2])
  BY <1>1, SMT DEF Positive
<1>4. (\A spot \in Nat : unit(spot) >= 0) <=> k[3] - k[2] <= k[2] - k[1]
  <2>1. unit(k[3]) = (k[2] - k[1]) - (k[3] - k[2])
    BY <1>1, SMT DEF Positive
  <2>2. ASSUME k[3] - k[2] <= k[2] - k[1], NEW spot \in Nat
        PROVE  unit(spot) >= 0
    BY <1>1, <2>2, SMT DEF Positive
  <2> QED
    BY <1>1, <2>1, <2>2
<1> HIDE DEF paid, unit
<1>5. \A spot \in Nat : paid(spot) <= paid(k[2])
  BY <1>1, <1>2, <1>3, Scaled
<1>6. \A spot \in Nat : paid(spot) >= 0 <=> unit(spot) >= 0
  <2>1. lot * 0 = 0
    BY <1>1
  <2>2. ASSUME NEW spot \in Nat
        PROVE  /\ 0 <= unit(spot) => lot * 0 <= lot * unit(spot)
               /\ unit(spot) < 0 => lot * unit(spot) < lot * 0
               /\ lot * unit(spot) \in Int
    <3>1. unit(spot) \in Int /\ 0 \in Int
      BY <1>2, <2>2
    <3> QED
      BY <3>1, Scaled
  <2> QED
    BY <1>2, <2>1, <2>2
<1> QED
  BY <1>4, <1>5, <1>6 DEF paid

-----------------------------------------------------------------------------
(* Hedges.                                                                 *)

\* AT-293, AT-295: for each lot a synthetic long pays what the underlying does above its
\* strike, and a collar keeps the underlying it is held with between its strikes.  The
\* factory's collar is the options alone, and those owe more than any bound: whoever
\* evaluates its payoff must add the stock.
THEOREM HedgesAreExact ==
    ASSUME NEW k \in Strikes(2), NEW p \in Premiums(2), NEW lot \in LotSizes
    PROVE  /\ \A spot \in Nat :
                 /\ Payoff(SyntheticLong(k[1], p, lot), spot) = lot * (spot - k[1])
                 /\ Payoff(Collar(k, p, lot), spot) + lot * spot \in lot * k[1] .. lot * k[2]
           /\ \A bound \in Nat : \E spot \in Nat : Payoff(Collar(k, p, lot), spot) < -bound
<1>1. k[1] \in Nat /\ k[2] \in Nat /\ k[1] < k[2] /\ lot \in Nat /\ lot > 0
  BY StrikesAscend DEF LotSizes
<1>2. ASSUME NEW spot \in Nat
      PROVE  /\ Payoff(SyntheticLong(k[1], p, lot), spot) = lot * (spot - k[1])
             /\ Payoff(Collar(k, p, lot), spot)
                  = lot * Positive(k[1] - spot) + (-lot) * Positive(spot - k[2])
  <2> DEFINE c1 == Positive(spot - k[1])
             p1 == Positive(k[1] - spot)
             c2 == Positive(spot - k[2])
  <2>1. c1 \in Nat /\ p1 \in Nat /\ c2 \in Nat /\ c1 - p1 = spot - k[1]
    BY <1>1 DEF Positive
  <2>2. lot * c1 \in Int /\ (-lot) * p1 \in Int /\ lot * p1 \in Int /\ (-lot) * c2 \in Int
    <3> HIDE DEF c1, c2, p1
    <3> QED
      BY <1>1, <2>1, SMT
  <2>3. /\ Payoff(SyntheticLong(k[1], p, lot), spot) = lot * c1 + (-lot) * p1
        /\ Payoff(Collar(k, p, lot), spot) = lot * p1 + (-lot) * c2
    BY <2>2, PayoffOfTwo DEF SyntheticLong, Collar, Call, Put, Leg, Intrinsic
  <2>4. lot * c1 + (-lot) * p1 = lot * (c1 - p1)
    <3> HIDE DEF c1, c2, p1
    <3> QED
      BY <1>1, <2>1, SMT
  <2> QED
    BY <2>1, <2>3, <2>4
<1>3. ASSUME NEW spot \in Nat
      PROVE  Payoff(Collar(k, p, lot), spot) + lot * spot \in lot * k[1] .. lot * k[2]
  <2> DEFINE p1 == Positive(k[1] - spot)
             c2 == Positive(spot - k[2])
             v == p1 - c2 + spot
  <2>1. p1 \in Nat /\ c2 \in Nat /\ v \in Int /\ k[1] <= v /\ v <= k[2]
    BY <1>1 DEF Positive
  <2>2. Payoff(Collar(k, p, lot), spot) + lot * spot = lot * v
    <3>1. Payoff(Collar(k, p, lot), spot) = lot * p1 + (-lot) * c2
      BY <1>2
    <3> HIDE DEF p1, c2
    <3>2. lot * p1 + (-lot) * c2 + lot * spot = lot * (p1 - c2 + spot)
      BY <1>1, <2>1, SMT
    <3> QED
      BY <3>1, <3>2
  <2> HIDE DEF v
  <2>3. lot * k[1] <= lot * v /\ lot * v <= lot * k[2]
    BY <1>1, <2>1, Scaled
  <2>4. lot * v \in Int /\ lot * k[1] \in Int /\ lot * k[2] \in Int
    BY <1>1, <2>1, SMT
  <2> QED
    BY <2>2, <2>3, <2>4
<1>4. ASSUME NEW bound \in Nat
      PROVE  \E spot \in Nat : Payoff(Collar(k, p, lot), spot) < -bound
  <2> DEFINE spot == k[2] + bound + 1
  <2>1. spot \in Nat /\ Positive(k[1] - spot) = 0 /\ Positive(spot - k[2]) = bound + 1
    BY <1>1 DEF Positive
  <2>2. Payoff(Collar(k, p, lot), spot) = lot * 0 + (-lot) * (bound + 1)
    <3> HIDE DEF spot
    <3> QED
      BY <1>2, <2>1
  <2>3. lot * 0 + (-lot) * (bound + 1) < -bound
    BY <1>1, SMT
  <2> QED
    BY <2>1, <2>2, <2>3
<1> QED
  BY <1>2, <1>3, <1>4

\* The other side of a leg.
Opposite(a, b) ==
    b.type = a.type /\ b.strike = a.strike /\ b.entry_price = a.entry_price
      /\ b.quantity = -a.quantity

Tradable(a) == a.quantity \in Int /\ a.strike \in Nat /\ a.entry_price \in Nat

LEMMA OppositeAmounts ==
    ASSUME NEW a, NEW b, NEW spot \in Nat, Tradable(a), Opposite(a, b)
    PROVE  /\ a.quantity * Intrinsic(a, spot) \in Int /\ -(a.quantity * a.entry_price) \in Int
           /\ b.quantity * Intrinsic(b, spot) = -(a.quantity * Intrinsic(a, spot))
           /\ -(b.quantity * b.entry_price) = a.quantity * a.entry_price
<1> DEFINE q == a.quantity
           x == Intrinsic(a, spot)
           e == a.entry_price
<1>1. q \in Int /\ e \in Nat
  BY DEF Tradable
<1>2. x \in Nat /\ Intrinsic(b, spot) = x
  BY IntrinsicIsNat DEF Tradable, Opposite, Intrinsic
<1>3. b.quantity = -q /\ b.entry_price = e
  BY DEF Opposite
<1> HIDE DEF q, x, e
<1>4. q * x \in Int /\ -(q * e) \in Int /\ (-q) * x = -(q * x) /\ -((-q) * e) = q * e
  BY <1>1, <1>2, SMT
<1> QED
  BY <1>2, <1>3, <1>4 DEF q, x, e

\* The other side of two legs.
LEMMA OppositePair ==
    ASSUME NEW a, NEW b, NEW c, NEW d, NEW spot \in Nat, NEW costs \in Nat,
           Tradable(a), Tradable(b), Opposite(a, c), Opposite(b, d)
    PROVE  Pnl(<<a, b>>, spot, costs) + Pnl(<<c, d>>, spot, costs) = -(costs + costs)
<1> DEFINE w == a.quantity * Intrinsic(a, spot)
           x == b.quantity * Intrinsic(b, spot)
           y == a.quantity * a.entry_price
           z == b.quantity * b.entry_price
<1>1. w \in Int /\ x \in Int /\ -y \in Int /\ -z \in Int
  BY OppositeAmounts
<1>2. y \in Int /\ z \in Int
  BY SMT DEF Tradable
<1>3. Payoff(<<a, b>>, spot) = w + x /\ Payoff(<<c, d>>, spot) = -w + -x
  <2>1. c.quantity * Intrinsic(c, spot) = -w /\ d.quantity * Intrinsic(d, spot) = -x
    BY OppositeAmounts
  <2>2. -w \in Int /\ -x \in Int
    BY <1>1
  <2> QED
    BY <1>1, <2>1, <2>2, PayoffOfTwo
<1>4. Premium(<<a, b>>) = -y + -z /\ Premium(<<c, d>>) = y + z
  <2>1. -(c.quantity * c.entry_price) = y /\ -(d.quantity * d.entry_price) = z
    BY OppositeAmounts
  <2>2. Premium(<<a, b>>) = -y + -z
    BY <1>1 DEF Premium, SumLegs, At
  <2>3. Premium(<<c, d>>) = -(c.quantity * c.entry_price) + -(d.quantity * d.entry_price)
    BY <1>2, <2>1 DEF Premium, SumLegs, At
  <2> QED
    BY <2>1, <2>2, <2>3
<1> HIDE DEF w, x, y, z
<1>5. (-y + -z) - costs + (w + x) + ((y + z) - costs + (-w + -x)) = -(costs + costs)
  BY <1>1, <1>2
<1> QED
  BY <1>3, <1>4, <1>5 DEF Pnl

\* INV-93: whoever takes the other side of a strategy at the same prices gains what it
\* loses, but for the costs of both.
THEOREM MirrorsCancel ==
    ASSUME NEW k \in Strikes(2), NEW p \in Premiums(2), NEW lot \in LotSizes,
           NEW spot \in Nat, NEW costs \in Nat
    PROVE  \A pair \in {<<BullCallSpread(k, p, lot), BearCallSpread(k, p, lot)>>,
                        <<BullPutSpread(k, p, lot), BearPutSpread(k, p, lot)>>,
                        <<Strangle(k, p, lot), Strangle(k, p, -lot)>>,
                        <<Straddle(k[1], p, lot), Straddle(k[1], p, -lot)>>} :
              Pnl(pair[1], spot, costs) + Pnl(pair[2], spot, costs) = -(costs + costs)
<1>1. k[1] \in Nat /\ k[2] \in Nat /\ p[1] \in Nat /\ p[2] \in Nat /\ lot \in Int /\ -lot \in Int
  BY StrikesAscend DEF Premiums, LotSizes
<1>2. - -lot = lot
  BY <1>1
<1>3. ASSUME NEW strike \in Nat, NEW price \in Nat
      PROVE  /\ Tradable(Call(strike, lot, price)) /\ Tradable(Call(strike, -lot, price))
             /\ Tradable(Put(strike, lot, price)) /\ Tradable(Put(strike, -lot, price))
             /\ Opposite(Call(strike, lot, price), Call(strike, -lot, price))
             /\ Opposite(Call(strike, -lot, price), Call(strike, lot, price))
             /\ Opposite(Put(strike, lot, price), Put(strike, -lot, price))
             /\ Opposite(Put(strike, -lot, price), Put(strike, lot, price))
  BY <1>1, <1>2, <1>3 DEF Tradable, Opposite, Call, Put, Leg
<1>4. Pnl(BullCallSpread(k, p, lot), spot, costs) + Pnl(BearCallSpread(k, p, lot), spot, costs)
        = -(costs + costs)
  BY <1>1, <1>3, OppositePair DEF BullCallSpread, BearCallSpread
<1>5. Pnl(BullPutSpread(k, p, lot), spot, costs) + Pnl(BearPutSpread(k, p, lot), spot, costs)
        = -(costs + costs)
  BY <1>1, <1>3, OppositePair DEF BullPutSpread, BearPutSpread
<1>6. Pnl(Strangle(k, p, lot), spot, costs) + Pnl(Strangle(k, p, -lot), spot, costs)
        = -(costs + costs)
  BY <1>1, <1>3, OppositePair DEF Strangle
<1>7. Pnl(Straddle(k[1], p, lot), spot, costs) + Pnl(Straddle(k[1], p, -lot), spot, costs)
        = -(costs + costs)
  BY <1>1, <1>3, OppositePair DEF Straddle
<1> QED
  BY <1>4, <1>5, <1>6, <1>7

-----------------------------------------------------------------------------
(* Legs.                                                                   *)

\* INV-84: what is one or two lots is in whole lots.
LEMMA WholeLots ==
    ASSUME NEW lot \in LotSizes
    PROVE  /\ InLots(lot, lot) /\ InLots(-lot, lot) /\ InLots(-2 * lot, lot)
           /\ Magnitude(lot) = lot /\ Magnitude(-lot) = lot /\ Magnitude(-2 * lot) = 2 * lot
<1>1. lot \in Nat /\ lot > 0
  BY DEF LotSizes
<1>2. Magnitude(lot) = lot /\ Magnitude(-lot) = lot /\ Magnitude(-2 * lot) = 2 * lot
  BY <1>1 DEF Magnitude
<1>3. 1 \in 0..lot /\ lot = 1 * lot /\ 2 \in 0 .. 2 * lot
  BY <1>1
<1> QED
  BY <1>2, <1>3 DEF InLots

\* Two legs of one lot each that are not the same leg.
LEMMA PairIsValid ==
    ASSUME NEW lot \in LotSizes, NEW a, NEW b,
           LegAllowed(a), a.quantity \in {lot, -lot},
           LegAllowed(b), b.quantity \in {lot, -lot},
           ~SameLeg(a, b), ~SameLeg(b, a)
    PROVE  ValidSpec(<<a, b>>, lot) /\ Contracts(<<a, b>>) = Len(<<a, b>>) * lot
<1> DEFINE legs == <<a, b>>
<1>1. DOMAIN legs = 1..2 /\ legs[1] = a /\ legs[2] = b /\ legs # <<>> /\ Len(legs) = 2
  OBVIOUS
<1>2. InLots(a.quantity, lot) /\ InLots(b.quantity, lot)
  BY WholeLots
<1>3. Magnitude(a.quantity) = lot /\ Magnitude(b.quantity) = lot
  BY WholeLots
<1>4. Contracts(legs) = lot + lot
  BY <1>3 DEF Contracts, SumLegs, At, LotSizes
<1> HIDE DEF legs
<1>5. ValidSpec(legs, lot)
  <2>1. \A i \in 1..2 : i = 1 \/ i = 2
    OBVIOUS
  <2> QED
    BY <1>1, <1>2, <2>1 DEF ValidSpec
<1> QED
  BY <1>1, <1>4, <1>5 DEF legs, LotSizes

\* INV-84, INV-94: no factory builds what validate_strategy_spec refuses.
THEOREM FactoriesAreValid ==
    ASSUME NEW lot \in LotSizes, NEW q \in {lot, -lot},
           NEW k2 \in Strikes(2), NEW p2 \in Premiums(2),
           NEW k3 \in Strikes(3), NEW p3 \in Premiums(3),
           NEW k4 \in Strikes(4), NEW p4 \in Premiums(4)
    PROVE  /\ \A legs \in {BullCallSpread(k2, p2, lot), BearCallSpread(k2, p2, lot),
                           BullPutSpread(k2, p2, lot), BearPutSpread(k2, p2, lot),
                           Collar(k2, p2, lot), Strangle(k2, p2, q),
                           Straddle(k2[1], p2, q), SyntheticLong(k2[1], p2, lot)} :
                 ValidSpec(legs, lot) /\ Contracts(legs) = Len(legs) * lot
           /\ ValidSpec(Butterfly(k3, p3, lot), lot)
           /\ ValidSpec(IronCondor(k4, p4, lot), lot)
<1>1. /\ k2[1] \in Nat \ {0} /\ k2[2] \in Nat \ {0} /\ k2[1] < k2[2]
      /\ p2[1] \in Nat /\ p2[2] \in Nat /\ lot \in Nat \ {0}
  BY StrikesAscend DEF Premiums, LotSizes
<1>2. /\ k3[1] \in Nat \ {0} /\ k3[2] \in Nat \ {0} /\ k3[3] \in Nat \ {0}
      /\ k3[1] < k3[2] /\ k3[2] < k3[3] /\ p3[1] \in Nat /\ p3[2] \in Nat /\ p3[3] \in Nat
  BY StrikesAscend DEF Premiums
<1>3. /\ k4[1] \in Nat \ {0} /\ k4[2] \in Nat \ {0} /\ k4[3] \in Nat \ {0} /\ k4[4] \in Nat \ {0}
      /\ k4[1] < k4[2] /\ k4[3] < k4[4]
      /\ p4[1] \in Nat /\ p4[2] \in Nat /\ p4[3] \in Nat /\ p4[4] \in Nat
  BY StrikesAscend DEF Premiums
<1>4. ASSUME NEW a \in {Call(k2[1], lot, p2[1]), Call(k2[1], -lot, p2[1]), Call(k2[1], q, p2[1]),
                        Put(k2[1], lot, p2[1]), Put(k2[1], -lot, p2[1]), Put(k2[1], q, p2[1])},
             NEW b \in {Call(k2[2], lot, p2[2]), Call(k2[2], -lot, p2[2]), Call(k2[2], q, p2[2]),
                        Put(k2[2], lot, p2[2]), Put(k2[2], -lot, p2[2])}
      PROVE  ValidSpec(<<a, b>>, lot) /\ Contracts(<<a, b>>) = Len(<<a, b>>) * lot
  <2>1. a.quantity \in {lot, -lot} /\ b.quantity \in {lot, -lot}
    BY <1>4 DEF Call, Put, Leg
  <2>2. LegAllowed(a) /\ LegAllowed(b)
    BY <1>1, <1>4 DEF LegAllowed, Call, Put, Leg
  <2>3. a.strike = k2[1] /\ b.strike = k2[2]
    BY <1>4 DEF Call, Put, Leg
  <2>4. ~SameLeg(a, b) /\ ~SameLeg(b, a)
    BY <1>1, <2>3 DEF SameLeg
  <2> QED
    BY <2>1, <2>2, <2>4, PairIsValid
<1>5. ASSUME NEW a \in {Call(k2[1], q, p2[1]), Call(k2[1], lot, p2[1])},
             NEW b \in {Put(k2[1], q, p2[2]), Put(k2[1], -lot, p2[2])}
      PROVE  ValidSpec(<<a, b>>, lot) /\ Contracts(<<a, b>>) = Len(<<a, b>>) * lot
  <2>1. a.quantity \in {lot, -lot} /\ b.quantity \in {lot, -lot}
    BY <1>5 DEF Call, Put, Leg
  <2>2. LegAllowed(a) /\ LegAllowed(b)
    BY <1>1, <1>5 DEF LegAllowed, Call, Put, Leg
  <2>3. a.type = "CALL" /\ b.type = "PUT"
    BY <1>5 DEF Call, Put, Leg
  <2>4. ~SameLeg(a, b) /\ ~SameLeg(b, a)
    BY <2>3 DEF SameLeg
  <2> QED
    BY <2>1, <2>2, <2>4, PairIsValid
<1>6. \A legs \in {BullCallSpread(k2, p2, lot), BearCallSpread(k2, p2, lot),
                   BullPutSpread(k2, p2, lot), BearPutSpread(k2, p2, lot),
                   Collar(k2, p2, lot), Strangle(k2, p2, q),
                   Straddle(k2[1], p2, q), SyntheticLong(k2[1], p2, lot)} :
         ValidSpec(legs, lot) /\ Contracts(legs) = Len(legs) * lot
  BY <1>4, <1>5 DEF BullCallSpread, BearCallSpread, BullPutSpread, BearPutSpread, Collar,
                    Strangle, Straddle, SyntheticLong
<1>7. ValidSpec(Butterfly(k3, p3, lot), lot)
  <2> DEFINE a == Call(k3[1], lot, p3[1])
             b == Call(k3[2], -2 * lot, p3[2])
             c == Call(k3[3], lot, p3[3])
  <2>1. LegAllowed(a) /\ LegAllowed(b) /\ LegAllowed(c)
    BY <1>1, <1>2 DEF LegAllowed, Call, Leg
  <2>2. InLots(a.quantity, lot) /\ InLots(b.quantity, lot) /\ InLots(c.quantity, lot)
    BY WholeLots DEF Call, Leg
  <2>3. a.strike = k3[1] /\ b.strike = k3[2] /\ c.strike = k3[3]
    BY DEF Call, Leg
  <2> HIDE DEF a, b, c
  <2>4. /\ ~SameLeg(a, b) /\ ~SameLeg(b, a) /\ ~SameLeg(a, c) /\ ~SameLeg(c, a)
        /\ ~SameLeg(b, c) /\ ~SameLeg(c, b)
    BY <1>2, <2>3 DEF SameLeg
  <2>5. ValidSpec(<<a, b, c>>, lot)
    <3> DEFINE legs == <<a, b, c>>
    <3>1. DOMAIN legs = 1..3 /\ legs[1] = a /\ legs[2] = b /\ legs[3] = c /\ legs # <<>>
      OBVIOUS
    <3>2. \A i \in 1..3 : i = 1 \/ i = 2 \/ i = 3
      OBVIOUS
    <3> HIDE DEF legs
    <3>3. ValidSpec(legs, lot)
      BY <2>1, <2>2, <2>4, <3>1, <3>2 DEF ValidSpec
    <3> QED
      BY <3>3 DEF legs
  <2> QED
    BY <2>5 DEF Butterfly, a, b, c
<1>8. ValidSpec(IronCondor(k4, p4, lot), lot)
  <2> DEFINE a == Put(k4[1], lot, p4[1])
             b == Put(k4[2], -lot, p4[2])
             c == Call(k4[3], -lot, p4[3])
             d == Call(k4[4], lot, p4[4])
  <2>1. LegAllowed(a) /\ LegAllowed(b) /\ LegAllowed(c) /\ LegAllowed(d)
    BY <1>1, <1>3 DEF LegAllowed, Call, Put, Leg
  <2>2. /\ InLots(a.quantity, lot) /\ InLots(b.quantity, lot)
        /\ InLots(c.quantity, lot) /\ InLots(d.quantity, lot)
    BY WholeLots DEF Call, Put, Leg
  <2>3. /\ a.strike = k4[1] /\ b.strike = k4[2] /\ c.strike = k4[3] /\ d.strike = k4[4]
        /\ a.type = "PUT" /\ b.type = "PUT" /\ c.type = "CALL" /\ d.type = "CALL"
    BY DEF Call, Put, Leg
  <2> HIDE DEF a, b, c, d
  <2>4. /\ ~SameLeg(a, b) /\ ~SameLeg(b, a) /\ ~SameLeg(c, d) /\ ~SameLeg(d, c)
        /\ ~SameLeg(a, c) /\ ~SameLeg(c, a) /\ ~SameLeg(a, d) /\ ~SameLeg(d, a)
        /\ ~SameLeg(b, c) /\ ~SameLeg(c, b) /\ ~SameLeg(b, d) /\ ~SameLeg(d, b)
    BY <1>3, <2>3 DEF SameLeg
  <2>5. ValidSpec(<<a, b, c, d>>, lot)
    <3> DEFINE legs == <<a, b, c, d>>
    <3>1. /\ DOMAIN legs = 1..4 /\ legs # <<>>
          /\ legs[1] = a /\ legs[2] = b /\ legs[3] = c /\ legs[4] = d
      OBVIOUS
    <3>2. \A i \in 1..4 : i = 1 \/ i = 2 \/ i = 3 \/ i = 4
      OBVIOUS
    <3> HIDE DEF legs
    <3>3. ValidSpec(legs, lot)
      BY <2>1, <2>2, <2>4, <3>1, <3>2 DEF ValidSpec
    <3> QED
      BY <3>3 DEF legs
  <2> QED
    BY <2>5 DEF IronCondor, a, b, c, d
<1> QED
  BY <1>6, <1>7, <1>8

\* run_backtest charges the entry by the leg: a butterfly trades four lots and is charged
\* for three.  Every strategy of two legs is charged what it trades (FactoriesAreValid).
THEOREM ButterflyIsUndercharged ==
    ASSUME NEW lot \in LotSizes, NEW commission \in Nat, NEW k \in Strikes(3), NEW p \in Premiums(3)
    PROVE  LET legs == Butterfly(k, p, lot)
           IN EntryFees(legs, commission, lot) + commission * lot = Contracts(legs) * commission
<1> DEFINE legs == Butterfly(k, p, lot)
<1>1. /\ DOMAIN legs = 1..3 /\ Len(legs) = 3
      /\ legs[1].quantity = lot /\ legs[2].quantity = -2 * lot /\ legs[3].quantity = lot
  BY DEF Butterfly, Call, Leg
<1> HIDE DEF legs
<1>2. lot \in Nat
  BY DEF LotSizes
<1>3. Contracts(legs) = 4 * lot
  BY <1>1, <1>2, WholeLots DEF Contracts, SumLegs, At
<1>4. 3 * commission * lot + commission * lot = (4 * lot) * commission
  BY <1>2, SMT
<1> QED
  BY <1>1, <1>3, <1>4 DEF EntryFees, legs

-----------------------------------------------------------------------------
(* Folds over sequences.                                                   *)

\* A set of natural numbers with a member has a least one.
LEMMA LeastNumber ==
    ASSUME NEW B \in SUBSET Nat, B # {}
    PROVE  \E m \in B : \A k \in B : m <= k
<1> PICK R : R = {ss \in Nat \X Nat : ss[1] < ss[2]}
  OBVIOUS
<1>1. IsWellFoundedOn(R, Nat)
  BY NatLessThanWellFounded DEF OpToRel
<1>2. PICK m \in B : \A k \in B : ~ (<<k, m>> \in R)
  BY <1>1, WFMin
<1>3. ASSUME NEW k \in B PROVE m <= k
  <2>1. k \in Nat /\ m \in Nat /\ ~ (k < m)
    BY <1>2
  <2> QED
    BY <2>1
<1> QED
  BY <1>3

\* Numbers between two bounds have a greatest one.
LEMMA GreatestOfRange ==
    ASSUME NEW a \in Int, NEW b \in Int, NEW s \in SUBSET (a..b), s # {}
    PROVE  Max(s) \in s /\ \A y \in s : y <= Max(s)
<1> DEFINE B == {n \in Nat : \A y \in s : y <= a + n}
<1>0. PICK z \in s : z \in a..b
  OBVIOUS
<1>1. b - a \in B
  <2>1. b - a \in Nat
    BY <1>0
  <2>2. \A x \in s : x <= a + (b - a)
    OBVIOUS
  <2> QED
    BY <2>1, <2>2
<1>2. PICK m \in B : \A k \in B : m <= k
  <2>1. B \in SUBSET Nat /\ B # {}
    BY <1>1
  <2> HIDE DEF B
  <2> QED
    BY <2>1, LeastNumber
<1>3. a + m \in s
  <2>1. CASE m = 0
    <3>1. z <= a + m
      OBVIOUS
    <3>2. z = a + m
      BY <1>0, <2>1, <3>1
    <3> QED
      BY <1>0, <3>2
  <2>2. CASE m # 0
    <3> SUFFICES ASSUME a + m \notin s PROVE FALSE
      OBVIOUS
    <3>1. m - 1 \in Nat /\ \A y \in s : y <= a + (m - 1)
      BY <2>2
    <3>2. m - 1 \in B
      BY <3>1
    <3> QED
      BY <1>2, <3>2
  <2> QED
    BY <2>1, <2>2
<1>4. \A y \in s : y <= a + m
  OBVIOUS
<1>5. \E x \in s : \A y \in s : x >= y
  <2> WITNESS a + m \in s
  <2> QED
    BY <1>4
<1>6. Max(s) \in s /\ \A y \in s : Max(s) >= y
  BY <1>5 DEF Max
<1> QED
  BY <1>6

\* A set of indices is finite; without its greatest member it is one smaller.
LEMMA IndexSets ==
    ASSUME NEW n \in Nat, NEW s \in SUBSET (1..n)
    PROVE  /\ IsFiniteSet(s) /\ Cardinality(s) \in Nat /\ Cardinality(s) <= n
           /\ s # {} => /\ Max(s) \in s /\ Max(s) \in 1..n /\ s \ {Max(s)} \in SUBSET (1..n)
                        /\ Cardinality(s \ {Max(s)}) = Cardinality(s) - 1
<1>1. IsFiniteSet(1..n) /\ Cardinality(1..n) = n
  BY FS_Interval
<1>2. IsFiniteSet(s) /\ Cardinality(s) <= n
  BY <1>1, FS_Subset
<1>3. Cardinality(s) \in Nat
  BY <1>2, FS_CardinalityType
<1>4. ASSUME s # {} PROVE Max(s) \in s
  <2>1. 1 \in Int /\ n \in Int
    OBVIOUS
  <2> QED
    BY <1>4, <2>1, GreatestOfRange
<1>5. ASSUME s # {} PROVE Cardinality(s \ {Max(s)}) = Cardinality(s) - 1
  BY <1>2, <1>4, <1>5, FS_RemoveElement
<1> QED
  BY <1>2, <1>3, <1>4, <1>5

\* What holds of the empty range, and of a set when it holds of the set without
\* its greatest member, holds of every set of indices.
LEMMA IndexInduction ==
    ASSUME NEW n \in Nat, NEW G \in SUBSET SUBSET (1..n), {} \in G,
           \A s \in SUBSET (1..n) : s # {} /\ s \ {Max(s)} \in G => s \in G
    PROVE  \A s \in SUBSET (1..n) : s \in G
<1> DEFINE Bad == {k \in Nat : \E s \in SUBSET (1..n) : s \notin G /\ Cardinality(s) = k}
<1> SUFFICES ASSUME NEW t \in SUBSET (1..n), t \notin G PROVE FALSE
  OBVIOUS
<1>1. \A s \in SUBSET (1..n) : IsFiniteSet(s) /\ Cardinality(s) \in Nat
  BY IndexSets
<1>2. PICK k \in Bad : \A j \in Bad : k <= j
  <2>1. Bad \in SUBSET Nat /\ Bad # {}
    BY <1>1
  <2> HIDE DEF Bad
  <2> QED
    BY <2>1, LeastNumber
<1>3. PICK s \in SUBSET (1..n) : s \notin G /\ Cardinality(s) = k
  OBVIOUS
<1>4. s # {}
  BY <1>3
<1>5. Max(s) \in s
  BY <1>4, IndexSets
<1>6. s \ {Max(s)} \in SUBSET (1..n) /\ Cardinality(s \ {Max(s)}) = k - 1
  BY <1>3, <1>4, IndexSets
<1>7. k - 1 \notin Bad /\ k - 1 \in Nat
  BY <1>1, <1>2, <1>6
<1>8. s \ {Max(s)} \in G
  BY <1>6, <1>7
<1> QED
  BY <1>3, <1>4, <1>8

\* g is the fold of next, a table of what an index makes of a value, on the indices up to n.
Tabled(g, next, base, n) ==
    g = [s \in SUBSET (1..n) |-> IF s = {} THEN base ELSE next[<<Max(s), g[s \ {Max(s)}]>>]]

\* There is one.
LEMMA FoldExists ==
    ASSUME NEW n \in Nat, NEW T, NEW base \in T, NEW next \in [(1..n) \X T -> T]
    PROVE  \E g : Tabled(g, next, base, n) /\ \A s \in SUBSET (1..n) : g[s] \in T
<1> DEFINE Small(k) == {s \in SUBSET (1..n) : Cardinality(s) <= k}
           Step1(g, k) == [s \in Small(k) |-> IF s = {} THEN base ELSE next[<<Max(s), g[s \ {Max(s)}]>>]]
           Good == {k \in Nat : \E g : g = Step1(g, k)}
<1>1. \A s \in SUBSET (1..n) : IsFiniteSet(s) /\ Cardinality(s) \in Nat
  BY IndexSets
<1>2. ASSUME NEW s \in SUBSET (1..n), s # {}
      PROVE  s \ {Max(s)} \in SUBSET (1..n) /\ Cardinality(s \ {Max(s)}) = Cardinality(s) - 1
  BY <1>2, IndexSets
<1>3. 0 \in Good
  <2>1. \A s \in Small(0) : s = {}
    BY <1>1, FS_EmptySet
  <2>2. [s \in Small(0) |-> base] = Step1([s \in Small(0) |-> base], 0)
    BY <2>1
  <2> QED
    BY <2>2
<1>4. ASSUME NEW k \in Good PROVE k + 1 \in Good
  <2>1. PICK g : g = Step1(g, k)
    BY <1>4
  <2> DEFINE h == Step1(g, k + 1)
  <2>2. ASSUME NEW s \in Small(k + 1), s # {} PROVE h[s \ {Max(s)}] = g[s \ {Max(s)}]
    <3> DEFINE r == s \ {Max(s)}
    <3>1. r \in Small(k) /\ r \in Small(k + 1)
      <4>1. r \in SUBSET (1..n) /\ Cardinality(r) = Cardinality(s) - 1
        BY <1>2, <2>2
      <4>2. Cardinality(s) \in Nat /\ Cardinality(s) <= k + 1 /\ k \in Nat
        BY <1>1, <2>2
      <4>3. Cardinality(r) <= k /\ Cardinality(r) <= k + 1
        BY <4>1, <4>2
      <4> QED
        BY <4>1, <4>3
    <3> QED
      BY <2>1, <3>1
  <2>3. h = Step1(h, k + 1)
    BY <2>2
  <2>4. \E f : f = Step1(f, k + 1)
    <3> HIDE DEF h, Step1
    <3> QED
      BY <2>3
  <2> HIDE DEF h, Step1
  <2> QED
    BY <1>4, <2>4
<1>5. n \in Good
  <2> DEFINE Bad == {k \in Nat : k \notin Good}
  <2> SUFFICES ASSUME Bad # {} PROVE FALSE
    OBVIOUS
  <2>1. PICK k \in Bad : \A j \in Bad : k <= j
    <3>1. Bad \in SUBSET Nat
      OBVIOUS
    <3> HIDE DEF Bad
    <3> QED
      BY <3>1, LeastNumber
  <2> HIDE DEF Good
  <2>2. k # 0 /\ k - 1 \in Nat /\ k - 1 \notin Bad
    BY <1>3, <2>1
  <2>3. k - 1 \in Good
    BY <2>2
  <2>4. (k - 1) + 1 = k
    OBVIOUS
  <2>5. k \in Good
    BY <1>4, <2>3, <2>4
  <2> QED
    BY <2>1, <2>5
<1>6. PICK g : g = Step1(g, n)
  BY <1>5
<1>7. Small(n) = SUBSET (1..n)
  BY IndexSets
<1>8. Tabled(g, next, base, n)
  BY <1>6, <1>7 DEF Tabled
<1> DEFINE G == {s \in SUBSET (1..n) : g[s] \in T}
<1>9. ASSUME NEW s \in SUBSET (1..n), s # {}, s \ {Max(s)} \in G PROVE s \in G
  <2>1. Max(s) \in 1..n
    BY <1>9, IndexSets
  <2>2. g[s] = next[<<Max(s), g[s \ {Max(s)}]>>]
    BY <1>8, <1>9 DEF Tabled
  <2> QED
    BY <1>9, <2>1, <2>2
<1>10. {} \in G
  BY <1>8 DEF Tabled
<1>11. \A s \in SUBSET (1..n) : s \in G
  <2> HIDE DEF G
  <2>1. G \in SUBSET SUBSET (1..n)
    BY DEF G
  <2> QED
    BY <1>9, <1>10, <2>1, IndexInduction
<1> QED
  BY <1>8, <1>11

\* A fold that stays in T with every index has its values there.
LEMMA FoldTyped ==
    ASSUME NEW n \in Nat, NEW T, NEW h, h[{}] \in T,
           \A s \in SUBSET (1..n) : s # {} /\ h[s \ {Max(s)}] \in T => h[s] \in T
    PROVE  h[1..n] \in T
<1> DEFINE G == {s \in SUBSET (1..n) : h[s] \in T}
<1>1. {} \in G /\ G \in SUBSET SUBSET (1..n)
  OBVIOUS
<1>2. \A s \in SUBSET (1..n) : s # {} /\ s \ {Max(s)} \in G => s \in G
  OBVIOUS
<1>3. \A s \in SUBSET (1..n) : s \in G
  <2> HIDE DEF G
  <2> QED
    BY <1>1, <1>2, IndexInduction
<1> QED
  BY <1>3

-----------------------------------------------------------------------------
(* The evaluation of a candidate.                                          *)

LEMMA WinsType ==
    ASSUME NEW trades \in Seq(Int)
    PROVE  Wins(trades) \in Int
<1> DEFINE D == DOMAIN trades
           More(acc, x) == IF x > 0 THEN acc + x ELSE acc
           Folds(h) == h = [s \in SUBSET D |-> IF s = {} THEN 0
                                               ELSE More(h[s \ {Max(s)}], trades[Max(s)])]
           next == [p \in (1..Len(trades)) \X Int |-> More(p[2], trades[p[1]])]
<1>1. D = 1..Len(trades) /\ Len(trades) \in Nat /\ \A i \in D : trades[i] \in Int
  OBVIOUS
<1>2. Wins(trades) = (CHOOSE h : Folds(h))[D]
  BY DEF Wins, FoldLeft, MapThenFoldSet
<1>3. next \in [(1..Len(trades)) \X Int -> Int]
  BY <1>1
<1>4. PICK g : Tabled(g, next, 0, Len(trades)) /\ \A s \in SUBSET D : g[s] \in Int
  <2>1. 0 \in Int
    OBVIOUS
  <2> HIDE DEF next
  <2>2. \E g : Tabled(g, next, 0, Len(trades)) /\ \A s \in SUBSET (1..Len(trades)) : g[s] \in Int
    BY <1>1, <1>3, <2>1, FoldExists, Zenon
  <2> QED
    BY <1>1, <2>2
<1>5. \A s \in SUBSET D : s # {} => Max(s) \in D /\ s \ {Max(s)} \in SUBSET D
  BY <1>1, IndexSets
<1>6. Folds(g)
  BY <1>1, <1>4, <1>5 DEF Tabled
<1>7. PICK h : Folds(h) /\ Wins(trades) = h[D]
  <2> HIDE DEF Folds
  <2> QED
    BY <1>2, <1>6
<1>8. h[{}] \in Int
  BY <1>7
<1>9. ASSUME NEW s \in SUBSET D, s # {}, h[s \ {Max(s)}] \in Int PROVE h[s] \in Int
  <2>1. h[s] = More(h[s \ {Max(s)}], trades[Max(s)])
    BY <1>7, <1>9
  <2>2. trades[Max(s)] \in Int
    BY <1>1, <1>5, <1>9
  <2> QED
    BY <1>9, <2>1, <2>2
<1>10. h[1..Len(trades)] \in Int
  <2>1. \A s \in SUBSET (1..Len(trades)) : s # {} /\ h[s \ {Max(s)}] \in Int => h[s] \in Int
    BY <1>1, <1>9
  <2> QED
    BY <1>1, <1>8, <2>1, FoldTyped, Zenon
<1> QED
  BY <1>1, <1>7, <1>10

LEMMA LossesType ==
    ASSUME NEW trades \in Seq(Int)
    PROVE  Losses(trades) \in Nat
<1> DEFINE D == DOMAIN trades
           More(acc, x) == IF x < 0 THEN acc - x ELSE acc
           Folds(h) == h = [s \in SUBSET D |-> IF s = {} THEN 0
                                               ELSE More(h[s \ {Max(s)}], trades[Max(s)])]
           next == [p \in (1..Len(trades)) \X Nat |-> More(p[2], trades[p[1]])]
<1>1. D = 1..Len(trades) /\ Len(trades) \in Nat /\ \A i \in D : trades[i] \in Int
  OBVIOUS
<1>2. Losses(trades) = (CHOOSE h : Folds(h))[D]
  BY DEF Losses, FoldLeft, MapThenFoldSet
<1>3. next \in [(1..Len(trades)) \X Nat -> Nat]
  BY <1>1
<1>4. PICK g : Tabled(g, next, 0, Len(trades)) /\ \A s \in SUBSET D : g[s] \in Nat
  <2>1. 0 \in Nat
    OBVIOUS
  <2> HIDE DEF next
  <2>2. \E g : Tabled(g, next, 0, Len(trades)) /\ \A s \in SUBSET (1..Len(trades)) : g[s] \in Nat
    BY <1>1, <1>3, <2>1, FoldExists, Zenon
  <2> QED
    BY <1>1, <2>2
<1>5. \A s \in SUBSET D : s # {} => Max(s) \in D /\ s \ {Max(s)} \in SUBSET D
  BY <1>1, IndexSets
<1>6. Folds(g)
  BY <1>1, <1>4, <1>5 DEF Tabled
<1>7. PICK h : Folds(h) /\ Losses(trades) = h[D]
  <2> HIDE DEF Folds
  <2> QED
    BY <1>2, <1>6
<1>8. h[{}] \in Nat
  BY <1>7
<1>9. ASSUME NEW s \in SUBSET D, s # {}, h[s \ {Max(s)}] \in Nat PROVE h[s] \in Nat
  <2>1. h[s] = More(h[s \ {Max(s)}], trades[Max(s)])
    BY <1>7, <1>9
  <2>2. trades[Max(s)] \in Int
    BY <1>1, <1>5, <1>9
  <2> QED
    BY <1>9, <2>1, <2>2
<1>10. h[1..Len(trades)] \in Nat
  <2>1. \A s \in SUBSET (1..Len(trades)) : s # {} /\ h[s \ {Max(s)}] \in Nat => h[s] \in Nat
    BY <1>1, <1>9
  <2> QED
    BY <1>1, <1>8, <2>1, FoldTyped, Zenon
<1> QED
  BY <1>1, <1>7, <1>10

Bars == [close : Nat \ {0}, marks : SUBSET STRING]
Books == [pos : Nat, trades : Seq(Int)]

\* A bar takes a candidate's position and trades to others.
LEMMA StepType ==
    ASSUME NEW c, NEW b \in Books, NEW bar \in Bars
    PROVE  Step(c, b, bar) \in Books
<1>1. /\ b.pos \in Nat /\ b.trades \in Seq(Int) /\ bar.close \in Nat
      /\ b = [pos |-> b.pos, trades |-> b.trades]
  BY DEF Books, Bars
<1>2. CASE b.pos = 0
  <2>1. [b EXCEPT !.pos = bar.close] \in Books
    BY <1>1 DEF Books
  <2> QED
    BY <1>2, <2>1 DEF Step
<1>3. CASE b.pos # 0
  <2>1. ((bar.close - b.pos) * 1000) \div b.pos \in Int
    BY <1>1, <1>3
  <2>2. [pos |-> 0, trades |-> Append(b.trades, ((bar.close - b.pos) * 1000) \div b.pos)] \in Books
    BY <1>1, <2>1 DEF Books
  <2> QED
    BY <1>3, <2>2 DEF Step
<1> QED
  BY <1>2, <1>3

LEMMA SimulateType ==
    ASSUME NEW c, NEW bars \in Seq(Bars)
    PROVE  Simulate(c, bars) \in Seq(Int)
<1> DEFINE D == DOMAIN bars
           base == [pos |-> 0, trades |-> <<>>]
           Folds(h) == h = [s \in SUBSET D |-> IF s = {} THEN base
                                               ELSE Step(c, h[s \ {Max(s)}], bars[Max(s)])]
           next == [p \in (1..Len(bars)) \X Books |-> Step(c, p[2], bars[p[1]])]
<1>1. D = 1..Len(bars) /\ Len(bars) \in Nat /\ \A i \in D : bars[i] \in Bars
  OBVIOUS
<1>2. Simulate(c, bars) = (CHOOSE h : Folds(h))[D].trades
  BY DEF Simulate, FoldLeft, MapThenFoldSet
<1>3. next \in [(1..Len(bars)) \X Books -> Books]
  BY <1>1, StepType
<1>4. PICK g : Tabled(g, next, base, Len(bars)) /\ \A s \in SUBSET D : g[s] \in Books
  <2>1. base \in Books
    BY DEF Books
  <2> HIDE DEF next, base
  <2>2. \E g : Tabled(g, next, base, Len(bars)) /\ \A s \in SUBSET (1..Len(bars)) : g[s] \in Books
    BY <1>1, <1>3, <2>1, FoldExists, Zenon
  <2> QED
    BY <1>1, <2>2
<1>5. \A s \in SUBSET D : s # {} => Max(s) \in D /\ s \ {Max(s)} \in SUBSET D
  BY <1>1, IndexSets
<1>6. Folds(g)
  <2> HIDE DEF base
  <2> QED
    BY <1>1, <1>4, <1>5 DEF Tabled
<1>7. PICK h : Folds(h) /\ Simulate(c, bars) = h[D].trades
  <2> HIDE DEF Folds
  <2> QED
    BY <1>2, <1>6
<1>8. h[{}] \in Books
  <2>1. h[{}] = base
    <3> HIDE DEF base
    <3> QED
      BY <1>7
  <2> QED
    BY <2>1 DEF Books
<1>9. ASSUME NEW s \in SUBSET D, s # {}, h[s \ {Max(s)}] \in Books PROVE h[s] \in Books
  <2>1. h[s] = Step(c, h[s \ {Max(s)}], bars[Max(s)])
    <3> HIDE DEF base
    <3> QED
      BY <1>7, <1>9
  <2>2. bars[Max(s)] \in Bars
    BY <1>1, <1>5, <1>9
  <2> QED
    BY <1>9, <2>1, <2>2, StepType
<1>10. h[1..Len(bars)] \in Books
  <2>1. \A s \in SUBSET (1..Len(bars)) : s # {} /\ h[s \ {Max(s)}] \in Books => h[s] \in Books
    BY <1>1, <1>9
  <2> QED
    BY <1>1, <1>8, <2>1, FoldTyped, Zenon
<1> QED
  BY <1>1, <1>7, <1>10 DEF Books

\* An evaluation is one, whatever the history and the ratio.
LEMMA EvaluateType ==
    ASSUME NEW i \in 1..4, NEW trades \in Seq(Int), NEW dsr \in Int
    PROVE  Evaluate(Candidates[i], trades, dsr) \in Evaluations
<1> DEFINE c == Candidates[i]
           robust == /\ dsr >= 500 /\ ProfitFactor(trades) >= 110
                     /\ MaxDrawdown(EquityCurve(trades)) <= 120
<1>1. c.name \in Names
  <2>1. DOMAIN Candidates = 1..4
    BY DEF Candidates
  <2> QED
    BY <2>1 DEF Names
<1>2. ProfitFactor(trades) \in Int
  <2>1. Wins(trades) \in Int /\ Losses(trades) \in Nat
    BY WinsType, LossesType
  <2>2. CASE Losses(trades) = 0
    BY <2>1, <2>2 DEF ProfitFactor
  <2>3. CASE Losses(trades) # 0
    <3>1. (Wins(trades) * 100) \div Losses(trades) \in Int
      BY <2>1, <2>3
    <3> QED
      BY <2>3, <3>1 DEF ProfitFactor
  <2> QED
    BY <2>2, <2>3
<1>3. dsr * ProfitFactor(trades) \in Int
  BY <1>2
<1>4. robust \in BOOLEAN
  OBVIOUS
<1> HIDE DEF c
<1>5. [strategy |-> c.name, trades |-> trades, robust |-> FALSE, score |-> 0] \in Evaluations
  BY <1>1 DEF Evaluations
<1>6. [strategy |-> c.name, trades |-> trades, robust |-> robust, score |-> dsr * ProfitFactor(trades)]
         \in Evaluations
  <2> HIDE DEF robust
  <2> QED
    BY <1>1, <1>3, <1>4 DEF Evaluations
<1>7. Evaluate(c, trades, dsr) \in Evaluations
  BY <1>5, <1>6 DEF Evaluate
<1> QED
  BY <1>7 DEF c

\* Of four evaluations one outranks the others.
LEMMA TopExists ==
    ASSUME NEW results \in [1..4 -> Evaluations]
    PROVE  Top(results) \in Evaluations
<1> DEFINE Beats(i, j) == Outranks(results[i], i, results[j], j)
<1>1. \A i \in 1..4 : results[i].robust \in BOOLEAN /\ results[i].score \in Int
  BY DEF Evaluations
<1>2. \A i, j \in 1..4 : i # j => Beats(i, j) \/ Beats(j, i)
  BY <1>1 DEF Outranks
<1>3. \A i, j, k \in 1..4 : Beats(i, j) /\ Beats(j, k) => Beats(i, k)
  BY <1>1 DEF Outranks
<1> HIDE DEF Beats
<1>4. PICK a \in {1, 2} : \A j \in {1, 2} \ {a} : Beats(a, j)
  BY <1>2
<1>5. PICK b \in {3, 4} : \A j \in {3, 4} \ {b} : Beats(b, j)
  BY <1>2
<1>6. PICK t \in {a, b} : \A j \in {a, b} \ {t} : Beats(t, j)
  BY <1>2
<1>7. \A j \in (1..4) \ {t} : Beats(t, j)
  <2> SUFFICES ASSUME NEW j \in (1..4) \ {t} PROVE Beats(t, j)
    OBVIOUS
  <2>1. 1..4 = {1, 2, 3, 4}
    OBVIOUS
  <2>2. CASE t = a
    BY <1>3, <1>4, <1>5, <1>6, <2>1, <2>2
  <2>3. CASE t = b
    BY <1>3, <1>4, <1>5, <1>6, <2>1, <2>3
  <2> QED
    BY <2>2, <2>3
<1>8. \E i \in DOMAIN results : \A j \in DOMAIN results \ {i} : Outranks(results[i], i, results[j], j)
  BY <1>7 DEF Beats
<1> QED
  BY <1>8 DEF Top

-----------------------------------------------------------------------------
(***************************************************************************)
(* The inductive invariant of StrategyAllocation.                           *)
(***************************************************************************)

\* A manifest of a bot has the number of a decision made; unless it waits, that
\* decision found its strategy robust.
Warranted(m) ==
    m.id # Manual =>
        /\ m.id \in 1..runs
        /\ m.strategy # "WAIT" => /\ made[m.id] \in Evaluations /\ made[m.id].robust
                                  /\ made[m.id].strategy = m.strategy

\* Whoever left it, the manifest in the file of a day is for the day after, and was made
\* before that day's session opens.
Filed(m, d) ==
    /\ m \in Manifests /\ m.date = d /\ m.target = d + 1
    /\ m.at \in Int /\ m.at < Opening(d + 1)
    /\ Warranted(m)

ClockInv ==
    /\ now \in Nat /\ Day(now) \in FirstDay..LastDay
    /\ runs \in Nat /\ made \in Seq(Evaluations \cup {None}) /\ Len(made) = runs

FilesInv ==
    /\ files = [d \in Days |-> files[d]]
    /\ \A d \in Days : files[d] \in Manifests => Filed(files[d], d)

\* What a research cycle has found and what it is going to file.
CycleOk(r) ==
    /\ r = [pc |-> r.pc, regime |-> r.regime, results |-> r.results, manifest |-> r.manifest]
    /\ r.pc = "backtest" => r.results = <<>>
    /\ r.pc = "decide" => r.results = <<>> \/ r.results \in [1..4 -> Evaluations]
    /\ r.pc \in {"select", "write"} =>
          /\ r.manifest.date \in Days /\ Filed(r.manifest, r.manifest.date)
          /\ r.manifest.id # Manual

BotInv ==
    /\ bot = [b \in Bots |-> bot[b]]
    /\ \A b \in Bots : CycleOk(bot[b])

\* Today's orders of the bots are made in the session.  Those under a decision that was not
\* late have one number, and the file of yesterday holds that decision, or what came into it
\* since: nothing whole, a manifest of the operator, or a decision that was late.
OrdersInv ==
    \A o \in ByBot :
        /\ o.id \in 1..runs /\ made[o.id] \in Evaluations
        /\ made[o.id].robust /\ made[o.id].strategy = o.strategy
        /\ o.target = Day(now) /\ o.made \in Int /\ o.made <= now /\ o.made < Opening(o.target)
        /\ Slot(now) # Early
        /\ o.id \notin late =>
              /\ files[Day(now) - 1] \in Manifests =>
                    files[Day(now) - 1].id \in {o.id, Manual} \cup late
              /\ \A p \in ByBot : p.id \notin late => p.id = o.id

AllocationInv == ClockInv /\ FilesInv /\ BotInv /\ OrdersInv

-----------------------------------------------------------------------------
(***************************************************************************)
(* It holds at first and is kept by every action.                           *)
(***************************************************************************)

\* Days and their three parts.
LEMMA ClockFacts ==
    ASSUME NEW t \in Nat
    PROVE  /\ Day(t) \in Nat /\ Slot(t) \in {Early, Trading, Closed}
           /\ Day(t + 1) = Day(t) => Slot(t + 1) # Early
           /\ UtcDay(t) = IF Slot(t) = Early THEN Day(t) - 1 ELSE Day(t)
           /\ t < Opening(UtcDay(t) + 1)
           /\ Slot(t) # Early => t >= Opening(Day(t))
  BY DEF Day, Slot, UtcDay, Opening, SlotsPerDay, Early, Trading, Closed

\* What a file that holds no whole manifest may hold is no manifest, and None is no evaluation.
LEMMA Markers ==
    /\ None \notin Manifests /\ Corrupt \notin Manifests /\ None \notin Evaluations
    /\ \A n : Emptied(n) \notin Manifests
    /\ Manual \notin Nat
<1>1. ASSUME NEW n, Emptied(n) \in Manifests PROVE FALSE
  <2>1. "id" \in DOMAIN Emptied(n)
    BY <1>1 DEF Manifests
  <2>2. DOMAIN Emptied(n) = {"openedFor"}
    BY DEF Emptied
  <2> QED
    BY <2>1, <2>2
<1> QED
  BY <1>1, ManifestAssumption

\* What is filed stays so when the decisions made so far do.
LEMMA StillFiled ==
    ASSUME runs' \in Nat, runs \in Nat, runs <= runs', \A i \in 1..runs : made'[i] = made[i]
    PROVE  \A m, d : Filed(m, d) => Filed(m, d)'
<1> SUFFICES ASSUME NEW m, NEW d, Filed(m, d) PROVE Filed(m, d)'
  OBVIOUS
<1>1. m.id \in 1..runs => m.id \in 1..runs' /\ made'[m.id] = made[m.id]
  OBVIOUS
<1> QED
  BY <1>1 DEF Filed, Warranted, Opening

LEMMA FiledIsKept ==
    ASSUME AllocationInv, UNCHANGED <<runs, made>>
    PROVE  \A m, d : Filed(m, d) => Filed(m, d)'
  BY StillFiled DEF AllocationInv, ClockInv

\* One cycle moves.
LEMMA BotMoves ==
    ASSUME BotInv, NEW b \in Bots, NEW r, bot' = [bot EXCEPT ![b] = r], CycleOk(r)',
           \A m, d : Filed(m, d) => Filed(m, d)'
    PROVE  BotInv'
<1>1. bot' = [c \in Bots |-> bot'[c]]
  BY DEF BotInv
<1>2. ASSUME NEW c \in Bots PROVE CycleOk(bot[c])'
  <2>1. CASE c = b
    BY <2>1 DEF BotInv
  <2>2. CASE c # b
    <3>1. PICK x : x = bot[c]
      OBVIOUS
    <3>2. bot'[c] = x /\ CycleOk(x)
      BY <2>2, <3>1 DEF BotInv
    <3>3. CycleOk(x)'
      BY <3>2 DEF CycleOk, Days
    <3> QED
      BY <3>2, <3>3
  <2> QED
    BY <2>1, <2>2
<1> QED
  BY <1>1, <1>2 DEF BotInv

\* One file is written.
LEMMA FileWritten ==
    ASSUME FilesInv, NEW d \in Days, NEW x, files' = [files EXCEPT ![d] = x],
           x \in Manifests => Filed(x, d)', \A m, c : Filed(m, c) => Filed(m, c)'
    PROVE  /\ FilesInv' /\ files'[d] = x
           /\ \A c \in Days : c # d => files'[c] = files[c]
<1>1. files' = [c \in Days |-> files'[c]] /\ files'[d] = x
  BY DEF FilesInv
<1>2. \A c \in Days : c # d => files'[c] = files[c]
  BY DEF FilesInv
<1>3. ASSUME NEW c \in Days, files'[c] \in Manifests PROVE Filed(files[c], c)'
  <2>1. PICK y : y = files'[c]
    OBVIOUS
  <2>2. Filed(y, c)'
    <3>1. CASE c = d
      BY <1>1, <1>3, <2>1, <3>1
    <3>2. CASE c # d
      BY <1>2, <1>3, <2>1, <3>2 DEF FilesInv
    <3> QED
      BY <3>1, <3>2
  <2> QED
    BY <2>1, <2>2
<1> QED
  BY <1>1, <1>2, <1>3 DEF FilesInv, Days

LEMMA FilesStay ==
    ASSUME FilesInv, UNCHANGED files, \A m, c : Filed(m, c) => Filed(m, c)'
    PROVE  FilesInv'
<1>1. ASSUME NEW c \in Days, files'[c] \in Manifests PROVE Filed(files[c], c)'
  <2>1. PICK y : y = files'[c]
    OBVIOUS
  <2>2. Filed(y, c)'
    BY <1>1, <2>1 DEF FilesInv
  <2> QED
    BY <2>1, <2>2
<1> QED
  BY <1>1 DEF FilesInv, Days

\* The orders do not mind what comes into yesterday's file, if it is nothing whole, a manifest
\* of the operator or a decision that is late.
LEMMA OrdersStay ==
    ASSUME AllocationInv, UNCHANGED <<now, bought>>, runs' \in Nat, runs <= runs',
           \A i \in 1..runs : made'[i] = made[i], late \subseteq late',
           \/ files'[Day(now) - 1] = files[Day(now) - 1]
           \/ Slot(now) = Early
           \/ files'[Day(now) - 1] \notin Manifests
           \/ files'[Day(now) - 1].id \in {Manual} \cup late'
    PROVE  OrdersInv'
<1> SUFFICES ASSUME NEW o \in ByBot PROVE OrdersInv!(o)'
  BY DEF OrdersInv, ByBot
<1>1. OrdersInv!(o) /\ runs \in Nat
  BY DEF AllocationInv, OrdersInv, ClockInv
<1>2. Day(now)' = Day(now) /\ Slot(now)' = Slot(now) /\ ByBot' = ByBot
  BY DEF Day, Slot, ByBot
<1>3. o.id \in 1..runs' /\ made'[o.id] = made[o.id] /\ Slot(now) # Early
  BY <1>1
<1>4. /\ o.target = Day(now)' /\ o.made \in Int /\ o.made <= now'
      /\ o.made < Opening(o.target)
  BY <1>1, <1>2
<1>5. ASSUME o.id \notin late'
      PROVE  /\ files'[Day(now) - 1] \in Manifests =>
                    files'[Day(now) - 1].id \in {o.id, Manual} \cup late'
             /\ \A p \in ByBot : p.id \notin late' => p.id = o.id
  BY <1>1, <1>3, <1>5
<1> QED
  BY <1>1, <1>2, <1>3, <1>4, <1>5 DEF Opening

LEMMA InitAllocation == Init => AllocationInv
<1> SUFFICES ASSUME Init PROVE AllocationInv
  OBVIOUS
<1>1. ClockInv
  <2>1. now \in Nat /\ Day(now) = FirstDay
    BY AllocationAssumption DEF Init, Day, SlotsPerDay, Closed
  <2> QED
    BY <2>1, AllocationAssumption DEF Init, ClockInv
<1>2. FilesInv
  BY Markers DEF Init, FilesInv
<1>3. BotInv
  BY DEF Init, BotInv, CycleOk, Idle
<1>4. OrdersInv
  BY DEF Init, OrdersInv, ByBot
<1> QED
  BY <1>1, <1>2, <1>3, <1>4 DEF AllocationInv

\* A step of a cycle that only looks.
LEMMA OnlyLooks ==
    ASSUME AllocationInv, NEW b \in Bots, NEW r, bot' = [bot EXCEPT ![b] = r],
           r = [pc |-> r.pc, regime |-> r.regime, results |-> r.results, manifest |-> r.manifest],
           \/ r.pc = "backtest" /\ r.results = <<>>
           \/ r.pc = "decide" /\ (r.results = <<>> \/ r.results \in [1..4 -> Evaluations])
           \/ r.pc \in {"idle", "persist"},
           UNCHANGED <<now, files, runs, bought, made, late>>
    PROVE  AllocationInv'
<1>1. \A m, d : Filed(m, d) => Filed(m, d)'
  BY FiledIsKept
<1>2. CycleOk(r)'
  BY DEF CycleOk
<1>3. BotInv'
  BY <1>1, <1>2, BotMoves DEF AllocationInv
<1>4. FilesInv'
  BY <1>1, FilesStay DEF AllocationInv
<1>5. ClockInv'
  BY DEF AllocationInv, ClockInv, Day
<1>6. OrdersInv'
  BY OrdersStay DEF AllocationInv, ClockInv
<1> QED
  BY <1>3, <1>4, <1>5, <1>6 DEF AllocationInv

LEMMA AnalyzeStep ==
    ASSUME AllocationInv, NEW b \in Bots, AnalyzeEod(b)
    PROVE  AllocationInv'
<1>1. PICK g : bot' = [bot EXCEPT ![b] = [Idle EXCEPT !.pc = "backtest", !.regime = g]]
  BY DEF AnalyzeEod
<1>2. PICK r : r = [Idle EXCEPT !.pc = "backtest", !.regime = g]
  OBVIOUS
<1>3. bot' = [bot EXCEPT ![b] = r]
  BY <1>1, <1>2
<1>4. r = [pc |-> "backtest", regime |-> g, results |-> <<>>, manifest |-> None]
  BY <1>2 DEF Idle
<1> QED
  BY <1>3, <1>4, OnlyLooks DEF AnalyzeEod

LEMMA BacktestStep ==
    ASSUME AllocationInv, NEW b \in Bots, Backtest(b)
    PROVE  AllocationInv'
<1>1. PICK x : x = bot[b] /\ x.pc = "backtest"
  BY DEF Backtest
<1>2. /\ x = [pc |-> x.pc, regime |-> x.regime, results |-> x.results, manifest |-> x.manifest]
      /\ x.results = <<>> /\ bot = [c \in Bots |-> bot[c]]
  BY <1>1 DEF AllocationInv, BotInv, CycleOk
<1>3. CASE bot' = [bot EXCEPT ![b].pc = "decide"]
  <2>1. PICK r : r = [x EXCEPT !.pc = "decide"]
    OBVIOUS
  <2>2. bot' = [bot EXCEPT ![b] = r]
    BY <1>1, <1>2, <1>3, <2>1
  <2>3. r = [pc |-> "decide", regime |-> x.regime, results |-> <<>>, manifest |-> x.manifest]
    BY <1>2, <2>1
  <2> QED
    BY <2>2, <2>3, OnlyLooks DEF Backtest
<1>4. ASSUME NEW bars \in Histories, NEW dsr \in DsrValues,
             bot' = [bot EXCEPT ![b].pc = "decide",
                                ![b].results = [i \in DOMAIN Candidates |->
                                    Evaluate(Candidates[i], Simulate(Candidates[i], bars), dsr)]]
      PROVE  AllocationInv'
  <2>1. PICK rs : rs = [i \in DOMAIN Candidates |->
                          Evaluate(Candidates[i], Simulate(Candidates[i], bars), dsr)]
    OBVIOUS
  <2>2. rs \in [1..4 -> Evaluations]
    <3>1. DOMAIN Candidates = 1..4
      BY DEF Candidates
    <3>2. bars \in Seq(Bars) /\ dsr \in Int
      BY AllocationAssumption DEF Bars
    <3>3. \A i \in 1..4 : Evaluate(Candidates[i], Simulate(Candidates[i], bars), dsr) \in Evaluations
      BY <3>2, SimulateType, EvaluateType
    <3> QED
      BY <2>1, <3>1, <3>3
  <2>3. PICK r : r = [x EXCEPT !.pc = "decide", !.results = rs]
    OBVIOUS
  <2>4. bot' = [bot EXCEPT ![b].pc = "decide", ![b].results = rs]
    BY <1>4, <2>1
  <2>5. bot' = [bot EXCEPT ![b] = r]
    BY <1>1, <1>2, <2>3, <2>4
  <2>6. r = [pc |-> "decide", regime |-> x.regime, results |-> rs, manifest |-> x.manifest]
    BY <1>2, <2>3
  <2> QED
    BY <2>2, <2>5, <2>6, OnlyLooks DEF Backtest
<1> QED
  BY <1>3, <1>4 DEF Backtest

LEMMA PersistStep ==
    ASSUME AllocationInv, NEW b \in Bots, PersistDecision(b)
    PROVE  AllocationInv'
  BY OnlyLooks DEF PersistDecision, Idle

LEMMA DieStep ==
    ASSUME AllocationInv, NEW b \in Bots, BotDies(b)
    PROVE  AllocationInv'
<1>1. /\ bot' = [bot EXCEPT ![b] = Idle]
      /\ UNCHANGED <<now, runs, bought, made, late>>
  BY DEF BotDies
<1>2. CASE UNCHANGED files
  BY <1>1, <1>2, OnlyLooks DEF Idle
<1>3. CASE bot[b].pc = "write" /\ files' = [files EXCEPT ![bot[b].manifest.date] = Corrupt]
  <2>1. PICK d : d = bot[b].manifest.date
    OBVIOUS
  <2>2. d \in Days /\ files' = [files EXCEPT ![d] = Corrupt]
    BY <1>3, <2>1 DEF AllocationInv, BotInv, CycleOk
  <2>3. \A m, c : Filed(m, c) => Filed(m, c)'
    BY <1>1, FiledIsKept
  <2>4. FilesInv' /\ files'[d] = Corrupt /\ \A c \in Days : c # d => files'[c] = files[c]
    BY <2>2, <2>3, FileWritten, Markers DEF AllocationInv
  <2>5. CycleOk(Idle)'
    BY DEF CycleOk, Idle
  <2>6. BotInv'
    BY <1>1, <2>3, <2>5, BotMoves DEF AllocationInv, Idle
  <2>7. Day(now) - 1 \in Days
    BY AllocationAssumption DEF AllocationInv, ClockInv, Days
  <2>8. OrdersInv'
    BY <1>1, <2>2, <2>4, <2>7, OrdersStay, Markers DEF AllocationInv, ClockInv
  <2>9. ClockInv'
    BY <1>1 DEF AllocationInv, ClockInv, Day
  <2> QED
    BY <2>4, <2>6, <2>8, <2>9 DEF AllocationInv
<1> QED
  BY <1>2, <1>3 DEF BotDies

\* What a bot decides: to wait, or for the first of its ranking, which is robust.
LEMMA ChoiceIsRobust ==
    ASSUME NEW rs, rs = <<>> \/ rs \in [1..4 -> Evaluations], Choice(rs) # "WAIT"
    PROVE  rs # <<>> /\ Top(rs) \in Evaluations /\ Top(rs).robust /\ Top(rs).strategy = Choice(rs)
<1>1. rs # <<>> /\ Top(rs).robust /\ Top(rs).strategy = Choice(rs)
  BY DEF Choice
<1> QED
  BY <1>1, TopExists

LEMMA TopOrNone ==
    ASSUME NEW rs, rs = <<>> \/ rs \in [1..4 -> Evaluations]
    PROVE  /\ (IF rs = <<>> THEN None ELSE Top(rs)) \in Evaluations \cup {None}
           /\ Choice(rs) \in Names \cup {"WAIT"}
  BY TopExists DEF Choice, Evaluations

\* The decision is stamped.
LEMMA DecideStep ==
    ASSUME AllocationInv, NEW b \in Bots, Decide(b)
    PROVE  AllocationInv'
<1>1. PICK rs : rs = bot[b].results
  OBVIOUS
<1>2. /\ UNCHANGED <<now, files, table, processed, bought, late>>
      /\ runs' = runs + 1 /\ runs \in Nat /\ now \in Nat /\ Day(now) \in FirstDay..LastDay
      /\ rs = <<>> \/ rs \in [1..4 -> Evaluations]
  BY <1>1 DEF Decide, AllocationInv, ClockInv, BotInv, CycleOk
<1>3. PICK d : d = UtcDay(now)
  OBVIOUS
<1>4. PICK m : m = [id |-> runs + 1, date |-> d, at |-> now, aware |-> TRUE,
                    target |-> TargetSession(now), strategy |-> Choice(rs),
                    params |-> DefaultParams, rm |-> IF Choice(rs) = "WAIT" THEN 0 ELSE 10]
  OBVIOUS
<1>5. PICK e : e = IF rs = <<>> THEN None ELSE Top(rs)
  OBVIOUS
<1>6. PICK r : r = [Idle EXCEPT !.pc = "select", !.manifest = m]
  OBVIOUS
<1>7. bot' = [bot EXCEPT ![b] = r] /\ made' = Append(made, e)
  <2>1. bot' = [bot EXCEPT ![b] = [Idle EXCEPT !.pc = "select", !.manifest = m]]
    BY <1>1, <1>3, <1>4 DEF Decide
  <2> QED
    BY <1>1, <1>5, <1>6, <2>1 DEF Decide
<1>8. d \in Days /\ d \in Int /\ now < Opening(d + 1)
  <2>1. d \in {Day(now) - 1, Day(now)} /\ now < Opening(d + 1)
    BY <1>2, <1>3, ClockFacts
  <2> QED
    BY <1>2, <2>1, AllocationAssumption DEF Days
<1>9. /\ made \in Seq(Evaluations \cup {None}) /\ Len(made) = runs
      /\ e \in Evaluations \cup {None}
  BY <1>2, <1>5, TopOrNone DEF AllocationInv, ClockInv
<1>10. /\ made' \in Seq(Evaluations \cup {None}) /\ Len(made') = runs + 1
       /\ \A i \in 1..runs : made'[i] = made[i]
       /\ made'[runs + 1] = e
  BY <1>2, <1>7, <1>9
<1>11. /\ m \in Manifests /\ m.date = d /\ m.target = d + 1 /\ m.id = runs + 1
       /\ m.strategy = Choice(rs) /\ m.at = now
  <2>1. Choice(rs) \in Names \cup {"WAIT"}
    BY <1>2, TopOrNone
  <2>2. (IF Choice(rs) = "WAIT" THEN 0 ELSE 10) \in Int
    OBVIOUS
  <2>3. TargetSession(now) = d + 1 /\ TargetSession(now) \in Int /\ now \in Int /\ runs + 1 \in Nat
    BY <1>2, <1>3, <1>8 DEF TargetSession
  <2> HIDE DEF Choice
  <2> QED
    BY <1>4, <1>8, <2>1, <2>2, <2>3 DEF Manifests
<1>12. Filed(m, d)' /\ m.id # Manual
  <2>1. m.id \in 1..runs'
    BY <1>2, <1>11
  <2>2. ASSUME m.strategy # "WAIT"
        PROVE  made'[m.id] \in Evaluations /\ made'[m.id].robust /\ made'[m.id].strategy = m.strategy
    <3>1. rs # <<>> /\ Top(rs) \in Evaluations /\ Top(rs).robust /\ Top(rs).strategy = Choice(rs)
      BY <1>2, <1>11, <2>2, ChoiceIsRobust
    <3>2. made'[m.id] = Top(rs)
      BY <1>5, <1>10, <1>11, <3>1
    <3> QED
      BY <1>11, <3>1, <3>2
  <2>3. runs + 1 # Manual
    BY <1>2, Markers
  <2>4. m.at \in Int /\ m.at < Opening(d + 1)
    BY <1>2, <1>8, <1>11
  <2> QED
    BY <1>11, <2>1, <2>2, <2>3, <2>4 DEF Filed, Warranted, Opening
<1>13. \A x, c : Filed(x, c) => Filed(x, c)'
  BY <1>2, <1>10, StillFiled
<1>14. ClockInv'
  BY <1>2, <1>10 DEF ClockInv, Day
<1>15. FilesInv'
  BY <1>2, <1>13, FilesStay DEF AllocationInv
<1>16. CycleOk(r)'
  <2>1. r = [pc |-> "select", regime |-> None, results |-> <<>>, manifest |-> m]
    BY <1>6 DEF Idle
  <2> QED
    BY <1>8, <1>11, <1>12, <2>1 DEF CycleOk, Days
<1>17. BotInv'
  BY <1>7, <1>13, <1>16, BotMoves DEF AllocationInv
<1>18. OrdersInv'
  BY <1>2, <1>10, OrdersStay
<1> QED
  BY <1>14, <1>15, <1>17, <1>18 DEF AllocationInv

\* Its file is opened, ...
LEMMA OpenStep ==
    ASSUME AllocationInv, NEW b \in Bots, OpenManifest(b)
    PROVE  AllocationInv'
<1>1. PICK x : x = bot[b]
  OBVIOUS
<1>2. PICK d : d = x.manifest.date
  OBVIOUS
<1>3. /\ x.pc = "select" /\ CycleOk(x) /\ bot = [c \in Bots |-> bot[c]]
      /\ UNCHANGED <<now, runs, bought, made, late>>
      /\ files' = [files EXCEPT ![d] = Emptied(x.manifest.id)]
      /\ bot' = [bot EXCEPT ![b].pc = "write"]
  BY <1>1, <1>2 DEF OpenManifest, AllocationInv, BotInv
<1>4. PICK r : r = [x EXCEPT !.pc = "write"]
  OBVIOUS
<1>5. bot' = [bot EXCEPT ![b] = r]
  BY <1>1, <1>3, <1>4
<1>6. \A m, c : Filed(m, c) => Filed(m, c)'
  BY <1>3, FiledIsKept
<1>7. d \in Days
  BY <1>2, <1>3 DEF CycleOk
<1>8. CycleOk(r)'
  <2>1. r = [pc |-> "write", regime |-> x.regime, results |-> x.results, manifest |-> x.manifest]
    BY <1>3, <1>4 DEF CycleOk
  <2> QED
    BY <1>3, <1>6, <2>1 DEF CycleOk, Days
<1>9. BotInv'
  BY <1>5, <1>6, <1>8, BotMoves DEF AllocationInv
<1>10. /\ FilesInv' /\ files'[d] = Emptied(x.manifest.id)
       /\ \A c \in Days : c # d => files'[c] = files[c]
  BY <1>3, <1>6, <1>7, FileWritten, Markers DEF AllocationInv
<1>11. Day(now) - 1 \in Days
  BY AllocationAssumption DEF AllocationInv, ClockInv, Days
<1>12. OrdersInv'
  <2>1. files'[Day(now) - 1] = files[Day(now) - 1] \/ files'[Day(now) - 1] \notin Manifests
    BY <1>10, <1>11, Markers
  <2> QED
    BY <1>3, <2>1, OrdersStay DEF AllocationInv, ClockInv
<1>13. ClockInv'
  BY <1>3 DEF AllocationInv, ClockInv, Day
<1> QED
  BY <1>9, <1>10, <1>12, <1>13 DEF AllocationInv

\* ... and written, late when the session of the file is open: nothing else comes into
\* yesterday's file once a session is being traded.
LEMMA WriteStep ==
    ASSUME AllocationInv, NEW b \in Bots, WriteManifest(b)
    PROVE  AllocationInv'
<1>1. PICK x : x = bot[b]
  OBVIOUS
<1>2. PICK m : m = x.manifest
  OBVIOUS
<1>3. PICK d : d = m.date
  OBVIOUS
<1>4. PICK content \in {m, Corrupt} : files' = [files EXCEPT ![d] = content]
  BY <1>1, <1>2, <1>3 DEF WriteManifest
<1>5. /\ x.pc = "write" /\ CycleOk(x) /\ bot = [c \in Bots |-> bot[c]]
      /\ UNCHANGED <<now, runs, bought, made>>
      /\ late' = IF now >= Opening(m.target) THEN late \cup {m.id} ELSE late
      /\ bot' = [bot EXCEPT ![b].pc = "persist"]
  BY <1>1, <1>2 DEF WriteManifest, AllocationInv, BotInv
<1>6. d \in Days /\ Filed(m, d) /\ m.id # Manual
  BY <1>2, <1>3, <1>5 DEF CycleOk
<1>7. PICK r : r = [x EXCEPT !.pc = "persist"]
  OBVIOUS
<1>8. bot' = [bot EXCEPT ![b] = r]
  BY <1>1, <1>5, <1>7
<1>9. \A y, c : Filed(y, c) => Filed(y, c)'
  BY <1>5, FiledIsKept
<1>10. CycleOk(r)'
  <2>1. r = [pc |-> "persist", regime |-> x.regime, results |-> x.results, manifest |-> x.manifest]
    BY <1>5, <1>7 DEF CycleOk
  <2> QED
    BY <2>1 DEF CycleOk
<1>11. BotInv'
  BY <1>8, <1>9, <1>10, BotMoves DEF AllocationInv
<1>12. FilesInv' /\ files'[d] = content /\ \A c \in Days : c # d => files'[c] = files[c]
  <2>1. content \in Manifests => Filed(content, d)'
    BY <1>4, <1>6, <1>9, Markers
  <2> QED
    BY <1>4, <1>6, <1>9, <2>1, FileWritten DEF AllocationInv
<1>13. now \in Nat /\ Day(now) - 1 \in Days /\ Day(now) \in Int
  BY AllocationAssumption DEF AllocationInv, ClockInv, Days
<1>14. OrdersInv'
  <2>1. \/ files'[Day(now) - 1] = files[Day(now) - 1]
        \/ Slot(now) = Early
        \/ files'[Day(now) - 1] \notin Manifests
        \/ files'[Day(now) - 1].id \in {Manual} \cup late'
    <3>1. CASE Day(now) - 1 # d
      BY <1>12, <1>13, <3>1
    <3>2. CASE Day(now) - 1 = d /\ content = Corrupt
      BY <1>12, <3>2, Markers
    <3>3. CASE Day(now) - 1 = d /\ content = m /\ Slot(now) # Early
      <4>1. m.target = Day(now)
        BY <1>6, <1>13, <3>3 DEF Filed
      <4>2. now >= Opening(m.target)
        BY <1>13, <3>3, <4>1, ClockFacts
      <4> QED
        BY <1>5, <1>12, <3>3, <4>2
    <3> QED
      BY <1>4, <3>1, <3>2, <3>3
  <2> QED
    BY <1>5, <2>1, OrdersStay DEF AllocationInv, ClockInv
<1>15. ClockInv'
  BY <1>5 DEF AllocationInv, ClockInv, Day
<1> QED
  BY <1>11, <1>12, <1>14, <1>15 DEF AllocationInv

LEMMA LeaveStep ==
    ASSUME AllocationInv, LeaveManifest
    PROVE  AllocationInv'
<1>1. PICK h \in Handwritten :
         files' = [files EXCEPT ![Day(now) - 1] =
            [id |-> Manual, date |-> Day(now) - 1, at |-> now - SlotsPerDay, aware |-> h.aware,
             target |-> Day(now), strategy |-> h.strategy, params |-> h.params, rm |-> h.rm]]
  BY DEF LeaveManifest
<1>2. PICK d : d = Day(now) - 1
  OBVIOUS
<1>3. PICK m : m = [id |-> Manual, date |-> Day(now) - 1, at |-> now - SlotsPerDay, aware |-> h.aware,
                    target |-> Day(now), strategy |-> h.strategy, params |-> h.params, rm |-> h.rm]
  OBVIOUS
<1>4. UNCHANGED <<now, bot, runs, bought, made, late>> /\ files' = [files EXCEPT ![d] = m]
  BY <1>1, <1>2, <1>3 DEF LeaveManifest
<1>5. now \in Nat /\ Day(now) \in Int /\ d \in Int /\ d \in Days
  BY <1>2, AllocationAssumption DEF AllocationInv, ClockInv, Days
<1>6. m \in Manifests /\ m.id = Manual /\ m.date = d /\ m.target = d + 1 /\ m.at = now - SlotsPerDay
  <2>1. h.rm \in Int /\ h.aware \in BOOLEAN
    BY ManifestAssumption
  <2>2. now - SlotsPerDay \in Int
    BY <1>5 DEF SlotsPerDay
  <2> QED
    BY <1>2, <1>3, <1>5, <2>1, <2>2 DEF Manifests
<1>7. Filed(m, d)'
  <2>1. now - SlotsPerDay \in Int /\ now - SlotsPerDay < Opening(d + 1)
    BY <1>2, <1>5 DEF Day, Opening, SlotsPerDay, Trading
  <2> QED
    BY <1>6, <2>1 DEF Filed, Warranted, Opening
<1>8. \A y, c : Filed(y, c) => Filed(y, c)'
  BY <1>4, FiledIsKept
<1>9. FilesInv' /\ files'[d] = m
  BY <1>4, <1>5, <1>7, <1>8, FileWritten DEF AllocationInv
<1>10. BotInv'
  <2>1. ASSUME NEW c \in Bots PROVE CycleOk(bot[c])'
    <3>1. PICK x : x = bot[c]
      OBVIOUS
    <3>2. bot'[c] = x /\ CycleOk(x)
      BY <1>4, <3>1 DEF AllocationInv, BotInv
    <3>3. CycleOk(x)'
      BY <1>8, <3>2 DEF CycleOk, Days
    <3> QED
      BY <3>2, <3>3
  <2> QED
    BY <1>4, <2>1 DEF AllocationInv, BotInv
<1>11. OrdersInv'
  BY <1>2, <1>4, <1>6, <1>9, OrdersStay DEF AllocationInv, ClockInv
<1>12. ClockInv'
  BY <1>4 DEF AllocationInv, ClockInv, Day
<1> QED
  BY <1>9, <1>10, <1>11, <1>12 DEF AllocationInv

\* The manifest a cycle acts on is that of the day before, which the checks of
\* get_latest_strategy_decision have passed.
LEMMA LatestIsYesterdays ==
    ASSUME AllocationInv, NEW m, m = LatestDecision(Day(now)), m # None
    PROVE  /\ m = files[Day(now) - 1] /\ m \in Manifests /\ Filed(m, Day(now) - 1)
           /\ m.target = Day(now) /\ m.strategy # "WAIT" /\ m.at <= now
<1> DEFINE written == {d \in Days : files[d] # None}
<1>1. /\ LatestFile \in Manifests /\ m = LatestFile
      /\ LatestFile.strategy # "WAIT" /\ Admissible(LatestFile, Day(now))
  BY DEF LatestDecision
<1>2. written # {} /\ m = files[Max(written)]
  BY <1>1, Markers DEF LatestFile
<1>3. PICK d : d = Max(written)
  OBVIOUS
<1>4. d \in Days
  <2>1. FirstDay - 1 \in Int /\ LastDay \in Int /\ written \in SUBSET ((FirstDay - 1)..LastDay)
    BY AllocationAssumption DEF Days
  <2> HIDE DEF written
  <2>2. Max(written) \in written
    BY <1>2, <2>1, GreatestOfRange
  <2> QED
    BY <1>3, <2>2 DEF written
<1> HIDE DEF written
<1>5. Filed(m, d)
  BY <1>1, <1>2, <1>3, <1>4 DEF AllocationInv, FilesInv
<1>6. m.target = Day(now) /\ m.at <= now
  BY <1>1 DEF Admissible
<1>7. d = Day(now) - 1
  <2>1. d \in Int /\ Day(now) \in Int
    BY <1>4, AllocationAssumption DEF Days, AllocationInv, ClockInv
  <2> QED
    BY <1>5, <1>6, <2>1 DEF Filed
<1> QED
  BY <1>1, <1>2, <1>3, <1>5, <1>6, <1>7

LEMMA CycleStep ==
    ASSUME AllocationInv, Cycle
    PROVE  AllocationInv'
<1>1. PICK m : m = LatestDecision(Day(now))
  OBVIOUS
<1>2. Slot(now) = Trading /\ m # None /\ UNCHANGED <<now, bot, files, table, runs, made, late>>
  BY <1>1 DEF Cycle
<1>3. PICK scanned \in SUBSET Markets :
         \E filled \in SUBSET {p \in Proposals(m, scanned) : p.order.signal = "BUY"} :
            bought' = bought \cup filled
  BY <1>1 DEF Cycle
<1>4. PICK filled \in SUBSET Proposals(m, scanned) : bought' = bought \cup filled
  BY <1>3
<1>5. /\ m = files[Day(now) - 1] /\ m \in Manifests /\ Filed(m, Day(now) - 1)
      /\ m.target = Day(now) /\ m.strategy # "WAIT" /\ m.at <= now
  BY <1>1, <1>2, LatestIsYesterdays
<1>6. \A o \in filled : o.id = m.id /\ o.strategy = m.strategy /\ o.made = m.at /\ o.target = m.target
  BY <1>4 DEF Proposals
<1>7. ASSUME NEW o \in ByBot' PROVE o \in ByBot \/ (o \in filled /\ m.id # Manual)
  BY <1>4, <1>6, <1>7 DEF ByBot
<1>8. ASSUME NEW o \in ByBot, o.id \notin late, m.id \notin late, m.id # Manual PROVE o.id = m.id
  BY <1>5, <1>8 DEF AllocationInv, OrdersInv
<1>9. Slot(now) # Early /\ Day(now) \in Int
  BY <1>2, AllocationAssumption DEF Trading, Early, AllocationInv, ClockInv
<1>10. m.at \in Int /\ m.at < Opening(m.target)
  BY <1>5, <1>9 DEF Filed
<1>11. OrdersInv'
  <2>1. ASSUME NEW o \in ByBot'
        PROVE  /\ o.id \in 1..runs /\ made[o.id] \in Evaluations
               /\ made[o.id].robust /\ made[o.id].strategy = o.strategy
               /\ o.target = Day(now) /\ o.made \in Int /\ o.made <= now
               /\ o.made < Opening(o.target)
    <3>1. CASE o \in ByBot
      BY <3>1 DEF AllocationInv, OrdersInv
    <3>2. CASE o \in filled /\ m.id # Manual
      BY <1>5, <1>6, <1>10, <3>2 DEF Filed, Warranted
    <3> QED
      BY <1>7, <2>1, <3>1, <3>2
  <2>2. ASSUME NEW o \in ByBot', o.id \notin late, NEW p \in ByBot', p.id \notin late
        PROVE  p.id = o.id
    <3>1. o \in ByBot /\ p \in ByBot => p.id = o.id
      BY <2>2 DEF AllocationInv, OrdersInv
    <3> QED
      BY <1>6, <1>7, <1>8, <2>2, <3>1
  <2>3. ASSUME NEW o \in ByBot', o.id \notin late, files[Day(now) - 1] \in Manifests
        PROVE  files[Day(now) - 1].id \in {o.id, Manual} \cup late
    BY <1>5, <1>6, <1>7, <1>8, <2>3
  <2> QED
    BY <1>2, <1>9, <2>1, <2>2, <2>3 DEF OrdersInv, ByBot, Day, Slot, Opening
<1>12. \A y, c : Filed(y, c) => Filed(y, c)'
  BY <1>2, FiledIsKept
<1>13. ClockInv' /\ FilesInv'
  BY <1>2, <1>12, FilesStay DEF AllocationInv, ClockInv, Day
<1>14. BotInv'
  BY <1>2 DEF AllocationInv, BotInv, CycleOk, Filed, Warranted, Days, Opening
<1> QED
  BY <1>11, <1>13, <1>14 DEF AllocationInv

LEMMA TickStep ==
    ASSUME AllocationInv, Tick
    PROVE  AllocationInv'
<1>1. /\ now' = now + 1 /\ Day(now + 1) <= LastDay
      /\ UNCHANGED <<bot, files, table, runs, processed, made, late>>
      /\ bought' = IF Day(now + 1) = Day(now) THEN bought ELSE {}
  BY DEF Tick
<1>2. now \in Nat /\ Day(now) \in FirstDay..LastDay
  BY DEF AllocationInv, ClockInv
<1>3. Day(now)' = Day(now + 1) /\ Slot(now)' = Slot(now + 1)
  BY <1>1 DEF Day, Slot
<1>4. Day(now + 1) \in FirstDay..LastDay
  <2>1. Day(now) <= Day(now + 1) /\ Day(now + 1) \in Int
    BY <1>2 DEF Day, SlotsPerDay
  <2> QED
    BY <1>1, <1>2, <2>1, AllocationAssumption
<1>5. ClockInv'
  BY <1>1, <1>2, <1>3, <1>4 DEF AllocationInv, ClockInv
<1>6. FilesInv'
  BY <1>1, FiledIsKept, FilesStay DEF AllocationInv
<1>7. BotInv'
  BY <1>1 DEF AllocationInv, BotInv, CycleOk, Filed, Warranted, Days, Opening
<1>8. OrdersInv'
  <2>1. CASE Day(now + 1) = Day(now)
    <3>1. Slot(now + 1) # Early
      BY <1>2, <2>1, ClockFacts
    <3>2. ByBot' = ByBot
      BY <1>1, <2>1 DEF ByBot
    <3>3. \A o \in ByBot : o.made <= now + 1
      BY <1>2 DEF AllocationInv, OrdersInv
    <3> QED
      BY <1>1, <1>3, <2>1, <3>1, <3>2, <3>3 DEF AllocationInv, OrdersInv, Opening
  <2>2. CASE Day(now + 1) # Day(now)
    BY <1>1, <2>2 DEF OrdersInv, ByBot
  <2> QED
    BY <2>1, <2>2
<1> QED
  BY <1>5, <1>6, <1>7, <1>8 DEF AllocationInv

LEMMA AllocationInvStep == AllocationInv /\ [Next]_vars => AllocationInv'
<1> SUFFICES ASSUME AllocationInv, [Next]_vars PROVE AllocationInv'
  OBVIOUS
<1>1. CASE UNCHANGED vars
  <2>1. FilesInv'
    BY <1>1, FiledIsKept, FilesStay DEF AllocationInv, vars
  <2>2. ClockInv' /\ BotInv' /\ OrdersInv'
    BY <1>1 DEF vars, AllocationInv, ClockInv, BotInv, CycleOk, OrdersInv, ByBot, Day, Slot,
                Filed, Warranted, Days, Opening
  <2> QED
    BY <2>1, <2>2 DEF AllocationInv
<1> QED
  BY <1>1, AnalyzeStep, BacktestStep, DecideStep, OpenStep, WriteStep, PersistStep, DieStep,
     LeaveStep, CycleStep, TickStep DEF Next

\* What the bots, the operator and the daemon make of files, decisions and orders fits together.
THEOREM AllocationStaysConsistent == Spec => []AllocationInv
BY InitAllocation, AllocationInvStep, PTL DEF Spec

\* An order a bot caused was made under a strategy its evaluation found robust, for
\* today, by a decision it made before (never force a trade).
THEOREM BuysRestOnRobustStrategies == Spec => []BuysAreWarranted
<1>1. AllocationInv => BuysAreWarranted
  BY Markers DEF AllocationInv, OrdersInv, BuysAreWarranted
<1> QED
  BY <1>1, AllocationStaysConsistent, PTL

\* A session is traded under decisions made before it opened, and under no more than one of
\* those that were in their file by then, however long the stock selections of overlapping
\* runs take (decision_bot.py:328-396; a later run has a new id, which
\* is_decision_processed would not take for a replay).
THEOREM SessionsHaveOneDecisionByOpening == Spec => []OneDecisionByOpening
<1>1. AllocationInv => OneDecisionByOpening
  BY DEF AllocationInv, OrdersInv, OneDecisionByOpening
<1> QED
  BY <1>1, AllocationStaysConsistent, PTL

=============================================================================
