-------------------------- MODULE EvaluationSplits --------------------------
(***************************************************************************)
(* What a strategy is trained and tested on: the walk-forward windows of    *)
(* services/evaluation-engine/walk_forward.py over the bars 0..n-1, and the *)
(* three-way splits of partitioning.py over the days or the seconds 0..n    *)
(* of a date range.  Both are functions of their inputs.                    *)
(***************************************************************************)
EXTENDS Integers, Sequences

(* Walk-forward windows.                                                   *)

\* WalkForwardConfig: what __post_init__ lets through.  The minimum itself is
\* not checked by the code; every caller gives a natural number.
WalkForwardConfig ==
    {c \in [mode : {"EXPANDING", "ROLLING"}, initial_train_size : Nat, test_size : Nat,
            step_size : Nat, min_train_size : Nat] :
        /\ c.step_size > 0 /\ c.test_size > 0
        /\ c.initial_train_size >= c.min_train_size}

TrainStart(c, k) == IF c.mode = "ROLLING" THEN k * c.step_size ELSE 0
TrainEnd(c, k)   == c.initial_train_size + k * c.step_size
TestEnd(c, k)    == TrainEnd(c, k) + c.test_size

Train(c, k) == TrainStart(c, k) .. TrainEnd(c, k) - 1
Test(c, k)  == TrainEnd(c, k) .. TestEnd(c, k) - 1

\* generate_windows refuses a data set that is too short.
Sufficient(c, n) == n >= c.initial_train_size + c.test_size

\* Its loop: the steps before the first one whose test leaves the data.
Steps(c, n) == {k \in Nat : \A j \in 0..k : TestEnd(c, j) <= n}

\* validate_no_leakage: the indices a window lets through.
Permitted(c, k, i) == i < TestEnd(c, k)

-----------------------------------------------------------------------------
(* Partitions of a date range.                                             *)

\* A partition is a range of instants, both ends included.
Partition(type, first, last) == [type |-> type, first |-> first, last |-> last]

TypeOrder == [TRAIN |-> 1, VALIDATION |-> 2, WALK_FORWARD |-> 2, TEST |-> 3]

\* validate_partition_chronology, and the bounds check of TemporalPartition.
Chronological(parts) ==
    /\ \A i \in DOMAIN parts : parts[i].first < parts[i].last
    /\ \A i, j \in DOMAIN parts :
          i < j => /\ TypeOrder[parts[j].type] >= TypeOrder[parts[i].type]
                   /\ parts[j].first >= parts[i].first
                   /\ parts[j].first > parts[i].last

\* create_disjoint_partitions: the first two end where they are told, and the
\* next begins one day or one second later.
Split(n, trainLast, valLast) ==
    << Partition("TRAIN", 0, trainLast),
       Partition("VALIDATION", trainLast + 1, valLast),
       Partition("TEST", valLast + 1, n) >>

\* Shares in percent; they make up the whole.
Shares == {p \in [train : 0..100, val : 0..100, test : 0..100] : p.train + p.val + p.test = 100}

DefaultShares == [train |-> 60, val |-> 20, test |-> 20]

AtLeastOne(n) == IF n < 1 THEN 1 ELSE n

\* Dates alone: whole days, at least one for each of the first two.
TrainDays(n, p) == AtLeastOne((n * p.train) \div 100)
ValDays(n, p)   == AtLeastOne((n * p.val) \div 100)
DaySplit(n, p)  == Split(n, TrainDays(n, p) - 1, TrainDays(n, p) + ValDays(n, p) - 1)

\* Timestamps: the ends are cut down to the second when they are written.
SecondSplit(n, p) == Split(n, (n * p.train) \div 100, (n * (p.train + p.val)) \div 100 + 1)

DaysAccepted(n, p)    == n >= 5 /\ Chronological(DaySplit(n, p))
SecondsAccepted(n, p) == n > 0 /\ Chronological(SecondSplit(n, p))

Instants(part) == part.first .. part.last

=============================================================================
