--------------------------- MODULE BacktestProofs ---------------------------
(***************************************************************************)
(* Theorems about the replay of a series, the simulation of a backtest job  *)
(* and the rebalancing of a portfolio, for every series of bars, calendar,  *)
(* set of symbols, configuration and number of steps: what is eligible is   *)
(* replayed whole, what a strategy is shown is the past, the accounts add   *)
(* up, a stop is honoured, nothing is sold at a price nobody traded at, and *)
(* neither cash nor a position of a rebalanced portfolio falls below zero.  *)
(*                                                                          *)
(* The three specifications have no name in common, so that the lemmas      *)
(* about sums and about places in an order are proved once for them.        *)
(***************************************************************************)
EXTENDS HistoricalReplay, BacktestSimulation, PortfolioRebalance, FiniteSetTheorems,
        FunctionTheorems, SequenceTheorems, WellFoundedInduction, TLAPS

\* A set of natural numbers with a member has a least one.
LEMMA LeastNumber ==
    ASSUME NEW B \in SUBSET Nat, B # {}
    PROVE  \E m \in B : \A k \in B : m <= k
<1> PICK R : R = {ss \in Nat \X Nat : ss[1] < ss[2]}
  OBVIOUS
<1>1. IsWellFoundedOn(R, Nat)
  BY NatLessThanWellFounded DEF OpToRel
<1>2. PICK m \in B : \A k \in B : ~ (<<k, m>> \in R)
  BY <1>1, WFMin
<1>3. ASSUME NEW k \in B PROVE m <= k
  <2>1. k \in Nat /\ m \in Nat /\ ~ (k < m)
    BY <1>2
  <2> QED
    BY <2>1
<1> QED
  BY <1>3

-----------------------------------------------------------------------------
(***************************************************************************)
(* Sums over subsets of a finite set.                                       *)
(***************************************************************************)

Pick(s) == CHOOSE x \in s : TRUE

\* g adds up w over the subsets of S.
Adds(g, w, S) ==
    g = [s \in SUBSET S |-> IF s = {} THEN 0 ELSE w[Pick(s)] + g[s \ {Pick(s)}]]

\* What holds of a set when it holds of its strict subsets, holds of every subset.
LEMMA SubsetInduction ==
    ASSUME NEW S, IsFiniteSet(S), NEW G \in SUBSET SUBSET S,
           \A T \in SUBSET S : (\A U \in SUBSET T : U # T => U \in G) => T \in G
    PROVE  \A T \in SUBSET S : T \in G
<1> SUFFICES ASSUME (SUBSET S) \ G # {} PROVE FALSE
  OBVIOUS
<1> PICK B : B = (SUBSET S) \ G
  OBVIOUS
<1> PICK R : R = StrictSubsetOrdering(S)
  OBVIOUS
<1>1. IsWellFoundedOn(R, SUBSET S)
  <2>1. FiniteSubsetsOf(S) = SUBSET S
    BY FS_FiniteSubsetsOfFinite
  <2>2. IsWellFoundedOn(StrictSubsetOrdering(S), FiniteSubsetsOf(S))
    BY FS_StrictSubsetOrderingWellFounded
  <2> QED
    BY <2>1, <2>2
<1>2. \E T \in B : \A U \in B : ~ (<<U, T>> \in R)
  <2>1. B \subseteq SUBSET S /\ B # {}
    OBVIOUS
  <2> QED
    BY <1>1, <2>1, WFMin
<1>3. PICK T \in B : \A U \in B : ~ (<<U, T>> \in R)
  BY <1>2
<1>4. \A U \in SUBSET T : U # T => U \in G
  BY <1>3 DEF StrictSubsetOrdering
<1> QED
  BY <1>3, <1>4

\* A set of numbers with zero in it and the successor of each of its members.
LEMMA CountingUp ==
    ASSUME NEW G \in SUBSET Nat, 0 \in G, \A n \in G : n + 1 \in G
    PROVE  G = Nat
<1> SUFFICES ASSUME Nat \ G # {} PROVE FALSE
  OBVIOUS
<1> PICK B : B = Nat \ G
  OBVIOUS
<1> PICK R : R = {ss \in Nat \X Nat : ss[1] < ss[2]}
  OBVIOUS
<1>1. IsWellFoundedOn(R, Nat)
  BY NatLessThanWellFounded DEF OpToRel
<1>2. \E m \in B : \A k \in B : ~ (<<k, m>> \in R)
  <2>1. B \subseteq Nat /\ B # {}
    OBVIOUS
  <2> QED
    BY <1>1, <2>1, WFMin
<1>3. PICK m \in B : \A k \in B : ~ (<<k, m>> \in R)
  BY <1>2
<1>4. m # 0 /\ m - 1 \in Nat /\ m - 1 < m
  OBVIOUS
<1>5. m - 1 \in G
  BY <1>3, <1>4
<1> QED
  BY <1>4, <1>5

\* What is taken away in either order is the same.
LEMMA TakenTwice ==
    ASSUME NEW a \in Int, NEW c \in Int, NEW x \in Int, NEW p, NEW q, NEW r \in Int,
           a = c + p, p = x + r, q = c + r
    PROVE  a = x + q
OBVIOUS

\* The sum is defined, for subsets of any size.
LEMMA AddsExists ==
    ASSUME NEW S, IsFiniteSet(S), NEW w \in [S -> Int]
    PROVE  \E g : Adds(g, w, S)
<1> DEFINE Small(n) == {s \in SUBSET S : Cardinality(s) <= n}
           Table(g, n) == [s \in Small(n) |-> IF s = {} THEN 0 ELSE w[Pick(s)] + g[s \ {Pick(s)}]]
           Good == {n \in Nat : \E g : g = Table(g, n)}
<1>1. \A s \in SUBSET S : IsFiniteSet(s) /\ Cardinality(s) \in Nat
  BY FS_Subset, FS_CardinalityType
<1>2. \A s \in SUBSET S : s # {} =>
         s \ {Pick(s)} \in SUBSET S /\ Cardinality(s \ {Pick(s)}) = Cardinality(s) - 1
  BY <1>1, FS_RemoveElement DEF Pick
<1>3. 0 \in Good
  <2>1. \A s \in Small(0) : s = {}
    BY <1>1, FS_EmptySet
  <2>2. [s \in Small(0) |-> 0] = Table([s \in Small(0) |-> 0], 0)
    BY <2>1
  <2> QED
    BY <2>2
<1>4. ASSUME NEW n \in Good PROVE n + 1 \in Good
  <2>1. PICK g : g = Table(g, n)
    BY <1>4
  <2> DEFINE h == Table(g, n + 1)
  <2>2. ASSUME NEW s \in Small(n + 1), s # {} PROVE h[s \ {Pick(s)}] = g[s \ {Pick(s)}]
    <3> DEFINE r == s \ {Pick(s)}
    <3>1. r \in Small(n) /\ r \in Small(n + 1)
      BY <1>1, <1>2, <2>2
    <3> QED
      BY <2>1, <3>1
  <2>3. h = Table(h, n + 1)
    BY <2>2
  <2>4. \E k : k = Table(k, n + 1)
    <3> HIDE DEF h, Table
    <3> QED
      BY <2>3
  <2> HIDE DEF h, Table
  <2> QED
    BY <1>4, <2>4
<1>5. Good = Nat
  <2> HIDE DEF Good
  <2>1. Good \in SUBSET Nat
    BY DEF Good
  <2> QED
    BY <1>3, <1>4, <2>1, CountingUp
<1>6. PICK g : g = Table(g, Cardinality(S))
  BY <1>1, <1>5
<1>7. Small(Cardinality(S)) = SUBSET S
  BY FS_Subset
<1> QED
  BY <1>6, <1>7 DEF Adds

\* Sums of integers are integers.
LEMMA AddsType ==
    ASSUME NEW S, IsFiniteSet(S), NEW w \in [S -> Int], NEW g, Adds(g, w, S)
    PROVE  \A T \in SUBSET S : g[T] \in Int
<1> DEFINE G == {T \in SUBSET S : g[T] \in Int}
<1>1. ASSUME NEW T \in SUBSET S, \A U \in SUBSET T : U # T => U \in G PROVE T \in G
  <2>1. CASE T = {}
    BY <2>1 DEF Adds
  <2>2. CASE T # {}
    <3>1. Pick(T) \in T /\ T \ {Pick(T)} \in SUBSET T /\ T \ {Pick(T)} # T
      BY <2>2 DEF Pick
    <3>2. g[T \ {Pick(T)}] \in Int
      BY <1>1, <3>1
    <3>3. g[T] = w[Pick(T)] + g[T \ {Pick(T)}]
      BY <2>2 DEF Adds
    <3> QED
      BY <3>1, <3>2, <3>3
  <2> QED
    BY <2>1, <2>2
<1>2. \A T \in SUBSET S : T \in G
  <2> HIDE DEF G
  <2>1. G \in SUBSET SUBSET S
    BY DEF G
  <2> QED
    BY <1>1, <2>1, SubsetInduction
<1> QED
  BY <1>2

\* Any summand may be the one that is added last.
LEMMA AddsAny ==
    ASSUME NEW S, IsFiniteSet(S), NEW w \in [S -> Int], NEW g, Adds(g, w, S)
    PROVE  \A T \in SUBSET S : \A x \in T : g[T] = w[x] + g[T \ {x}]
<1> DEFINE G == {T \in SUBSET S : \A x \in T : g[T] = w[x] + g[T \ {x}]}
<1>1. ASSUME NEW T \in SUBSET S, \A U \in SUBSET T : U # T => U \in G PROVE T \in G
  <2> SUFFICES ASSUME NEW x \in T PROVE g[T] = w[x] + g[T \ {x}]
    OBVIOUS
  <2> DEFINE c == Pick(T)
  <2>1. c \in T
    BY DEF Pick
  <2>2. g[T] = w[c] + g[T \ {c}]
    BY DEF Adds
  <2>3. CASE c = x
    BY <2>2, <2>3
  <2>4. CASE c # x
    <3> HIDE DEF c
    <3>1. g[T \ {c}] = w[x] + g[(T \ {c}) \ {x}]
      <4>1. T \ {c} \in G
        BY <1>1, <2>1
      <4> QED
        BY <2>4, <4>1
    <3>2. g[T \ {x}] = w[c] + g[(T \ {x}) \ {c}]
      <4>1. T \ {x} \in G
        BY <1>1
      <4> QED
        BY <2>1, <2>4, <4>1
    <3>3. (T \ {c}) \ {x} = (T \ {x}) \ {c}
      OBVIOUS
    <3>4. g[T] \in Int /\ w[x] \in Int /\ w[c] \in Int /\ g[(T \ {x}) \ {c}] \in Int
      BY <2>1, AddsType
    <3> HIDE DEF G
    <3> QED
      BY <2>2, <3>1, <3>2, <3>3, <3>4, TakenTwice
  <2> QED
    BY <2>3, <2>4
<1>2. \A T \in SUBSET S : T \in G
  <2> HIDE DEF G
  <2>1. G \in SUBSET SUBSET S
    BY DEF G
  <2> QED
    BY <1>1, <2>1, SubsetInduction
<1> QED
  BY <1>2

\* Equal summands have equal sums.
LEMMA AddsSame ==
    ASSUME NEW S, IsFiniteSet(S), NEW v \in [S -> Int], NEW w \in [S -> Int],
           NEW g, Adds(g, v, S), NEW h, Adds(h, w, S),
           NEW R \in SUBSET S, \A x \in R : v[x] = w[x]
    PROVE  g[R] = h[R]
<1> DEFINE G == {T \in SUBSET S : T \subseteq R => g[T] = h[T]}
<1>1. ASSUME NEW T \in SUBSET S, \A U \in SUBSET T : U # T => U \in G PROVE T \in G
  <2> SUFFICES ASSUME T \subseteq R PROVE g[T] = h[T]
    OBVIOUS
  <2>1. CASE T = {}
    BY <2>1 DEF Adds
  <2>2. CASE T # {}
    <3>1. Pick(T) \in T /\ T \ {Pick(T)} \in SUBSET T /\ T \ {Pick(T)} # T
      BY <2>2 DEF Pick
    <3>2. g[T \ {Pick(T)}] = h[T \ {Pick(T)}]
      BY <1>1, <3>1
    <3>3. g[T] = v[Pick(T)] + g[T \ {Pick(T)}] /\ h[T] = w[Pick(T)] + h[T \ {Pick(T)}]
      BY <2>2 DEF Adds
    <3> QED
      BY <3>1, <3>2, <3>3
  <2> QED
    BY <2>1, <2>2
<1>2. \A T \in SUBSET S : T \in G
  <2> HIDE DEF G
  <2>1. G \in SUBSET SUBSET S
    BY DEF G
  <2> QED
    BY <1>1, <2>1, SubsetInduction
<1> QED
  BY <1>2

-----------------------------------------------------------------------------
(***************************************************************************)
(* Orders of finite sets.                                                   *)
(***************************************************************************)

\* R is a strict total order on S.
StrictOrder(R, S) ==
    /\ \A i \in S : <<i, i>> \notin R
    /\ \A i, j, k \in S : <<i, j>> \in R /\ <<j, k>> \in R => <<i, k>> \in R
    /\ \A i, j \in S : i # j => <<i, j>> \in R \/ <<j, i>> \in R

\* One more than the members of S that R puts before j.
PlaceIn(R, S, j) == Cardinality({i \in S : <<i, j>> \in R}) + 1

\* What is before another member has the lower place.
LEMMA LowerPlace ==
    ASSUME NEW S, IsFiniteSet(S), NEW R, StrictOrder(R, S),
           NEW i \in S, NEW j \in S, <<i, j>> \in R
    PROVE  /\ PlaceIn(R, S, i) \in Nat /\ PlaceIn(R, S, j) \in Nat
           /\ PlaceIn(R, S, i) < PlaceIn(R, S, j)
<1> DEFINE P == {k \in S : <<k, i>> \in R}
           Q == {k \in S : <<k, j>> \in R}
<1>1. IsFiniteSet(P) /\ IsFiniteSet(Q) /\ Cardinality(P) \in Nat /\ Cardinality(Q) \in Nat
  BY FS_Subset, FS_CardinalityType
<1>2. i \notin P /\ P \cup {i} \in SUBSET Q
  BY DEF StrictOrder
<1>3. Cardinality(P \cup {i}) = Cardinality(P) + 1
  BY <1>1, <1>2, FS_AddElement
<1>4. Cardinality(P \cup {i}) <= Cardinality(Q)
  BY <1>1, <1>2, FS_Subset
<1> QED
  BY <1>1, <1>3, <1>4 DEF PlaceIn

\* Every place up to the size of the set is that of exactly one member.
LEMMA PlacesFilled ==
    ASSUME NEW S, IsFiniteSet(S), NEW R, StrictOrder(R, S)
    PROVE  /\ \A i \in S : PlaceIn(R, S, i) \in 1 .. Cardinality(S)
           /\ \A i, j \in S : PlaceIn(R, S, i) = PlaceIn(R, S, j) => i = j
           /\ \A n \in 1 .. Cardinality(S) : \E i \in S : PlaceIn(R, S, i) = n
<1> DEFINE N == Cardinality(S)
           place == [i \in S |-> PlaceIn(R, S, i)]
<1>0. N \in Nat /\ IsFiniteSet(1 .. N) /\ Cardinality(1 .. N) = N
  BY FS_CardinalityType, FS_Interval
<1>1. ASSUME NEW i \in S PROVE PlaceIn(R, S, i) \in 1 .. N
  <2> DEFINE P == {k \in S : <<k, i>> \in R}
  <2>1. P \in SUBSET (S \ {i})
    BY DEF StrictOrder
  <2>2. IsFiniteSet(S \ {i}) /\ Cardinality(S \ {i}) = N - 1
    BY FS_RemoveElement
  <2>3. IsFiniteSet(P) /\ Cardinality(P) <= N - 1
    <3> HIDE DEF P
    <3>1. IsFiniteSet(P) /\ Cardinality(P) <= Cardinality(S \ {i})
      BY <2>1, <2>2, FS_Subset
    <3> QED
      BY <2>2, <3>1
  <2>4. Cardinality(P) \in Nat
    BY <2>3, FS_CardinalityType
  <2> QED
    BY <1>0, <2>3, <2>4 DEF PlaceIn
<1>2. ASSUME NEW i \in S, NEW j \in S, PlaceIn(R, S, i) = PlaceIn(R, S, j) PROVE i = j
  <2> SUFFICES ASSUME i # j PROVE FALSE
    OBVIOUS
  <2>1. <<i, j>> \in R \/ <<j, i>> \in R
    BY DEF StrictOrder
  <2> QED
    BY <1>2, <2>1, LowerPlace
<1>3. place \in Injection(S, 1 .. N)
  BY <1>1, <1>2, Fun_IsInj
<1>4. place \in Surjection(S, 1 .. N)
  <2> HIDE DEF place
  <2> QED
    BY <1>0, <1>3, FS_Injection
<1>5. \A n \in 1 .. N : \E i \in S : place[i] = n
  <2> HIDE DEF place
  <2> QED
    BY <1>4, Fun_SurjectionProperties
<1> QED
  BY <1>1, <1>2, <1>5

\* So the members of the set can be told one by one in its order.
LEMMA Enumerated ==
    ASSUME NEW S, IsFiniteSet(S), NEW R, StrictOrder(R, S)
    PROVE  \E q \in [1 .. Cardinality(S) -> S] :
              /\ \A n \in 1 .. Cardinality(S) : \A i \in S : PlaceIn(R, S, i) = n <=> i = q[n]
              /\ \A i \in S : PlaceIn(R, S, i) \in 1 .. Cardinality(S)
              /\ \A m, n \in 1 .. Cardinality(S) : m < n => <<q[m], q[n]>> \in R
<1> DEFINE N == Cardinality(S)
           q == [n \in 1 .. N |-> CHOOSE i \in S : PlaceIn(R, S, i) = n]
<1>1. ASSUME NEW n \in 1 .. N PROVE q[n] \in S /\ PlaceIn(R, S, q[n]) = n
  BY PlacesFilled
<1>2. q \in [1 .. N -> S]
  BY <1>1
<1> HIDE DEF q
<1>3. ASSUME NEW n \in 1 .. N, NEW i \in S PROVE PlaceIn(R, S, i) = n <=> i = q[n]
  <2>1. q[n] \in S /\ PlaceIn(R, S, q[n]) = n
    BY <1>1
  <2> QED
    BY <2>1, PlacesFilled
<1>4. ASSUME NEW m \in 1 .. N, NEW n \in 1 .. N, m < n PROVE <<q[m], q[n]>> \in R
  <2> SUFFICES ASSUME <<q[m], q[n]>> \notin R PROVE FALSE
    OBVIOUS
  <2>1. /\ q[m] \in S /\ PlaceIn(R, S, q[m]) = m
        /\ q[n] \in S /\ PlaceIn(R, S, q[n]) = n
    BY <1>1
  <2>2. m \in Nat /\ n \in Nat
    BY FS_CardinalityType
  <2>3. q[m] # q[n]
    BY <1>4, <2>1, <2>2
  <2>4. <<q[n], q[m]>> \in R
    BY <2>1, <2>3 DEF StrictOrder
  <2>5. n < m
    BY <2>1, <2>4, LowerPlace
  <2> QED
    BY <1>4, <2>2, <2>5
<1>5. \A i \in S : PlaceIn(R, S, i) \in 1 .. N
  BY PlacesFilled
<1> QED
  BY <1>2, <1>3, <1>4, <1>5

-----------------------------------------------------------------------------
(***************************************************************************)
(* The events of a series.                                                  *)
(***************************************************************************)

\* The bars of all series.
Bars == UNION {Range(series) : series \in Datasets}

\* The order of the events: sorted() by (timestamp, symbol).
ComesBefore(series, i, j) ==
    LET a == series[i]
        b == series[j]
    IN  \/ a.time < b.time
        \/ a.time = b.time /\ Rank[a.symbol] < Rank[b.symbol]
        \/ a.time = b.time /\ a.symbol = b.symbol /\ i < j

LEMMA SeriesType ==
    ASSUME NEW series \in Datasets
    PROVE  /\ DOMAIN series = 1 .. Len(series) /\ Len(series) \in Nat
           /\ \A i \in 1 .. Len(series) :
                /\ series[i] \in Bars
                /\ series[i].symbol \in Symbols /\ series[i].time \in Nat
                /\ series[i].bad \subseteq NumberFlaws
<1>1. series \in Seq(Range(series))
  BY ReplayAssumption
<1>2. DOMAIN series = 1 .. Len(series) /\ Len(series) \in Nat
  BY <1>1
<1>3. \A i \in DOMAIN series : series[i] \in Bars
  BY DEF Bars, Range
<1> QED
  BY <1>2, <1>3, ReplayAssumption

LEMMA BarType ==
    \A b \in Bars : b.symbol \in Symbols /\ b.time \in Nat /\ b.close \in Nat /\ b.high \in Nat
<1> SUFFICES ASSUME NEW b \in Bars
             PROVE  b.symbol \in Symbols /\ b.time \in Nat /\ b.close \in Nat /\ b.high \in Nat
  OBVIOUS
<1>1. PICK series \in Datasets : b \in Range(series)
  BY DEF Bars
<1>2. PICK i \in DOMAIN series : b = series[i]
  BY <1>1 DEF Range
<1> QED
  BY <1>2, ReplayAssumption

\* Sorting a series gives every bar one place, by time and in the order of symbols.
LEMMA SortedPlaces ==
    ASSUME NEW series \in Datasets
    PROVE  \E q \in [1 .. Len(series) -> 1 .. Len(series)] :
              /\ Sorted(series) = [n \in 1 .. Len(series) |-> series[q[n]]]
              /\ \A i \in 1 .. Len(series) : \E n \in 1 .. Len(series) : q[n] = i
              /\ \A m, n \in 1 .. Len(series) : m < n => ComesBefore(series, q[m], q[n])
<1> DEFINE N == Len(series)
           D == 1 .. N
           R == {ij \in D \X D : ComesBefore(series, ij[1], ij[2])}
<1>1. /\ DOMAIN series = D /\ N \in Nat
      /\ \A i \in D : series[i].symbol \in Symbols /\ series[i].time \in Nat
  BY SeriesType
<1>2. IsFiniteSet(D) /\ Cardinality(D) = N
  BY <1>1, FS_Interval
<1>3. StrictOrder(R, D)
  <2>1. \A i, j \in D : <<i, j>> \in R <=> ComesBefore(series, i, j)
    OBVIOUS
  <2>2. \A s \in Symbols : Rank[s] \in Nat
    BY ReplayAssumption
  <2>3. ASSUME NEW i \in D PROVE ~ ComesBefore(series, i, i)
    BY <1>1, <2>2 DEF ComesBefore
  <2>4. ASSUME NEW i \in D, NEW j \in D, NEW k \in D,
               ComesBefore(series, i, j), ComesBefore(series, j, k)
        PROVE  ComesBefore(series, i, k)
    BY <1>1, <2>2, <2>4 DEF ComesBefore
  <2>5. ASSUME NEW i \in D, NEW j \in D, i # j
        PROVE  ComesBefore(series, i, j) \/ ComesBefore(series, j, i)
    <3>1. series[i].symbol # series[j].symbol => Rank[series[i].symbol] # Rank[series[j].symbol]
      BY <1>1, ReplayAssumption
    <3> QED
      BY <1>1, <2>2, <2>5, <3>1 DEF ComesBefore
  <2> HIDE DEF R, D
  <2> QED
    BY <2>1, <2>3, <2>4, <2>5 DEF StrictOrder
<1>4. PICK q \in [D -> D] :
              /\ \A n \in D : \A i \in D : PlaceIn(R, D, i) = n <=> i = q[n]
              /\ \A i \in D : PlaceIn(R, D, i) \in D
              /\ \A m, n \in D : m < n => <<q[m], q[n]>> \in R
  <2> HIDE DEF R
  <2>1. \E q \in [1 .. Cardinality(D) -> D] :
              /\ \A n \in 1 .. Cardinality(D) : \A i \in D : PlaceIn(R, D, i) = n <=> i = q[n]
              /\ \A i \in D : PlaceIn(R, D, i) \in 1 .. Cardinality(D)
              /\ \A m, n \in 1 .. Cardinality(D) : m < n => <<q[m], q[n]>> \in R
    <3> HIDE DEF D
    <3> QED
      BY <1>2, <1>3, Enumerated
  <2> QED
    BY <1>2, <2>1, Zenon
<1>5. \A j \in D : PlaceIn(R, D, j) = Cardinality({i \in D : ComesBefore(series, i, j)}) + 1
  <2> SUFFICES ASSUME NEW j \in D
               PROVE  {i \in D : <<i, j>> \in R} = {i \in D : ComesBefore(series, i, j)}
    BY DEF PlaceIn
  <2> QED
    OBVIOUS
<1>6. Sorted(series) = [n \in D |-> series[CHOOSE j \in D :
                            Cardinality({i \in D : ComesBefore(series, i, j)}) + 1 = n]]
  <2> HIDE DEF D
  <2> QED
    BY <1>1 DEF Sorted, ComesBefore
<1>7. ASSUME NEW n \in D
      PROVE  (CHOOSE j \in D : Cardinality({i \in D : ComesBefore(series, i, j)}) + 1 = n) = q[n]
  <2> HIDE DEF D, R
  <2>1. \A j \in D : Cardinality({i \in D : ComesBefore(series, i, j)}) + 1 = n <=> j = q[n]
    BY <1>4, <1>5
  <2>2. q[n] \in D
    OBVIOUS
  <2> QED
    BY <2>1, <2>2
<1>8. Sorted(series) = [n \in D |-> series[q[n]]]
  <2> HIDE DEF D, R
  <2> QED
    BY <1>6, <1>7, Zenon
<1>9. \A i \in D : \E n \in D : q[n] = i
  <2> HIDE DEF R, D
  <2> QED
    BY <1>4
<1>10. \A m, n \in D : m < n => ComesBefore(series, q[m], q[n])
  BY <1>4
<1> HIDE DEF R
<1> QED
  BY <1>8, <1>9, <1>10, Zenon

\* The events are places of the sorted series, each in scope and in its order.
LEMMA EventsPlaces ==
    ASSUME NEW series \in Datasets, NEW config
    PROVE  LET kept == {j \in 1 .. Len(series) : InScope(config, Sorted(series)[j])}
           IN  /\ IsFiniteSet(kept) /\ Cardinality(kept) \in Nat
               /\ \E f \in [1 .. Cardinality(kept) -> kept] :
                     /\ Events(series, config) =
                          [n \in 1 .. Cardinality(kept) |-> Sorted(series)[f[n]]]
                     /\ \A j \in kept : \E n \in 1 .. Cardinality(kept) : f[n] = j
                     /\ \A m, n \in 1 .. Cardinality(kept) : m < n => f[m] < f[n]
<1> DEFINE D == 1 .. Len(series)
           sorted == Sorted(series)
           kept == {j \in D : InScope(config, sorted[j])}
           K == Cardinality(kept)
           R == {ij \in kept \X kept : ij[1] < ij[2]}
<1>1. DOMAIN sorted = D /\ Len(series) \in Nat
  <2>1. PICK q \in [D -> D] : sorted = [n \in D |-> series[q[n]]]
    BY SortedPlaces
  <2>2. Len(series) \in Nat
    BY SeriesType
  <2> HIDE DEF D, sorted
  <2> QED
    BY <2>1, <2>2
<1>2. IsFiniteSet(kept) /\ K \in Nat
  <2>1. IsFiniteSet(D)
    BY <1>1, FS_Interval
  <2> HIDE DEF D, sorted
  <2>2. kept \in SUBSET D
    OBVIOUS
  <2> HIDE DEF kept
  <2> QED
    BY <2>1, <2>2, FS_Subset, FS_CardinalityType
<1>3. kept \subseteq Nat
  <2> HIDE DEF sorted
  <2> QED
    BY <1>1
<1>4. StrictOrder(R, kept)
  <2>1. \A i, j \in kept : <<i, j>> \in R <=> i < j
    OBVIOUS
  <2> HIDE DEF R, kept
  <2> QED
    BY <1>3, <2>1 DEF StrictOrder
<1>5. PICK f \in [1 .. K -> kept] :
              /\ \A n \in 1 .. K : \A i \in kept : PlaceIn(R, kept, i) = n <=> i = f[n]
              /\ \A i \in kept : PlaceIn(R, kept, i) \in 1 .. K
              /\ \A m, n \in 1 .. K : m < n => <<f[m], f[n]>> \in R
  <2> HIDE DEF R, kept
  <2> QED
    BY <1>2, <1>4, Enumerated
<1>6. \A j \in kept : PlaceIn(R, kept, j) = Cardinality({i \in kept : i < j}) + 1
  <2> SUFFICES ASSUME NEW j \in kept
               PROVE  {i \in kept : <<i, j>> \in R} = {i \in kept : i < j}
    BY DEF PlaceIn
  <2> HIDE DEF kept
  <2> QED
    OBVIOUS
<1>7. Events(series, config) = [n \in 1 .. K |-> sorted[CHOOSE j \in kept :
                                  Cardinality({i \in kept : i < j}) + 1 = n]]
  <2>1. kept = {j \in DOMAIN sorted : InScope(config, sorted[j])}
    BY <1>1
  <2> HIDE DEF kept
  <2> QED
    BY <2>1 DEF Events
<1>8. ASSUME NEW n \in 1 .. K
      PROVE  (CHOOSE j \in kept : Cardinality({i \in kept : i < j}) + 1 = n) = f[n]
  <2> HIDE DEF kept, R
  <2>1. \A j \in kept : Cardinality({i \in kept : i < j}) + 1 = n <=> j = f[n]
    BY <1>5, <1>6
  <2>2. f[n] \in kept
    OBVIOUS
  <2> QED
    BY <2>1, <2>2
<1>9. Events(series, config) = [n \in 1 .. K |-> sorted[f[n]]]
  <2> HIDE DEF kept, R, sorted, K
  <2> QED
    BY <1>7, <1>8, Zenon
<1>10. \A j \in kept : \E n \in 1 .. K : f[n] = j
  <2> HIDE DEF kept, R
  <2> QED
    BY <1>5
<1>11. \A m, n \in 1 .. K : m < n => f[m] < f[n]
  <2> HIDE DEF kept
  <2> QED
    BY <1>5
<1> HIDE DEF R, sorted
<1> QED
  BY <1>2, <1>9, <1>10, <1>11, Zenon DEF sorted

\* The events of a series are its bars in scope, one event for each, in order of time.
EventsOf(events, series, config) ==
    /\ events \in Seq(Bars)
    /\ \A n \in 1 .. Len(events) : InScope(config, events[n])
    /\ \A m, n \in 1 .. Len(events) : m < n => events[m].time <= events[n].time
    /\ \A i \in 1 .. Len(series) : InScope(config, series[i]) =>
          \E n \in 1 .. Len(events) : events[n] = series[i]

LEMMA EventsAreOf ==
    ASSUME NEW series \in Datasets, NEW config
    PROVE  EventsOf(Events(series, config), series, config)
<1> DEFINE D == 1 .. Len(series)
           sorted == Sorted(series)
           kept == {j \in D : InScope(config, sorted[j])}
           K == Cardinality(kept)
           events == Events(series, config)
<1>1. PICK q \in [D -> D] :
              /\ sorted = [n \in D |-> series[q[n]]]
              /\ \A i \in D : \E n \in D : q[n] = i
              /\ \A m, n \in D : m < n => ComesBefore(series, q[m], q[n])
  BY SortedPlaces
<1>2. /\ K \in Nat
      /\ \E f \in [1 .. K -> kept] :
            /\ events = [n \in 1 .. K |-> sorted[f[n]]]
            /\ \A j \in kept : \E n \in 1 .. K : f[n] = j
            /\ \A m, n \in 1 .. K : m < n => f[m] < f[n]
  BY EventsPlaces
<1> HIDE DEF events, K
<1>3. PICK f \in [1 .. K -> kept] :
            /\ events = [n \in 1 .. K |-> sorted[f[n]]]
            /\ \A j \in kept : \E n \in 1 .. K : f[n] = j
            /\ \A m, n \in 1 .. K : m < n => f[m] < f[n]
  BY <1>2
<1> HIDE DEF sorted
<1>4. \A n \in 1 .. K : f[n] \in D /\ q[f[n]] \in D /\ events[n] = series[q[f[n]]]
  BY <1>1, <1>3
<1>5. \A i \in D : series[i] \in Bars /\ series[i].time \in Nat
  BY SeriesType
<1>6. events \in Seq(Bars) /\ Len(events) = K
  <2>1. \A n \in 1 .. K : events[n] \in Bars
    BY <1>4, <1>5
  <2>2. events = [n \in 1 .. K |-> events[n]]
    BY <1>3
  <2> HIDE DEF kept
  <2> QED
    BY <1>2, <2>1, <2>2
<1>7. \A n \in 1 .. K : InScope(config, events[n])
  BY <1>3
<1>8. ASSUME NEW m \in 1 .. K, NEW n \in 1 .. K, m < n
      PROVE  events[m].time <= events[n].time
  <2>1. f[m] < f[n] /\ f[m] \in D /\ f[n] \in D
    BY <1>3, <1>8
  <2>2. ComesBefore(series, q[f[m]], q[f[n]])
    BY <1>1, <2>1
  <2> QED
    BY <1>4, <1>5, <2>2 DEF ComesBefore
<1>9. ASSUME NEW i \in D, InScope(config, series[i]) PROVE \E n \in 1 .. K : events[n] = series[i]
  <2>1. PICK j \in D : q[j] = i
    BY <1>1
  <2>2. sorted[j] = series[i]
    BY <1>1, <2>1
  <2>3. j \in kept
    BY <1>9, <2>2
  <2>4. PICK n \in 1 .. K : f[n] = j
    BY <1>3, <2>3
  <2> QED
    BY <1>3, <2>2, <2>4
<1> QED
  BY <1>6, <1>7, <1>8, <1>9 DEF EventsOf, events

\* One event for each of them.
LEMMA EventsCounted ==
    ASSUME NEW series \in Datasets, NEW config
    PROVE  Len(Events(series, config)) =
             Cardinality({i \in 1 .. Len(series) : InScope(config, series[i])})
<1> DEFINE D == 1 .. Len(series)
           sorted == Sorted(series)
           kept == {j \in D : InScope(config, sorted[j])}
           K == Cardinality(kept)
           inScope == {i \in D : InScope(config, series[i])}
<1>1. PICK q \in [D -> D] :
              /\ sorted = [n \in D |-> series[q[n]]]
              /\ \A i \in D : \E n \in D : q[n] = i
              /\ \A m, n \in D : m < n => ComesBefore(series, q[m], q[n])
  BY SortedPlaces
<1>2. /\ IsFiniteSet(kept) /\ K \in Nat
      /\ Len(Events(series, config)) = K
  <2>1. /\ IsFiniteSet(kept) /\ K \in Nat
        /\ \E f \in [1 .. K -> kept] :
              /\ Events(series, config) = [n \in 1 .. K |-> sorted[f[n]]]
              /\ \A j \in kept : \E n \in 1 .. K : f[n] = j
              /\ \A m, n \in 1 .. K : m < n => f[m] < f[n]
    BY EventsPlaces
  <2> HIDE DEF sorted, kept, K
  <2> QED
    BY <2>1
<1>3. \A i, j \in D : q[i] = q[j] => i = j
  <2>1. \A i \in D : ~ ComesBefore(series, q[i], q[i])
    <3>1. \A i \in D : q[i] \in D
      OBVIOUS
    <3>2. \A i \in D : series[i].time \in Nat /\ series[i].symbol \in Symbols
      BY SeriesType
    <3>3. \A s \in Symbols : Rank[s] \in Nat
      BY ReplayAssumption
    <3>4. Len(series) \in Nat
      BY SeriesType
    <3> QED
      BY <3>1, <3>2, <3>3, <3>4 DEF ComesBefore
  <2>2. \A i, j \in D : i # j => i < j \/ j < i
    <3>1. Len(series) \in Nat
      BY SeriesType
    <3> QED
      BY <3>1
  <2> HIDE DEF D
  <2> QED
    BY <1>1, <2>1, <2>2
<1> DEFINE h == [j \in kept |-> q[j]]
<1>4. h \in Bijection(kept, inScope)
  <2>1. \A j \in kept : j \in D /\ q[j] \in inScope
    BY <1>1
  <2>2. h \in [kept -> inScope]
    BY <2>1
  <2>3. \A i, j \in kept : h[i] = h[j] => i = j
    BY <1>3, <2>1
  <2>4. \A i \in inScope : \E j \in kept : h[j] = i
    <3> SUFFICES ASSUME NEW i \in inScope PROVE \E j \in kept : h[j] = i
      OBVIOUS
    <3>1. PICK j \in D : q[j] = i
      BY <1>1
    <3>2. j \in kept
      BY <1>1, <3>1
    <3> QED
      BY <3>1, <3>2
  <2> HIDE DEF h, kept, inScope
  <2> QED
    BY <2>2, <2>3, <2>4, Fun_IsBij
<1>5. Cardinality(inScope) = K
  <2> HIDE DEF h, inScope, kept
  <2>1. ExistsBijection(kept, inScope)
    BY <1>4, Fun_ExistsBij
  <2> QED
    BY <1>2, <2>1, FS_Bijection
<1> QED
  BY <1>2, <1>5

\* A series that a replay accepts has no event twice.
LEMMA EventsDistinct ==
    ASSUME NEW series \in Datasets, NEW config, Accepts(series, config)
    PROVE  LET events == Events(series, config)
           IN  \A m, n \in 1 .. Len(events) : m < n => events[m] # events[n]
<1> DEFINE D == 1 .. Len(series)
           sorted == Sorted(series)
           kept == {j \in D : InScope(config, sorted[j])}
           K == Cardinality(kept)
           events == Events(series, config)
<1>1. DOMAIN sorted = D /\ \A j \in D : sorted[j].time \in Nat
  <2>1. PICK q \in [D -> D] : sorted = [n \in D |-> series[q[n]]]
    BY SortedPlaces
  <2>2. \A j \in D : series[j].time \in Nat
    BY SeriesType
  <2> HIDE DEF D, sorted
  <2> QED
    BY <2>1, <2>2
<1>2. \A i, j \in D : i < j /\ SameSeries(sorted[i], sorted[j]) =>
                         sorted[i].time < sorted[j].time
  <2> HIDE DEF D
  <2> QED
    BY <1>1 DEF Accepts, IsValidSeries
<1>3. /\ IsFiniteSet(kept) /\ K \in Nat
      /\ \E f \in [1 .. K -> kept] :
            /\ events = [n \in 1 .. K |-> sorted[f[n]]]
            /\ \A j \in kept : \E n \in 1 .. K : f[n] = j
            /\ \A m, n \in 1 .. K : m < n => f[m] < f[n]
  BY EventsPlaces
<1> HIDE DEF events, K, sorted
<1>4. PICK f \in [1 .. K -> kept] :
            /\ events = [n \in 1 .. K |-> sorted[f[n]]]
            /\ \A j \in kept : \E n \in 1 .. K : f[n] = j
            /\ \A m, n \in 1 .. K : m < n => f[m] < f[n]
  BY <1>3
<1>5. Len(events) = K
  BY <1>3, <1>4
<1>6. ASSUME NEW m \in 1 .. K, NEW n \in 1 .. K, m < n PROVE events[m] # events[n]
  <2>1. f[m] < f[n] /\ f[m] \in D /\ f[n] \in D
    BY <1>4, <1>6
  <2>2. sorted[f[m]] = sorted[f[n]] => sorted[f[m]].time < sorted[f[n]].time
    BY <1>2, <2>1 DEF SameSeries
  <2>3. sorted[f[m]].time \in Nat
    BY <1>1, <2>1
  <2>4. sorted[f[m]] # sorted[f[n]]
    BY <2>2, <2>3
  <2> QED
    BY <1>4, <2>4
<1> QED
  BY <1>5, <1>6 DEF events

-----------------------------------------------------------------------------
(***************************************************************************)
(* The quality gate and the replay.                                         *)
(***************************************************************************)

\* A time in the session of the exchange has the same date in UTC.
LEMMA SessionDate ==
    ASSUME NEW t \in Nat, IsRegularSession(t)
    PROVE  IsTradingDay(DayUtc(t))
<1>1. (t + 22) % 96 >= 37 /\ (t + 22) % 96 <= 62 /\ IsTradingDay((t + 22) \div 96)
  BY DEF IsRegularSession, QuarterIst
<1>2. t \div 96 = (t + 22) \div 96
  BY <1>1
<1> QED
  BY <1>1, <1>2 DEF DayUtc

\* No bar after the first is as early as the one before it: they come in order of time.
LEMMA EventsInOrder ==
    ASSUME NEW series \in Datasets, ~ OutOfOrder(series)
    PROVE  \A i, j \in 1 .. Len(series) : i < j => series[i].time < series[j].time
<1> DEFINE D == 1 .. Len(series)
           Bad == {j \in D : \E i \in D : i < j /\ ~ (series[i].time < series[j].time)}
<1>1. DOMAIN series = D /\ Len(series) \in Nat /\ \A i \in D : series[i].time \in Nat
  BY SeriesType
<1>2. ASSUME NEW j \in D, j # 1 PROVE series[j - 1].time < series[j].time /\ j - 1 \in D
  <2>1. ~ (series[j].time <= series[j - 1].time)
    BY <1>1, <1>2 DEF OutOfOrder
  <2>2. j - 1 \in D
    BY <1>2
  <2> QED
    BY <1>1, <2>1, <2>2
<1> SUFFICES ASSUME Bad # {} PROVE FALSE
  BY <1>1
<1>3. PICK j \in Bad : \A k \in Bad : j <= k
  <2>1. Bad \in SUBSET Nat
    BY <1>1
  <2> HIDE DEF Bad
  <2> QED
    BY <2>1, LeastNumber
<1>4. PICK i \in D : i < j /\ ~ (series[i].time < series[j].time)
  OBVIOUS
<1>5. j \in D /\ j # 1 /\ i \in Nat /\ j \in Nat /\ i <= j - 1
  BY <1>1, <1>4
<1>6. j - 1 \in D /\ series[j - 1].time < series[j].time
  BY <1>2, <1>5
<1>7. j - 1 \notin Bad
  <2> HIDE DEF Bad
  <2> QED
    BY <1>3, <1>5
<1>8. i = j - 1 \/ series[i].time < series[j - 1].time
  BY <1>5, <1>6, <1>7
<1> QED
  BY <1>1, <1>4, <1>5, <1>6, <1>8

\* What the gate has let through with the session hours enforced.
LEMMA EligibleSeries ==
    ASSUME NEW series \in Datasets, Eligible(series, TRUE)
    PROVE  /\ series # <<>> /\ SeriesVerdict(series) # "REJECTED"
           /\ \A i, j \in 1 .. Len(series) : i < j => series[i].time < series[j].time
           /\ \A i \in 1 .. Len(series) : /\ IsCanonical(series[i])
                                          /\ IsTradingDay(DayUtc(series[i].time))
                                          /\ IsRegularSession(series[i].time)
<1>1. series # <<>> /\ ~ Critical(series, TRUE)
  BY DEF Eligible, Verdict
<1>2. /\ ~ HasDuplicates(series) /\ ~ OutOfOrder(series) /\ ~ OutOfSession(series)
      /\ \A flaw \in NumberFlaws : ~ Flawed(series, flaw)
  BY <1>1 DEF Critical
<1>3. SeriesVerdict(series) # "REJECTED"
  BY <1>2 DEF SeriesVerdict
<1>4. /\ DOMAIN series = 1 .. Len(series)
      /\ \A i \in 1 .. Len(series) : series[i].time \in Nat /\ series[i].bad \subseteq NumberFlaws
  BY SeriesType
<1>5. \A i \in 1 .. Len(series) : IsCanonical(series[i])
  BY <1>2, <1>4 DEF Flawed, IsCanonical
<1>6. \A i \in 1 .. Len(series) : IsRegularSession(series[i].time)
  BY <1>2, <1>4 DEF OutOfSession
<1>7. \A i \in 1 .. Len(series) : IsTradingDay(DayUtc(series[i].time))
  BY <1>4, <1>6, SessionDate
<1> QED
  BY <1>1, <1>2, <1>3, <1>5, <1>6, <1>7, EventsInOrder

\* Such a series is a valid one in the order of its events too.
LEMMA SortedValid ==
    ASSUME NEW series \in Datasets, series # <<>>,
           \A i, j \in 1 .. Len(series) : i < j => series[i].time < series[j].time
    PROVE  IsValidSeries(Sorted(series))
<1> DEFINE D == 1 .. Len(series)
           sorted == Sorted(series)
<1>1. PICK q \in [D -> D] :
              /\ sorted = [n \in D |-> series[q[n]]]
              /\ \A i \in D : \E n \in D : q[n] = i
              /\ \A m, n \in D : m < n => ComesBefore(series, q[m], q[n])
  BY SortedPlaces
<1>2. /\ DOMAIN series = D /\ Len(series) \in Nat
      /\ \A i \in D : series[i].time \in Nat /\ series[i].symbol \in Symbols
  BY SeriesType
<1>3. 1 \in D
  <2>1. Len(series) # 0
    <3>1. series \in Seq(Range(series))
      BY ReplayAssumption
    <3> QED
      BY <3>1
  <2> QED
    BY <1>2, <2>1
<1> HIDE DEF sorted
<1>4. sorted # <<>> /\ DOMAIN sorted = D
  BY <1>1, <1>3
<1>5. ASSUME NEW m \in D, NEW n \in D, m < n PROVE sorted[m].time < sorted[n].time
  <2>1. ComesBefore(series, q[m], q[n]) /\ q[m] \in D /\ q[n] \in D
    BY <1>1, <1>5
  <2>2. sorted[m] = series[q[m]] /\ sorted[n] = series[q[n]]
    BY <1>1
  <2>3. CASE q[m] < q[n]
    BY <2>1, <2>2, <2>3
  <2>4. CASE q[n] < q[m]
    <3>1. series[q[n]].time < series[q[m]].time
      BY <2>1, <2>4
    <3> QED
      BY <1>2, <2>1, <2>2, <3>1 DEF ComesBefore
  <2>5. CASE q[m] = q[n]
    <3>1. \A s \in Symbols : Rank[s] \in Nat
      BY ReplayAssumption
    <3> QED
      BY <1>2, <2>1, <2>5, <3>1 DEF ComesBefore
  <2> QED
    BY <1>2, <2>1, <2>3, <2>4, <2>5
<1> QED
  BY <1>4, <1>5 DEF IsValidSeries, sorted

LEMMA EligibleAccepted ==
    ASSUME NEW series \in Datasets, Eligible(series, TRUE), NEW config,
           NEW wanted, wanted = {i \in DOMAIN series : /\ series[i].symbol \in config.symbols
                                                       /\ config.from <= series[i].time
                                                       /\ series[i].time <= config.to},
           wanted # {}
    PROVE  Accepts(series, config) /\ Len(Events(series, config)) = Cardinality(wanted)
<1> DEFINE D == 1 .. Len(series)
           inScope == {i \in D : InScope(config, series[i])}
<1>1. /\ series # <<>>
      /\ \A i, j \in D : i < j => series[i].time < series[j].time
      /\ \A i \in D : /\ IsCanonical(series[i])
                      /\ IsTradingDay(DayUtc(series[i].time))
                      /\ IsRegularSession(series[i].time)
  BY EligibleSeries
<1>2. DOMAIN series = D /\ Len(series) \in Nat
  BY SeriesType
<1>3. inScope = wanted
  BY <1>1, <1>2 DEF InScope
<1>4. Len(Events(series, config)) = Cardinality(wanted)
  BY <1>3, EventsCounted
<1>5. Events(series, config) # <<>>
  <2>1. IsFiniteSet(wanted)
    <3>1. IsFiniteSet(D)
      BY <1>2, FS_Interval
    <3>2. wanted \in SUBSET D
      BY <1>2
    <3> QED
      BY <3>1, <3>2, FS_Subset
  <2>2. Cardinality(wanted) # 0
    BY <2>1, FS_EmptySet
  <2> QED
    BY <1>4, <2>2
<1>6. IsValidSeries(Sorted(series))
  BY <1>1, SortedValid
<1> QED
  BY <1>1, <1>2, <1>4, <1>5, <1>6 DEF Accepts

\* The caller's series never changes.
LEMMA SeriesKept == Spec => [](bars \in Datasets)
<1>1. Init => bars \in Datasets
  BY DEF Init
<1>2. bars \in Datasets /\ [Next]_vars => (bars \in Datasets)'
  BY DEF Next, Construct, RunReplay, Step, Mark, Close, Wait, Reset, Open, CallStrategy, vars
<1> QED
  BY <1>1, <1>2, PTL DEF Spec

\* validate_dataset and replay.py: a series the quality gate lets through with the session
\* hours enforced is replayed whole, under any calendar, window and set of symbols that
\* keeps one of its bars, and the older validator does not reject it.
THEOREM TheEligibleAreReplayed == Spec => []EligibleIsReplayed
<1>1. bars \in Datasets => EligibleIsReplayed
  <2> SUFFICES ASSUME bars \in Datasets, engine = None, Eligible(bars, TRUE)
               PROVE  /\ SeriesVerdict(bars) # "REJECTED"
                      /\ \A config \in Configs :
                            LET wanted == {i \in DOMAIN bars : /\ bars[i].symbol \in config.symbols
                                                               /\ config.from <= bars[i].time
                                                               /\ bars[i].time <= config.to}
                            IN  wanted # {} => /\ Accepts(bars, config)
                                               /\ Len(Events(bars, config)) = Cardinality(wanted)
    BY DEF EligibleIsReplayed
  <2>1. SeriesVerdict(bars) # "REJECTED"
    BY EligibleSeries
  <2> QED
    BY <2>1, EligibleAccepted
<1> QED
  BY <1>1, SeriesKept, PTL

-----------------------------------------------------------------------------
(***************************************************************************)
(* What a strategy is shown.                                                *)
(***************************************************************************)

\* The bars seen of a symbol are those among the first n events, each once and
\* in order.
BufferOf(seen, s, events, n) ==
    /\ seen \in Seq(Bars)
    /\ \A i \in 1 .. Len(seen) : seen[i].symbol = s /\ \E k \in 1 .. n : seen[i] = events[k]
    /\ \A k \in 1 .. n : events[k].symbol = s => \E i \in 1 .. Len(seen) : seen[i] = events[k]
    /\ \A i, j \in 1 .. Len(seen) : i < j => seen[i].time <= seen[j].time /\ seen[i] # seen[j]

Distinct(events) == \A m, n \in 1 .. Len(events) : m < n => events[m] # events[n]

\* An engine is built of the caller's series, and its clock is that of its last event.
ClockInv ==
    /\ bars \in Datasets
    /\ turn \in {"none", "mark", "trade"}
    /\ engine = None => turn = "none"
    /\ engine # None =>
         /\ engine.config \in Configs
         /\ EventsOf(engine.events, bars, engine.config) /\ Distinct(engine.events)
         /\ index \in 0 .. Len(engine.events)
         /\ clock = IF index = 0 THEN None ELSE engine.events[index].time
         /\ turn # "none" => index > 0

BuffersInv ==
    engine # None =>
        /\ DOMAIN history = engine.config.symbols
        /\ \A s \in engine.config.symbols : BufferOf(history[s], s, engine.events, index)

\* A buffer is empty before the first event.
LEMMA EmptyBuffer ==
    ASSUME NEW s, NEW events
    PROVE  BufferOf(<<>>, s, events, 0)
  BY DEF BufferOf

\* It grows by the events of its symbol,
LEMMA BufferGrows ==
    ASSUME NEW s, NEW events \in Seq(Bars), Distinct(events),
           \A m, n \in 1 .. Len(events) : m < n => events[m].time <= events[n].time,
           NEW k \in Nat, k + 1 \in 1 .. Len(events), events[k + 1].symbol = s,
           NEW seen, BufferOf(seen, s, events, k)
    PROVE  BufferOf(Append(seen, events[k + 1]), s, events, k + 1)
<1> DEFINE e == events[k + 1]
           more == Append(seen, e)
<1>1. e \in Bars /\ seen \in Seq(Bars) /\ Len(events) \in Nat
  BY DEF BufferOf
<1> HIDE DEF e
<1>2. /\ more \in Seq(Bars) /\ Len(more) = Len(seen) + 1 /\ Len(seen) \in Nat
      /\ more[Len(seen) + 1] = e
      /\ \A i \in 1 .. Len(seen) : more[i] = seen[i]
  BY <1>1
<1> HIDE DEF more
<1>3. ASSUME NEW i \in 1 .. Len(more)
      PROVE  more[i].symbol = s /\ \E m \in 1 .. k + 1 : more[i] = events[m]
  <2>1. CASE i = Len(seen) + 1
    BY <1>2, <2>1 DEF e
  <2>2. CASE i # Len(seen) + 1
    <3>1. i \in 1 .. Len(seen) /\ more[i] = seen[i]
      BY <1>2, <2>2
    <3>2. PICK m \in 1 .. k : seen[i] = events[m]
      BY <3>1 DEF BufferOf
    <3>3. seen[i].symbol = s
      BY <3>1 DEF BufferOf
    <3>4. m \in 1 .. k + 1
      OBVIOUS
    <3> QED
      BY <3>1, <3>2, <3>3, <3>4
  <2> QED
    BY <2>1, <2>2
<1>4. ASSUME NEW m \in 1 .. k + 1, events[m].symbol = s
      PROVE  \E i \in 1 .. Len(more) : more[i] = events[m]
  <2>1. CASE m = k + 1
    <3>1. Len(seen) + 1 \in 1 .. Len(more) /\ more[Len(seen) + 1] = events[m]
      BY <1>2, <2>1 DEF e
    <3> QED
      BY <3>1
  <2>2. CASE m # k + 1
    <3>1. m \in 1 .. k
      BY <2>2
    <3>2. PICK i \in 1 .. Len(seen) : seen[i] = events[m]
      BY <1>4, <3>1 DEF BufferOf
    <3>3. i \in 1 .. Len(more) /\ more[i] = seen[i]
      BY <1>2
    <3> QED
      BY <3>2, <3>3
  <2> QED
    BY <2>1, <2>2
<1>5. ASSUME NEW i \in 1 .. Len(seen)
      PROVE  seen[i].time <= e.time /\ seen[i] # e
  <2>1. PICK m \in 1 .. k : seen[i] = events[m]
    BY DEF BufferOf
  <2>2. m \in 1 .. Len(events) /\ m < k + 1
    BY <1>1
  <2> QED
    BY <2>1, <2>2 DEF e, Distinct
<1>6. ASSUME NEW i \in 1 .. Len(more), NEW j \in 1 .. Len(more), i < j
      PROVE  more[i].time <= more[j].time /\ more[i] # more[j]
  <2>1. i \in 1 .. Len(seen) /\ more[i] = seen[i]
    BY <1>2, <1>6
  <2>2. CASE j = Len(seen) + 1
    BY <1>2, <1>5, <2>1, <2>2
  <2>3. CASE j # Len(seen) + 1
    <3>1. j \in 1 .. Len(seen) /\ more[j] = seen[j]
      BY <1>2, <2>3
    <3> QED
      BY <1>6, <2>1, <3>1 DEF BufferOf
  <2> QED
    BY <2>2, <2>3
<1>7. BufferOf(more, s, events, k + 1)
  BY <1>2, <1>3, <1>4, <1>6 DEF BufferOf
<1> QED
  BY <1>7 DEF more, e

\* and by no other.
LEMMA BufferKept ==
    ASSUME NEW s, NEW events, NEW k \in Nat, events[k + 1].symbol # s,
           NEW seen, BufferOf(seen, s, events, k)
    PROVE  BufferOf(seen, s, events, k + 1)
<1>1. ASSUME NEW i \in 1 .. Len(seen) PROVE \E m \in 1 .. k + 1 : seen[i] = events[m]
  <2>1. PICK m \in 1 .. k : seen[i] = events[m]
    BY DEF BufferOf
  <2>2. m \in 1 .. k + 1
    OBVIOUS
  <2> QED
    BY <2>1, <2>2
<1>2. ASSUME NEW m \in 1 .. k + 1, events[m].symbol = s
      PROVE  \E i \in 1 .. Len(seen) : seen[i] = events[m]
  <2>1. m \in 1 .. k
    BY <1>2
  <2> QED
    BY <1>2, <2>1 DEF BufferOf
<1> QED
  BY <1>1, <1>2 DEF BufferOf

LEMMA InitialReplay == Init => ClockInv /\ BuffersInv
  BY DEF Init, ClockInv, BuffersInv

\* A step that leaves the engine and its place alone, but for what is called next.
LEMMA QuietReplay ==
    ASSUME ClockInv, BuffersInv, UNCHANGED <<bars, engine, index, clock, history>>,
           turn' \in {"none", "mark", "trade"},
           turn' # "none" => turn # "none"
    PROVE  (ClockInv /\ BuffersInv)'
  BY DEF ClockInv, BuffersInv

\* An engine at its start has shown nothing.
LEMMA ReplayAtStart ==
    ASSUME NEW config, AtStart(config), (engine # None)' => engine'.config = config
    PROVE  BuffersInv'
<1> SUFFICES ASSUME engine' # None
             PROVE  /\ DOMAIN history' = config.symbols
                    /\ \A s \in config.symbols : BufferOf(history'[s], s, engine'.events, index')
  BY DEF BuffersInv
<1> QED
  BY EmptyBuffer DEF AtStart

LEMMA NextReplay == ClockInv /\ BuffersInv /\ [Next]_vars => (ClockInv /\ BuffersInv)'
<1> SUFFICES ASSUME ClockInv, BuffersInv, [Next]_vars
             PROVE  (ClockInv /\ BuffersInv)'
  OBVIOUS
<1>1. ASSUME NEW config \in Configs, Construct(config)
      PROVE  (ClockInv /\ BuffersInv)'
  <2>1. /\ engine' = [config |-> config, events |-> Events(bars, config)]
        /\ AtStart(config) /\ Accepts(bars, config) /\ bars' = bars
    BY <1>1 DEF Construct
  <2>2. engine'.config = config /\ engine'.events = Events(bars, config)
    BY <2>1
  <2>3. bars \in Datasets
    BY DEF ClockInv
  <2>4. EventsOf(engine'.events, bars, config) /\ Distinct(engine'.events)
    BY <2>1, <2>2, <2>3, EventsAreOf, EventsDistinct DEF Distinct
  <2>5. Len(engine'.events) \in Nat
    BY <2>4 DEF EventsOf
  <2>6. index' = 0 /\ clock' = None /\ turn' = "none"
    BY <2>1 DEF AtStart
  <2>7. ClockInv'
    <3>1. index' \in 0 .. Len(engine'.events)
      BY <2>5, <2>6
    <3> QED
      BY <2>1, <2>2, <2>3, <2>4, <2>6, <3>1 DEF ClockInv
  <2>8. BuffersInv'
    BY <2>1, <2>2, ReplayAtStart
  <2> QED
    BY <2>7, <2>8
<1>2. ASSUME NEW config \in Configs, RunReplay(config)
      PROVE  (ClockInv /\ BuffersInv)'
  <2>1. UNCHANGED <<bars, engine, index, clock, history, turn>>
    BY <1>2 DEF RunReplay, engineVars
  <2> QED
    BY <2>1, QuietReplay DEF ClockInv
<1>3. CASE Step
  <2> DEFINE events == engine.events
             e == events[index + 1]
  <2>1. /\ engine # None /\ index < Len(events) /\ index' = index + 1 /\ clock' = e.time
        /\ history' = [history EXCEPT ![e.symbol] = Append(@, e)]
        /\ turn' = "mark" /\ bars' = bars /\ engine' = engine
    BY <1>3 DEF Step, HasNext
  <2>2. /\ engine.config \in Configs /\ events \in Seq(Bars) /\ Distinct(events)
        /\ EventsOf(events, bars, engine.config)
        /\ index \in 0 .. Len(events)
    BY <2>1 DEF ClockInv, EventsOf
  <2>3. Len(events) \in Nat /\ index \in Nat /\ index + 1 \in 1 .. Len(events)
    BY <2>1, <2>2
  <2>4. ClockInv'
    BY <2>1, <2>2, <2>3 DEF ClockInv
  <2>5. /\ DOMAIN history = engine.config.symbols
        /\ \A s \in engine.config.symbols : BufferOf(history[s], s, events, index)
    BY <2>1 DEF BuffersInv
  <2>6. \A m, n \in 1 .. Len(events) : m < n => events[m].time <= events[n].time
    BY <2>2 DEF EventsOf
  <2> HIDE DEF events
  <2>7. ASSUME NEW s \in engine.config.symbols
        PROVE  BufferOf(history'[s], s, events, index + 1)
    <3>1. CASE e.symbol = s
      <4>1. history'[s] = Append(history[s], e)
        BY <2>1, <2>5, <3>1
      <4>2. BufferOf(Append(history[s], e), s, events, index + 1)
        BY <2>2, <2>3, <2>5, <2>6, <3>1, BufferGrows
      <4> QED
        BY <4>1, <4>2
    <3>2. CASE e.symbol # s
      <4>1. history'[s] = history[s]
        BY <2>1, <2>5, <3>2
      <4>2. BufferOf(history[s], s, events, index + 1)
        BY <2>3, <2>5, <3>2, BufferKept
      <4> QED
        BY <4>1, <4>2
    <3> QED
      BY <3>1, <3>2
  <2>8. DOMAIN history' = engine.config.symbols
    BY <2>1, <2>5
  <2>9. BuffersInv'
    BY <2>1, <2>7, <2>8 DEF BuffersInv, events
  <2> QED
    BY <2>4, <2>9
<1>4. CASE Mark
  BY <1>4, QuietReplay DEF Mark
<1>5. CASE CallStrategy
  BY <1>5, QuietReplay DEF CallStrategy
<1>6. CASE Reset
  <2>1. /\ engine # None /\ AtStart(engine.config) /\ UNCHANGED <<bars, engine>>
    BY <1>6 DEF Reset
  <2>2. BuffersInv'
    BY <2>1, ReplayAtStart
  <2>3. ClockInv'
    <3>1. index' = 0 /\ clock' = None /\ turn' = "none"
      BY <2>1 DEF AtStart
    <3>2. Len(engine.events) \in Nat
      BY <2>1 DEF ClockInv, EventsOf
    <3>3. 0 \in 0 .. Len(engine.events)
      BY <3>2
    <3> QED
      BY <2>1, <3>1, <3>3 DEF ClockInv
  <2> QED
    BY <2>2, <2>3
<1>7. CASE UNCHANGED vars
  BY <1>7, QuietReplay DEF vars, engineVars, ClockInv
<1> QED
  BY <1>1, <1>2, <1>3, <1>4, <1>5, <1>6, <1>7 DEF Next, Open, Close, Wait

LEMMA ReplayInvariant == Spec => [](ClockInv /\ BuffersInv)
  BY InitialReplay, NextReplay, PTL DEF Spec

\* get_history: what a strategy sees of a symbol is the past of the series, for every
\* series, configuration and calendar, however the caller ordered the series and however
\* often the replay was started over.
THEOREM HistoriesArePast == Spec => []HistoryIsPast
<1>1. ClockInv /\ BuffersInv => HistoryIsPast
  <2> SUFFICES ASSUME ClockInv, BuffersInv, engine # None, NEW s \in Symbols
               PROVE  LET seen == History(s, 0)
                          InReach(b) == b.symbol = s /\ InScope(engine.config, b)
                      IN  /\ clock = None => seen = <<>>
                          /\ clock # None =>
                               /\ \A i \in DOMAIN seen : InReach(seen[i]) /\ seen[i].time <= clock
                               /\ \A i, j \in DOMAIN seen : i < j => seen[i].time <= seen[j].time
                               /\ \A i \in DOMAIN bars :
                                    InReach(bars[i]) /\ bars[i].time < clock =>
                                      Cardinality({j \in DOMAIN seen : seen[j] = bars[i]}) = 1
    BY DEF HistoryIsPast
  <2> DEFINE seen == History(s, 0)
             InReach(b) == b.symbol = s /\ InScope(engine.config, b)
             events == engine.events
  <2>1. clock = None => seen = <<>>
    BY DEF History
  <2> SUFFICES ASSUME clock # None
               PROVE  /\ \A i \in DOMAIN seen : InReach(seen[i]) /\ seen[i].time <= clock
                      /\ \A i, j \in DOMAIN seen : i < j => seen[i].time <= seen[j].time
                      /\ \A i \in DOMAIN bars :
                           InReach(bars[i]) /\ bars[i].time < clock =>
                             Cardinality({j \in DOMAIN seen : seen[j] = bars[i]}) = 1
    BY <2>1
  <2>2. /\ EventsOf(events, bars, engine.config) /\ bars \in Datasets
        /\ index \in 1 .. Len(events) /\ clock = events[index].time
    <3>1. index # 0 /\ index \in 0 .. Len(events) /\ Len(events) \in Nat
      BY DEF ClockInv, EventsOf
    <3> QED
      BY <3>1 DEF ClockInv
  <2>3. /\ events \in Seq(Bars) /\ Len(events) \in Nat
        /\ \A n \in 1 .. Len(events) : InScope(engine.config, events[n])
        /\ \A m, n \in 1 .. Len(events) : m < n => events[m].time <= events[n].time
        /\ \A i \in 1 .. Len(bars) : InScope(engine.config, bars[i]) =>
              \E n \in 1 .. Len(events) : events[n] = bars[i]
    BY <2>2 DEF EventsOf
  <2>4. \A n \in 1 .. Len(events) : events[n].time \in Nat
    BY <2>3, BarType
  <2>5. DOMAIN bars = 1 .. Len(bars) /\ \A i \in 1 .. Len(bars) : bars[i].time \in Nat
    BY <2>2, SeriesType
  <2>6. CASE s \notin engine.config.symbols
    <3>1. seen = <<>>
      BY <2>6 DEF History, BuffersInv
    <3>2. \A b : ~ InReach(b)
      BY <2>6 DEF InScope
    <3>3. DOMAIN seen = {}
      BY <3>1
    <3> HIDE DEF seen, InReach
    <3> QED
      BY <3>2, <3>3
  <2>7. CASE s \in engine.config.symbols
    <3>1. seen = history[s]
      BY <2>7 DEF History, BuffersInv
    <3>2. BufferOf(seen, s, events, index)
      BY <2>7, <3>1 DEF BuffersInv
    <3> HIDE DEF seen, events
    <3>3. DOMAIN seen = 1 .. Len(seen) /\ Len(seen) \in Nat
      BY <3>2 DEF BufferOf
    <3>4. ASSUME NEW i \in DOMAIN seen PROVE InReach(seen[i]) /\ seen[i].time <= clock
      <4>1. PICK k \in 1 .. index : seen[i] = events[k]
        BY <3>2, <3>3 DEF BufferOf
      <4>2. k \in 1 .. Len(events) /\ (k < index \/ k = index)
        BY <2>2
      <4>3. seen[i].symbol = s
        BY <3>2, <3>3 DEF BufferOf
      <4>4. InScope(engine.config, seen[i])
        BY <2>3, <4>1, <4>2
      <4>5. seen[i].time <= clock
        BY <2>2, <2>3, <2>4, <4>1, <4>2
      <4> QED
        BY <4>3, <4>4, <4>5
    <3>5. \A i, j \in DOMAIN seen : i < j => seen[i].time <= seen[j].time
      BY <3>2, <3>3 DEF BufferOf
    <3>6. ASSUME NEW i \in DOMAIN bars, InReach(bars[i]), bars[i].time < clock
          PROVE  Cardinality({j \in DOMAIN seen : seen[j] = bars[i]}) = 1
      <4>1. PICK n \in 1 .. Len(events) : events[n] = bars[i]
        BY <2>3, <2>5, <3>6
      <4>2. n \in 1 .. index
        BY <2>2, <2>3, <2>4, <3>6, <4>1
      <4>3. events[n].symbol = s
        BY <3>6, <4>1
      <4>4. PICK j \in 1 .. Len(seen) : seen[j] = events[n]
        BY <3>2, <4>2, <4>3 DEF BufferOf
      <4>5. \A k \in 1 .. Len(seen) : k # j => seen[k] # seen[j]
        BY <3>2, <3>3 DEF BufferOf
      <4>6. {k \in DOMAIN seen : seen[k] = bars[i]} = {j}
        BY <3>3, <4>1, <4>4, <4>5
      <4> QED
        BY <4>6, FS_Singleton
    <3> HIDE DEF InReach
    <3> QED
      BY <3>4, <3>5, <3>6
  <2> QED
    BY <2>6, <2>7
<1> QED
  BY <1>1, ReplayInvariant, PTL

-----------------------------------------------------------------------------
(***************************************************************************)
(* The accounts of the tracker.                                             *)
(***************************************************************************)

IsPosition(x) ==
    /\ x = [side |-> x.side, qty |-> x.qty, entry |-> x.entry, price |-> x.price]
    /\ x.qty \in Int /\ x.entry \in Int /\ x.price \in Int

\* A portfolio has at most one position in a symbol.
IsPortfolio(p) ==
    /\ p = [cash |-> p.cash, pos |-> p.pos, gross |-> p.gross, fees |-> p.fees, peak |-> p.peak]
    /\ p.cash \in Int /\ p.gross \in Int /\ p.fees \in Int
    /\ p.pos = [s \in Symbols |-> p.pos[s]]
    /\ \A s \in Symbols : \A x \in p.pos[s] : IsPosition(x) /\ p.pos[s] = {x}

\* What a position cost, and what the positions cost together.
CostIn(p) == [s \in Symbols |-> IF p.pos[s] = {} THEN 0
                                ELSE Position(p, s).qty * Position(p, s).entry]
HeldCost(p) == (CHOOSE g : Adds(g, CostIn(p), Symbols))[Held(p)]

\* Capital and realized profit are in the cash and in the positions, but for the fees.
Balanced(p) == p.cash + HeldCost(p) = InitialCapital + p.gross - p.fees

LEMMA PositionHeld ==
    ASSUME NEW p, IsPortfolio(p), NEW s \in Symbols, p.pos[s] # {}
    PROVE  /\ p.pos[s] = {Position(p, s)} /\ IsPosition(Position(p, s))
  BY DEF IsPortfolio, Position

LEMMA CostInType ==
    ASSUME NEW p, IsPortfolio(p)
    PROVE  CostIn(p) \in [Symbols -> Int]
<1> SUFFICES ASSUME NEW s \in Symbols, p.pos[s] # {}
             PROVE  Position(p, s).qty * Position(p, s).entry \in Int
  BY DEF CostIn
<1> QED
  BY PositionHeld DEF IsPosition

\* The cost is a sum over what is held.
LEMMA HeldCostAdds ==
    ASSUME NEW p, IsPortfolio(p)
    PROVE  \E g : /\ Adds(g, CostIn(p), Symbols) /\ HeldCost(p) = g[Held(p)]
                  /\ HeldCost(p) \in Int
<1>1. IsFiniteSet(Symbols) /\ CostIn(p) \in [Symbols -> Int]
  BY CostInType, PortfolioAssumption
<1>2. \E g : Adds(g, CostIn(p), Symbols)
  BY <1>1, AddsExists
<1>3. PICK g : g = CHOOSE h : Adds(h, CostIn(p), Symbols)
  OBVIOUS
<1>4. Adds(g, CostIn(p), Symbols) /\ HeldCost(p) = g[Held(p)]
  BY <1>2, <1>3 DEF HeldCost
<1>5. Held(p) \in SUBSET Symbols
  BY DEF Held
<1>6. HeldCost(p) \in Int
  BY <1>1, <1>4, <1>5, AddsType
<1> QED
  BY <1>4, <1>6

\* Equal costs of the same positions are equal together.
LEMMA SameCost ==
    ASSUME NEW p, IsPortfolio(p), NEW q, IsPortfolio(q), NEW T \in SUBSET Symbols,
           \A s \in T : CostIn(p)[s] = CostIn(q)[s],
           NEW g, Adds(g, CostIn(p), Symbols), NEW h, Adds(h, CostIn(q), Symbols)
    PROVE  g[T] = h[T]
  BY CostInType, PortfolioAssumption, AddsSame

\* A position more costs as much more.
LEMMA CostWith ==
    ASSUME NEW p, IsPortfolio(p), NEW q, IsPortfolio(q), NEW s \in Symbols,
           p.pos[s] = {}, q.pos[s] # {}, \A r \in Symbols \ {s} : p.pos[r] = q.pos[r]
    PROVE  HeldCost(q) = HeldCost(p) + Position(q, s).qty * Position(q, s).entry
<1>1. PICK g : Adds(g, CostIn(p), Symbols) /\ HeldCost(p) = g[Held(p)] /\ HeldCost(p) \in Int
  BY HeldCostAdds
<1>2. PICK h : Adds(h, CostIn(q), Symbols) /\ HeldCost(q) = h[Held(q)] /\ HeldCost(q) \in Int
  BY HeldCostAdds
<1>3. Held(q) \in SUBSET Symbols /\ Held(p) \in SUBSET Symbols /\ s \in Held(q)
      /\ Held(q) \ {s} = Held(p)
  BY DEF Held
<1>4. h[Held(q)] = CostIn(q)[s] + h[Held(q) \ {s}]
  BY <1>2, <1>3, CostInType, PortfolioAssumption, AddsAny
<1>5. g[Held(p)] = h[Held(p)]
  <2>1. ASSUME NEW r \in Held(p) PROVE CostIn(p)[r] = CostIn(q)[r]
    <3>1. r \in Symbols /\ p.pos[r] = q.pos[r]
      BY DEF Held
    <3>2. Position(p, r) = Position(q, r)
      BY <3>1 DEF Position
    <3> QED
      BY <3>1, <3>2 DEF CostIn
  <2> QED
    BY <1>1, <1>2, <1>3, <2>1, SameCost
<1>6. CostIn(q)[s] = Position(q, s).qty * Position(q, s).entry
  BY DEF CostIn
<1>7. CostIn(q)[s] \in Int
  BY CostInType
<1>8. HeldCost(q) = CostIn(q)[s] + HeldCost(p)
  <2>1. h[Held(q)] = CostIn(q)[s] + h[Held(p)]
    BY <1>3, <1>4, Zenon
  <2> QED
    BY <1>1, <1>2, <1>5, <2>1, Zenon
<1>9. HeldCost(q) = HeldCost(p) + CostIn(q)[s]
  BY <1>1, <1>7, <1>8
<1> QED
  BY <1>6, <1>9

\* A position at another price costs the same.
LEMMA CostOfSame ==
    ASSUME NEW p, IsPortfolio(p), NEW q, IsPortfolio(q),
           \A s \in Symbols : p.pos[s] = {} <=> q.pos[s] = {},
           \A s \in Symbols : p.pos[s] # {} => /\ Position(p, s).qty = Position(q, s).qty
                                               /\ Position(p, s).entry = Position(q, s).entry
    PROVE  HeldCost(q) = HeldCost(p)
<1>1. PICK g : Adds(g, CostIn(p), Symbols) /\ HeldCost(p) = g[Held(p)]
  BY HeldCostAdds
<1>2. PICK h : Adds(h, CostIn(q), Symbols) /\ HeldCost(q) = h[Held(q)]
  BY HeldCostAdds
<1>3. Held(p) \in SUBSET Symbols /\ Held(q) = Held(p)
  BY DEF Held
<1>4. \A s \in Held(p) : CostIn(p)[s] = CostIn(q)[s]
  BY DEF CostIn, Held
<1> QED
  BY <1>1, <1>2, <1>3, <1>4, SameCost

\* One position replaced.
LEMMA PositionReplaced ==
    ASSUME NEW f, f = [r \in Symbols |-> f[r]], NEW s \in Symbols, NEW v,
           NEW g, g = [f EXCEPT ![s] = v]
    PROVE  /\ \A r \in Symbols \ {s} : f[r] = g[r]
           /\ g[s] = v /\ g = [r \in Symbols |-> g[r]]
OBVIOUS

LEMMA GainType ==
    ASSUME NEW side, NEW qty \in Int, NEW entry \in Int, NEW quote \in Int
    PROVE  Gain(side, qty, entry, quote) \in Int
  BY DEF Gain

\* A new tracker holds its capital in cash.
LEMMA NewPortfolioBalanced == IsPortfolio(NewPortfolio) /\ Balanced(NewPortfolio)
<1> PICK p : p = NewPortfolio
  OBVIOUS
<1>1. /\ p = [cash |-> InitialCapital, pos |-> [s \in Symbols |-> {}],
              gross |-> 0, fees |-> 0, peak |-> InitialCapital]
      /\ InitialCapital \in Int
  BY PortfolioAssumption DEF NewPortfolio
<1>2. IsPortfolio(p)
  BY <1>1 DEF IsPortfolio
<1>3. HeldCost(p) = 0
  <2>1. PICK g : Adds(g, CostIn(p), Symbols) /\ HeldCost(p) = g[Held(p)]
    BY <1>2, HeldCostAdds
  <2>2. Held(p) = {}
    BY <1>1 DEF Held
  <2> QED
    BY <2>1, <2>2 DEF Adds
<1> QED
  BY <1>1, <1>2, <1>3 DEF Balanced

\* open_position: the cost of the fill moves from the cash into the position.
LEMMA OpenedBalanced ==
    ASSUME NEW p, IsPortfolio(p), Balanced(p), NEW s \in Symbols, p.pos[s] = {},
           NEW side, NEW qty \in Int, NEW quote \in Int, NEW fee \in Int
    PROVE  LET q == Opened(p, s, side, qty, quote, fee) IN IsPortfolio(q) /\ Balanced(q)
<1> PICK q : q = Opened(p, s, side, qty, quote, fee)
  OBVIOUS
<1> PICK x : x = [side |-> side, qty |-> qty, entry |-> quote, price |-> quote]
  OBVIOUS
<1>0. PICK c \in Int : c = qty * quote
  OBVIOUS
<1>2. /\ q = [cash |-> p.cash - c - fee, pos |-> [p.pos EXCEPT ![s] = {x}],
              gross |-> p.gross, fees |-> p.fees + fee, peak |-> p.peak]
  BY <1>0 DEF IsPortfolio, Opened
<1>3. IsPosition(x)
  BY DEF IsPosition
<1>4. /\ \A r \in Symbols \ {s} : p.pos[r] = q.pos[r]
      /\ q.pos[s] = {x} /\ q.pos = [r \in Symbols |-> q.pos[r]]
  <2>1. p.pos = [r \in Symbols |-> p.pos[r]]
    BY DEF IsPortfolio
  <2>2. q.pos = [p.pos EXCEPT ![s] = {x}]
    BY <1>2
  <2> QED
    BY <2>1, <2>2, PositionReplaced
<1>5. IsPortfolio(q)
  <2>1. ASSUME NEW r \in Symbols, NEW y \in q.pos[r] PROVE IsPosition(y) /\ q.pos[r] = {y}
    <3>1. CASE r = s
      BY <1>3, <1>4, <3>1
    <3>2. CASE r # s
      BY <1>4, <3>2 DEF IsPortfolio
    <3> QED
      BY <3>1, <3>2
  <2>2. q.cash \in Int /\ q.gross \in Int /\ q.fees \in Int
    BY <1>2 DEF IsPortfolio
  <2>3. q = [cash |-> q.cash, pos |-> q.pos, gross |-> q.gross, fees |-> q.fees, peak |-> q.peak]
    BY <1>2
  <2> QED
    BY <1>4, <2>1, <2>2, <2>3 DEF IsPortfolio
<1>6. Position(q, s) = x
  BY <1>4 DEF Position
<1>7. HeldCost(q) = HeldCost(p) + c
  <2>1. HeldCost(q) = HeldCost(p) + Position(q, s).qty * Position(q, s).entry
    BY <1>4, <1>5, CostWith
  <2> QED
    BY <1>0, <1>6, <2>1
<1>8. HeldCost(p) \in Int
  BY HeldCostAdds
<1>9. /\ q.cash = p.cash - c - fee /\ q.gross = p.gross /\ q.fees = p.fees + fee
      /\ p.cash \in Int /\ p.gross \in Int /\ p.fees \in Int /\ InitialCapital \in Int
  BY <1>2, PortfolioAssumption DEF IsPortfolio
<1>10. Balanced(q)
  <2>1. p.cash + HeldCost(p) = InitialCapital + p.gross - p.fees
    BY DEF Balanced
  <2>2. (p.cash - c - fee) + (HeldCost(p) + c) = InitialCapital + p.gross - (p.fees + fee)
    BY <1>8, <1>9, <2>1
  <2> QED
    BY <1>7, <1>9, <2>2 DEF Balanced
<1> QED
  BY <1>5, <1>10

\* close_position: the cost of the entry comes back with the gross profit, which is
\* booked as realized.
LEMMA ClosedBalanced ==
    ASSUME NEW p, IsPortfolio(p), Balanced(p), NEW s \in Symbols, p.pos[s] # {},
           NEW quote \in Int, NEW fee \in Int
    PROVE  LET q == Closed(p, s, quote, fee) IN IsPortfolio(q) /\ Balanced(q)
<1> PICK q : q = Closed(p, s, quote, fee)
  OBVIOUS
<1> PICK x : x = Position(p, s)
  OBVIOUS
<1> PICK c : c = x.qty * x.entry
  OBVIOUS
<1> PICK w : w = Gain(x.side, x.qty, x.entry, quote)
  OBVIOUS
<1>1. x.qty \in Int /\ x.entry \in Int
  BY PositionHeld DEF IsPosition
<1>2. c \in Int /\ w \in Int
  BY <1>1, GainType
<1>3. /\ q = [cash |-> p.cash + c + w - fee, pos |-> [p.pos EXCEPT ![s] = {}],
              gross |-> p.gross + w, fees |-> p.fees + fee, peak |-> p.peak]
  BY DEF IsPortfolio, Closed
<1>4. /\ \A r \in Symbols \ {s} : q.pos[r] = p.pos[r]
      /\ q.pos[s] = {} /\ q.pos = [r \in Symbols |-> q.pos[r]]
  <2>1. p.pos = [r \in Symbols |-> p.pos[r]]
    BY DEF IsPortfolio
  <2>2. q.pos = [p.pos EXCEPT ![s] = {}]
    BY <1>3
  <2> QED
    BY <2>1, <2>2, PositionReplaced
<1>5. IsPortfolio(q)
  <2>1. ASSUME NEW r \in Symbols, NEW y \in q.pos[r] PROVE IsPosition(y) /\ q.pos[r] = {y}
    BY <1>4 DEF IsPortfolio
  <2>2. q.cash \in Int /\ q.gross \in Int /\ q.fees \in Int
    BY <1>2, <1>3 DEF IsPortfolio
  <2>3. q = [cash |-> q.cash, pos |-> q.pos, gross |-> q.gross, fees |-> q.fees, peak |-> q.peak]
    BY <1>3
  <2> QED
    BY <1>4, <2>1, <2>2, <2>3 DEF IsPortfolio
<1>6. HeldCost(p) = HeldCost(q) + c
  BY <1>4, <1>5, CostWith
<1>7. HeldCost(p) \in Int /\ HeldCost(q) \in Int
  BY <1>5, HeldCostAdds
<1>8. /\ q.cash = p.cash + c + w - fee /\ q.gross = p.gross + w /\ q.fees = p.fees + fee
      /\ p.cash \in Int /\ p.gross \in Int /\ p.fees \in Int /\ InitialCapital \in Int
  BY <1>3, PortfolioAssumption DEF IsPortfolio
<1>9. Balanced(q)
  BY <1>2, <1>6, <1>7, <1>8 DEF Balanced
<1> QED
  BY <1>5, <1>9

\* mark_to_market: no mark moves money.
LEMMA MarkedBalanced ==
    ASSUME NEW p, IsPortfolio(p), Balanced(p), NEW s \in Symbols, NEW quote \in Int
    PROVE  LET q == MarkedToMarket(p, s, quote) IN IsPortfolio(q) /\ Balanced(q)
<1> PICK q : q = MarkedToMarket(p, s, quote)
  OBVIOUS
<1> DEFINE marked == {[x EXCEPT !.price = quote] : x \in p.pos[s]}
<1>1. /\ q = [cash |-> p.cash, pos |-> [p.pos EXCEPT ![s] = marked],
              gross |-> p.gross, fees |-> p.fees, peak |-> q.peak]
  BY DEF IsPortfolio, MarkedToMarket
<1>2. /\ \A r \in Symbols \ {s} : q.pos[r] = p.pos[r]
      /\ q.pos[s] = marked /\ q.pos = [r \in Symbols |-> q.pos[r]]
  <2> HIDE DEF marked
  <2> QED
    BY <1>1 DEF IsPortfolio
<1>3. p.pos[s] = {} => marked = {}
  OBVIOUS
<1>4. ASSUME p.pos[s] # {}
      PROVE  LET x == Position(p, s)
                 y == [side |-> x.side, qty |-> x.qty, entry |-> x.entry, price |-> quote]
             IN  marked = {y} /\ IsPosition(y)
  <2> PICK x : x = Position(p, s)
    OBVIOUS
  <2>1. p.pos[s] = {x} /\ IsPosition(x)
    BY <1>4, PositionHeld
  <2>2. [x EXCEPT !.price = quote] =
          [side |-> x.side, qty |-> x.qty, entry |-> x.entry, price |-> quote]
    BY <2>1 DEF IsPosition
  <2>3. IsPosition([side |-> x.side, qty |-> x.qty, entry |-> x.entry, price |-> quote])
    BY <2>1 DEF IsPosition
  <2> QED
    BY <2>1, <2>2, <2>3
<1> HIDE DEF marked
<1>5. IsPortfolio(q)
  <2>1. ASSUME NEW r \in Symbols, NEW y \in q.pos[r] PROVE IsPosition(y) /\ q.pos[r] = {y}
    <3>1. CASE r = s
      BY <1>2, <1>3, <1>4, <3>1
    <3>2. CASE r # s
      BY <1>2, <3>2 DEF IsPortfolio
    <3> QED
      BY <3>1, <3>2
  <2>2. q.cash \in Int /\ q.gross \in Int /\ q.fees \in Int
    BY <1>1 DEF IsPortfolio
  <2>3. q = [cash |-> q.cash, pos |-> q.pos, gross |-> q.gross, fees |-> q.fees, peak |-> q.peak]
    BY <1>1
  <2> QED
    BY <1>2, <2>1, <2>2, <2>3 DEF IsPortfolio
<1>6. ASSUME NEW r \in Symbols
      PROVE  /\ p.pos[r] = {} <=> q.pos[r] = {}
             /\ p.pos[r] # {} => /\ Position(p, r).qty = Position(q, r).qty
                                 /\ Position(p, r).entry = Position(q, r).entry
  <2>1. CASE r # s
    BY <1>2, <2>1 DEF Position
  <2>2. CASE r = s /\ p.pos[s] = {}
    BY <1>2, <1>3, <2>2
  <2>3. CASE r = s /\ p.pos[s] # {}
    <3> PICK x : x = Position(p, s)
      OBVIOUS
    <3> PICK y : y = [side |-> x.side, qty |-> x.qty, entry |-> x.entry, price |-> quote]
      OBVIOUS
    <3>1. q.pos[s] = {y}
      BY <1>2, <1>4, <2>3
    <3>2. Position(q, s) = y
      BY <3>1 DEF Position
    <3> QED
      BY <2>3, <3>1, <3>2
  <2> QED
    BY <2>1, <2>2, <2>3
<1>7. HeldCost(q) = HeldCost(p)
  BY <1>5, <1>6, CostOfSame
<1>8. q.cash = p.cash /\ q.gross = p.gross /\ q.fees = p.fees
  BY <1>1
<1> QED
  BY <1>5, <1>7, <1>8 DEF Balanced

\* A sum over part of a set is that of the part alone.
LEMMA AddsWithin ==
    ASSUME NEW S, IsFiniteSet(S), NEW w \in [S -> Int], NEW g, Adds(g, w, S),
           NEW H \in SUBSET S, NEW v \in [H -> Int], \A x \in H : v[x] = w[x],
           NEW h, Adds(h, v, H)
    PROVE  h[H] = g[H]
<1> DEFINE k == [T \in SUBSET H |-> g[T]]
<1>1. Adds(k, v, H)
  <2>1. ASSUME NEW T \in SUBSET H
        PROVE  k[T] = IF T = {} THEN 0 ELSE v[Pick(T)] + k[T \ {Pick(T)}]
    <3>1. CASE T = {}
      BY <3>1 DEF Adds
    <3>2. CASE T # {}
      <4>1. Pick(T) \in T /\ T \in SUBSET S /\ T \ {Pick(T)} \in SUBSET H
        BY <3>2 DEF Pick
      <4>2. g[T] = w[Pick(T)] + g[T \ {Pick(T)}]
        BY <3>2, <4>1 DEF Adds
      <4> QED
        BY <3>2, <4>1, <4>2
    <3> QED
      BY <3>1, <3>2
  <2>2. k = [T \in SUBSET H |-> k[T]]
    OBVIOUS
  <2> HIDE DEF k
  <2> QED
    BY <2>1, <2>2 DEF Adds
<1>2. IsFiniteSet(H)
  BY FS_Subset
<1>3. k[H] = h[H]
  <2> HIDE DEF k
  <2> QED
    BY <1>1, <1>2, AddsSame
<1> QED
  BY <1>3

\* The book value of the positions is what they cost;
LEMMA BookValue ==
    ASSUME NEW p, IsPortfolio(p)
    PROVE  SumOfPositions(p, LAMBDA x : x.qty * x.entry) = HeldCost(p)
<1> DEFINE H == Held(p)
           v == [s \in H |-> Position(p, s).qty * Position(p, s).entry]
           Iter(h) == h = [t \in SUBSET H |->
                             IF t = {} THEN 0
                             ELSE Position(p, Pick(t)).qty * Position(p, Pick(t)).entry
                                  + h[t \ {Pick(t)}]]
<1>1. PICK g : Adds(g, CostIn(p), Symbols) /\ HeldCost(p) = g[H]
  BY HeldCostAdds
<1>2. H \in SUBSET Symbols /\ IsFiniteSet(Symbols) /\ IsFiniteSet(H)
  BY PortfolioAssumption, FS_Subset DEF Held
<1>3. CostIn(p) \in [Symbols -> Int] /\ \A s \in H : v[s] = CostIn(p)[s]
  BY <1>2, CostInType DEF CostIn, Held
<1>4. v \in [H -> Int]
  BY <1>2, <1>3
<1>5. \A h : Iter(h) <=> Adds(h, v, H)
  BY DEF Adds, Pick
<1>6. SumOfPositions(p, LAMBDA x : x.qty * x.entry) = (CHOOSE h : Iter(h))[H]
  BY DEF SumOfPositions, MapThenSumSet, MapThenFoldSet, Pick
<1> HIDE DEF Iter, v, H
<1>7. \E h : Iter(h)
  BY <1>2, <1>4, <1>5, AddsExists
<1>8. PICK k : k = CHOOSE h : Iter(h)
  OBVIOUS
<1>9. Adds(k, v, H)
  BY <1>5, <1>7, <1>8
<1>10. k[H] = g[H]
  BY <1>1, <1>2, <1>3, <1>4, <1>9, AddsWithin
<1> QED
  BY <1>1, <1>6, <1>8, <1>10

\* and so is the cost basis of the longs while there is no short.
LEMMA LongBasis ==
    ASSUME NEW p, IsPortfolio(p), \A s \in Symbols : \A x \in p.pos[s] : x.side = "BUY"
    PROVE  SumOfPositions(p, LAMBDA x : IF x.side = "BUY" THEN x.qty * x.entry ELSE 0) = HeldCost(p)
<1> DEFINE H == Held(p)
           v == [s \in H |-> IF Position(p, s).side = "BUY"
                             THEN Position(p, s).qty * Position(p, s).entry ELSE 0]
           Iter(h) == h = [t \in SUBSET H |->
                             IF t = {} THEN 0
                             ELSE (IF Position(p, Pick(t)).side = "BUY"
                                   THEN Position(p, Pick(t)).qty * Position(p, Pick(t)).entry ELSE 0)
                                  + h[t \ {Pick(t)}]]
<1>1. PICK g : Adds(g, CostIn(p), Symbols) /\ HeldCost(p) = g[H]
  BY HeldCostAdds
<1>2. H \in SUBSET Symbols /\ IsFiniteSet(Symbols) /\ IsFiniteSet(H)
  BY PortfolioAssumption, FS_Subset DEF Held
<1>3. CostIn(p) \in [Symbols -> Int] /\ \A s \in H : v[s] = CostIn(p)[s]
  <2>1. ASSUME NEW s \in H PROVE Position(p, s).side = "BUY"
    <3>1. s \in Symbols /\ p.pos[s] # {}
      BY DEF Held
    <3>2. Position(p, s) \in p.pos[s]
      BY <3>1 DEF Position
    <3> QED
      BY <3>1, <3>2
  <2> QED
    BY <1>2, <2>1, CostInType DEF CostIn, Held
<1>4. v \in [H -> Int]
  BY <1>2, <1>3
<1>5. \A h : Iter(h) <=> Adds(h, v, H)
  BY DEF Adds, Pick
<1>6. SumOfPositions(p, LAMBDA x : IF x.side = "BUY" THEN x.qty * x.entry ELSE 0)
        = (CHOOSE h : Iter(h))[H]
  BY DEF SumOfPositions, MapThenSumSet, MapThenFoldSet, Pick
<1> HIDE DEF Iter, v, H
<1>7. \E h : Iter(h)
  BY <1>2, <1>4, <1>5, AddsExists
<1>8. PICK k : k = CHOOSE h : Iter(h)
  OBVIOUS
<1>9. Adds(k, v, H)
  BY <1>5, <1>7, <1>8
<1>10. k[H] = g[H]
  BY <1>1, <1>2, <1>3, <1>4, <1>9, AddsWithin
<1> QED
  BY <1>1, <1>6, <1>8, <1>10

-----------------------------------------------------------------------------
(***************************************************************************)
(* The accounts over a replay.                                              *)
(***************************************************************************)

AccountsInv == IsPortfolio(portfolio) /\ Balanced(portfolio)

\* A callback under way is for an event, which is a bar of the series.
LEMMA EventType ==
    ASSUME ClockInv, turn # "none"
    PROVE  engine # None /\ Event \in Bars
<1>1. engine # None
  BY DEF ClockInv
<1>2. /\ engine.events \in Seq(Bars) /\ index \in 0 .. Len(engine.events) /\ index > 0
  BY <1>1 DEF ClockInv, EventsOf
<1>3. index \in 1 .. Len(engine.events)
  BY <1>2
<1> QED
  BY <1>1, <1>2, <1>3 DEF Event

LEMMA InitialAccounts == Init => AccountsInv
  BY NewPortfolioBalanced DEF Init, AccountsInv

LEMMA NextAccounts == ClockInv /\ AccountsInv /\ [Next]_vars => AccountsInv'
<1> SUFFICES ASSUME ClockInv, AccountsInv, [Next]_vars
             PROVE  AccountsInv'
  OBVIOUS
<1>1. IsPortfolio(portfolio) /\ Balanced(portfolio)
  BY DEF AccountsInv
<1>2. CASE UNCHANGED portfolio
  BY <1>1, <1>2 DEF AccountsInv
<1>3. Fee \in Int /\ Slippage \in Int
  BY ReplayAssumption
<1>4. turn # "none" => Event.symbol \in Symbols /\ Event.close \in Int
  BY EventType, BarType
<1>5. CASE Mark
  <2>1. turn # "none" /\ portfolio' = MarkedToMarket(portfolio, Event.symbol, Event.close)
    BY <1>5 DEF Mark
  <2> QED
    BY <1>1, <1>4, <2>1, MarkedBalanced DEF AccountsInv
<1>6. ASSUME NEW side \in {"BUY", "SELL"}, NEW qty \in Quantities, Open(side, qty)
      PROVE  AccountsInv'
  <2> DEFINE quote == IF side = "BUY" THEN Event.close + Slippage ELSE Event.close - Slippage
  <2>1. /\ turn # "none" /\ portfolio.pos[Event.symbol] = {}
        /\ portfolio' = Opened(portfolio, Event.symbol, side, qty, quote, Fee)
    BY <1>6 DEF Open, CallStrategy, CanOpen
  <2>2. quote \in Int /\ qty \in Int
    BY <1>3, <1>4, <2>1, ReplayAssumption
  <2> HIDE DEF quote
  <2> QED
    BY <1>1, <1>3, <1>4, <2>1, <2>2, OpenedBalanced DEF AccountsInv
<1>7. CASE Close
  <2>1. turn # "none"
    BY <1>7 DEF Close, CallStrategy
  <2>2. PICK x \in portfolio.pos[Event.symbol] :
          portfolio' = Closed(portfolio, Event.symbol,
                              IF x.side = "BUY" THEN Event.close - Slippage
                              ELSE Event.close + Slippage, Fee)
    BY <1>7 DEF Close
  <2> DEFINE quote == IF x.side = "BUY" THEN Event.close - Slippage ELSE Event.close + Slippage
  <2>3. quote \in Int
    BY <1>3, <1>4, <2>1
  <2>4. portfolio' = Closed(portfolio, Event.symbol, quote, Fee)
    BY <2>2
  <2> HIDE DEF quote
  <2> QED
    BY <1>1, <1>3, <1>4, <2>1, <2>2, <2>3, <2>4, ClosedBalanced DEF AccountsInv
<1>8. CASE Reset
  BY <1>8, NewPortfolioBalanced DEF Reset, NewTrader, AccountsInv
<1> QED
  BY <1>2, <1>5, <1>6, <1>7, <1>8
  DEF Next, Construct, RunReplay, Step, Wait, vars, traderVars

LEMMA AccountsInvariant == Spec => []AccountsInv
<1>1. ClockInv /\ BuffersInv => ClockInv
  OBVIOUS
<1> QED
  BY <1>1, ReplayInvariant, InitialAccounts, NextAccounts, PTL DEF Spec

\* PortfolioTracker: over any sequence of trades, at any prices, fees and slippage, and
\* over any number of restarts, the equity of a portfolio without a short position is the
\* capital with the realized and the unrealized profit and without the fees, and the
\* tracker's own check agrees.
THEOREM EquityIsExplained == Spec => []EquityExplained
<1>1. AccountsInv => EquityExplained
  <2> SUFFICES ASSUME AccountsInv, \A s \in Symbols : \A x \in portfolio.pos[s] : x.side = "BUY"
               PROVE  /\ Equity(portfolio) =
                           InitialCapital + portfolio.gross - portfolio.fees + Unrealized(portfolio)
                      /\ IntegrityHolds(portfolio)
    BY DEF EquityExplained
  <2>1. IsPortfolio(portfolio) /\ Balanced(portfolio)
    BY DEF AccountsInv
  <2>2. Equity(portfolio) = portfolio.cash + HeldCost(portfolio) + Unrealized(portfolio)
    BY <2>1, LongBasis DEF Equity
  <2>3. portfolio.cash + HeldCost(portfolio) = InitialCapital + portfolio.gross - portfolio.fees
    BY <2>1 DEF Balanced
  <2>4. SumOfPositions(portfolio, LAMBDA x : x.qty * x.entry) = HeldCost(portfolio)
    BY <2>1, BookValue
  <2>5. IntegrityHolds(portfolio)
    BY <2>2, <2>4 DEF IntegrityHolds
  <2> QED
    BY <2>2, <2>3, <2>5, Zenon
<1> QED
  BY <1>1, AccountsInvariant, PTL

-----------------------------------------------------------------------------
(***************************************************************************)
(* The breakout strategy.                                                   *)
(***************************************************************************)

\* The first RangeBars members of a set of numbers.
Opening(T) == {i \in T : Cardinality({j \in T : j < i}) < RangeBars}

\* They are as many, if the set has as many;
LEMMA OpeningFull ==
    ASSUME NEW T \in SUBSET Nat, IsFiniteSet(T), Cardinality(T) >= RangeBars
    PROVE  Cardinality(Opening(T)) = RangeBars
<1> DEFINE K == Cardinality(T)
           R == {ij \in T \X T : ij[1] < ij[2]}
           Below(i) == Cardinality({j \in T : j < i})
<1>0. K \in Nat /\ RangeBars \in Nat /\ K >= RangeBars
  BY FS_CardinalityType, StrategyAssumption
<1>1. StrictOrder(R, T)
  <2>1. \A i, j \in T : <<i, j>> \in R <=> i < j
    OBVIOUS
  <2> HIDE DEF R
  <2> QED
    BY <2>1 DEF StrictOrder
<1>2. PICK q \in [1 .. K -> T] :
              /\ \A n \in 1 .. K : \A i \in T : PlaceIn(R, T, i) = n <=> i = q[n]
              /\ \A i \in T : PlaceIn(R, T, i) \in 1 .. K
              /\ \A m, n \in 1 .. K : m < n => <<q[m], q[n]>> \in R
  <2> HIDE DEF R
  <2> QED
    BY <1>1, Enumerated
<1>3. \A i \in T : PlaceIn(R, T, i) = Below(i) + 1 /\ Below(i) \in Nat
  <2> SUFFICES ASSUME NEW i \in T
               PROVE  PlaceIn(R, T, i) = Below(i) + 1 /\ Below(i) \in Nat
    OBVIOUS
  <2>1. {j \in T : <<j, i>> \in R} = {j \in T : j < i}
    OBVIOUS
  <2>2. IsFiniteSet({j \in T : j < i})
    BY FS_Subset
  <2> QED
    BY <2>1, <2>2, FS_CardinalityType DEF PlaceIn
<1> HIDE DEF R, Below, K
<1> DEFINE h == [n \in 1 .. RangeBars |-> q[n]]
<1>4. \A n \in 1 .. RangeBars : n \in 1 .. K
  BY <1>0
<1>5. ASSUME NEW n \in 1 .. RangeBars PROVE h[n] \in Opening(T)
  <2>1. q[n] \in T /\ Below(q[n]) + 1 = n /\ Below(q[n]) \in Nat
    BY <1>2, <1>3, <1>4
  <2>2. Below(q[n]) < RangeBars
    BY <1>0, <2>1
  <2> QED
    BY <2>1, <2>2 DEF Opening, Below
<1>6. ASSUME NEW m \in 1 .. RangeBars, NEW n \in 1 .. RangeBars, h[m] = h[n] PROVE m = n
  BY <1>2, <1>4, <1>6
<1>7. ASSUME NEW i \in Opening(T) PROVE \E n \in 1 .. RangeBars : h[n] = i
  <2>1. i \in T /\ Below(i) < RangeBars
    BY DEF Opening, Below
  <2>2. Below(i) + 1 \in 1 .. RangeBars
    BY <1>0, <1>3, <2>1
  <2>3. q[Below(i) + 1] = i
    BY <1>2, <1>3, <1>4, <2>1, <2>2
  <2> QED
    BY <2>2, <2>3
<1>8. h \in Bijection(1 .. RangeBars, Opening(T))
  <2>1. h \in [1 .. RangeBars -> Opening(T)]
    BY <1>5
  <2> HIDE DEF h
  <2> QED
    BY <1>6, <1>7, <2>1, Fun_IsBij
<1> HIDE DEF h
<1>9. ExistsBijection(1 .. RangeBars, Opening(T))
  BY <1>8, Fun_ExistsBij
<1>10. IsFiniteSet(1 .. RangeBars) /\ Cardinality(1 .. RangeBars) = RangeBars
  BY <1>0, FS_Interval
<1> QED
  BY <1>9, <1>10, FS_Bijection

\* and a greater number is one of them only as long as they are fewer.
LEMMA OpeningGrows ==
    ASSUME NEW T \in SUBSET Nat, IsFiniteSet(T), NEW n \in Nat, \A i \in T : i < n
    PROVE  /\ Cardinality(T) < RangeBars => Opening(T) = T
           /\ Cardinality(T) >= RangeBars => Opening(T \cup {n}) = Opening(T)
           /\ T \cup {n} \in SUBSET Nat /\ IsFiniteSet(T \cup {n})
           /\ Cardinality(T \cup {n}) = Cardinality(T) + 1
<1> DEFINE N == Cardinality(T)
           U == T \cup {n}
           Below(i) == Cardinality({j \in T : j < i})
           Under(i) == Cardinality({j \in U : j < i})
<1>0. N \in Nat /\ RangeBars \in Nat
  BY FS_CardinalityType, StrategyAssumption
<1>1. \A i \in T : i \in Nat /\ i < n /\ ~ (n < i)
  OBVIOUS
<1>2. \A i \in T : Below(i) \in Nat /\ Below(i) <= N
  <2> SUFFICES ASSUME NEW i \in T PROVE Below(i) \in Nat /\ Below(i) <= N
    OBVIOUS
  <2>1. {j \in T : j < i} \in SUBSET T
    OBVIOUS
  <2> QED
    BY <2>1, FS_Subset, FS_CardinalityType
<1>3. \A i \in T : Under(i) = Below(i)
  <2> SUFFICES ASSUME NEW i \in T PROVE {j \in U : j < i} = {j \in T : j < i}
    OBVIOUS
  <2> QED
    BY <1>1
<1>4. Under(n) = N /\ n \notin T
  <2>1. ~ (n < n)
    OBVIOUS
  <2>2. {j \in U : j < n} = T /\ n \notin T
    BY <1>1, <2>1, Zenon
  <2> QED
    BY <2>2
<1>5. Opening(T) = {i \in T : Below(i) < RangeBars} /\ Opening(U) = {i \in U : Under(i) < RangeBars}
  BY DEF Opening
<1>6. U \in SUBSET Nat /\ IsFiniteSet(U) /\ Cardinality(U) = N + 1
  BY <1>4, FS_AddElement
<1> HIDE DEF Below, Under, N
<1>7. N < RangeBars => Opening(T) = T
  <2>1. N < RangeBars => \A i \in T : Below(i) < RangeBars
    BY <1>0, <1>2
  <2> QED
    BY <1>5, <2>1
<1>8. N >= RangeBars => Opening(U) = Opening(T)
  <2>1. N >= RangeBars => ~ (Under(n) < RangeBars)
    BY <1>0, <1>4
  <2> QED
    BY <1>3, <1>5, <2>1
<1> QED
  BY <1>6, <1>7, <1>8 DEF N

DayOfEvent(events, i) == DayUtc(events[i].time)

\* The events of a day among the first n.
SameDay(events, n, day) == {i \in 1 .. n : DayOfEvent(events, i) = day}

\* Events in order of time, as an engine has them.
InOrderOfTime(events) ==
    /\ events \in Seq(Bars)
    /\ \A m, n \in 1 .. Len(events) : m < n => events[m].time <= events[n].time

\* The events of the day of the next event are those so far and that event.
LEMMA NextOfDay ==
    ASSUME NEW events, NEW n \in Nat
    PROVE  LET day == DayOfEvent(events, n + 1)
               T == SameDay(events, n, day)
           IN  /\ T \in SUBSET Nat /\ IsFiniteSet(T) /\ Cardinality(T) \in Nat
               /\ \A i \in T : i < n + 1
               /\ SameDay(events, n + 1, day) = T \cup {n + 1}
<1> DEFINE day == DayOfEvent(events, n + 1)
           T == SameDay(events, n, day)
<1>1. IsFiniteSet(1 .. n) /\ 1 .. n \in SUBSET Nat
  BY FS_Interval
<1>2. T \in SUBSET (1 .. n)
  BY DEF SameDay
<1>3. SameDay(events, n + 1, day) = T \cup {n + 1}
  BY DEF SameDay
<1> HIDE DEF T
<1>4. IsFiniteSet(T) /\ Cardinality(T) \in Nat
  BY <1>1, <1>2, FS_Subset, FS_CardinalityType
<1> QED
  BY <1>1, <1>2, <1>3, <1>4 DEF T

\* After an event of another day no event so far is of the day of the next.
LEMMA NewDay ==
    ASSUME NEW events, InOrderOfTime(events), NEW n \in Nat \ {0}, n + 1 \in 1 .. Len(events),
           DayOfEvent(events, n) # DayOfEvent(events, n + 1)
    PROVE  SameDay(events, n, DayOfEvent(events, n + 1)) = {}
<1>1. Len(events) \in Nat
  BY DEF InOrderOfTime
<1>2. \A i \in 1 .. n + 1 : events[i].time \in Nat
  BY <1>1, BarType DEF InOrderOfTime
<1>3. events[n].time <= events[n + 1].time
  BY <1>1 DEF InOrderOfTime
<1>4. events[n].time \div 96 # events[n + 1].time \div 96
  BY DEF DayOfEvent, DayUtc
<1>5. ASSUME NEW i \in 1 .. n PROVE events[i].time \div 96 # events[n + 1].time \div 96
  <2>1. events[i].time <= events[n].time
    <3>1. CASE i = n
      BY <1>2, <3>1
    <3>2. CASE i # n
      BY <1>1, <3>2 DEF InOrderOfTime
    <3> QED
      BY <3>1, <3>2
  <2>2. events[i].time \in Nat /\ events[n].time \in Nat /\ events[n + 1].time \in Nat
    BY <1>2
  <2> QED
    BY <1>3, <1>4, <2>1, <2>2
<1> QED
  BY <1>5 DEF SameDay, DayOfEvent, DayUtc

IsMemory(m) ==
    /\ m = [day |-> m.day, count |-> m.count, high |-> m.high, low |-> m.low,
            taken |-> m.taken, entered |-> m.entered]
    /\ m.taken \in BOOLEAN /\ m.high \in Nat /\ m.count \in Nat

\* What the strategy remembers of the events of a day among the first n: how many they
\* are, and a price no opening bar is above.
Remembers(m, events, n, day) ==
    LET today == SameDay(events, n, day)
    IN  /\ IsMemory(m)
        /\ m.day = day
        /\ m.count = Cardinality(today)
        /\ \A i \in Opening(today) : events[i].high <= m.high

RangeOf(m, events, n) ==
    /\ n = 0 => m = NewMemory
    /\ n > 0 => Remembers(m, events, n, DayOfEvent(events, n))

\* The opening range of the day of an event is complete before it, and it closes above.
AboveRange(events, at) ==
    LET opening == Opening(SameDay(events, at - 1, DayOfEvent(events, at)))
    IN  /\ Cardinality(opening) = RangeBars
        /\ \A i \in opening : events[at].close > events[i].high

\* The entries so far are breakouts, one a day, and one of today is remembered.
EntriesOf(ats, m, events, n) ==
    /\ ats \in Seq(1 .. n)
    /\ \A k \in 1 .. Len(ats) :
         /\ AboveRange(events, ats[k])
         /\ DayOfEvent(events, ats[k]) = m.day => m.taken
         /\ \A l \in 1 .. Len(ats) :
              l # k => DayOfEvent(events, ats[l]) # DayOfEvent(events, ats[k])

LEMMA NewMemoryType == IsMemory(NewMemory)
  BY DEF IsMemory, NewMemory

\* A session begins with what there is of the day: all that is remembered, or nothing.
LEMMA SessionRemembers ==
    ASSUME NEW events, InOrderOfTime(events), NEW n \in Nat, n + 1 \in 1 .. Len(events),
           NEW m, RangeOf(m, events, n)
    PROVE  LET day == DayOfEvent(events, n + 1)
               s == Session(m, events[n + 1])
           IN  /\ Remembers(s, events, n, day)
               /\ m.day = day => s = m
               /\ m.day # day => s.taken = FALSE /\ SameDay(events, n, day) = {}
<1> DEFINE event == events[n + 1]
           day == DayOfEvent(events, n + 1)
           s == Session(m, event)
<1>1. event.time \in Nat /\ day \in Nat
  BY BarType DEF InOrderOfTime, DayOfEvent, DayUtc
<1>2. CASE m.day = day
  <2>1. s = m
    BY <1>2 DEF Session, DayOfEvent
  <2>2. n > 0
    BY <1>1, <1>2, StrategyAssumption DEF RangeOf, NewMemory
  <2>3. DayOfEvent(events, n) = day
    BY <1>2, <2>2 DEF RangeOf, Remembers
  <2> HIDE DEF s, day
  <2> QED
    BY <1>2, <2>1, <2>2, <2>3 DEF RangeOf, s, day
<1>3. CASE m.day # day
  <2>1. s = [NewMemory EXCEPT !.day = day]
    BY <1>3 DEF Session, DayOfEvent
  <2>2. SameDay(events, n, day) = {}
    <3>1. CASE n = 0
      BY <3>1 DEF SameDay
    <3>2. CASE n # 0
      <4>1. DayOfEvent(events, n) # day
        BY <1>3, <3>2 DEF RangeOf, Remembers
      <4> QED
        BY <3>2, <4>1, NewDay
    <3> QED
      BY <3>1, <3>2
  <2>3. IsMemory(s) /\ s.day = day /\ s.count = 0 /\ s.taken = FALSE
    <3> HIDE DEF s, day
    <3>1. s = [day |-> day, count |-> 0, high |-> 0, low |-> 0, taken |-> FALSE, entered |-> {}]
      BY <2>1 DEF NewMemory
    <3> QED
      BY <3>1 DEF IsMemory
  <2>4. Opening({}) = {}
    BY DEF Opening
  <2> HIDE DEF s, day
  <2>5. Remembers(s, events, n, day)
    BY <2>2, <2>3, <2>4, FS_EmptySet DEF Remembers
  <2> QED
    BY <1>3, <2>2, <2>3, <2>5 DEF s, day
<1> QED
  BY <1>2, <1>3

\* A call adds the event to what is remembered, and the entry if there was a breakout;
LEMMA BarRemembered ==
    ASSUME NEW events, InOrderOfTime(events), NEW n \in Nat, n + 1 \in 1 .. Len(events),
           NEW m, RangeOf(m, events, n), NEW held \in BOOLEAN
    PROVE  LET event == events[n + 1]
               more == AfterBreakoutBar(m, event, held)
           IN  /\ RangeOf(more, events, n + 1)
               /\ more.taken \in BOOLEAN
               /\ more.taken <=> Session(m, event).taken \/ Breaks(m, event, held)
<1> DEFINE day == DayOfEvent(events, n + 1)
           T == SameDay(events, n, day)
<1> PICK event : event = events[n + 1]
  OBVIOUS
<1> PICK s : s = Session(m, event)
  OBVIOUS
<1> PICK more : more = AfterBreakoutBar(m, event, held)
  OBVIOUS
<1>1. Remembers(s, events, n, day)
  BY SessionRemembers
<1>2. /\ IsMemory(s) /\ s.day = day /\ s.count = Cardinality(T)
      /\ \A i \in Opening(T) : events[i].high <= s.high
  BY <1>1 DEF Remembers
<1>3. /\ T \in SUBSET Nat /\ IsFiniteSet(T) /\ Cardinality(T) \in Nat /\ n + 1 \in Nat
      /\ \A i \in T : i < n + 1 /\ i \in 1 .. Len(events)
      /\ SameDay(events, n + 1, day) = T \cup {n + 1}
  <2>1. \A i \in T : i \in 1 .. Len(events)
    BY DEF SameDay, InOrderOfTime
  <2> QED
    BY <2>1, NextOfDay
<1>4. /\ Cardinality(T) < RangeBars => Opening(T) = T
      /\ Cardinality(T) >= RangeBars => Opening(T \cup {n + 1}) = Opening(T)
      /\ Opening(T \cup {n + 1}) \subseteq T \cup {n + 1}
      /\ Cardinality(T \cup {n + 1}) = Cardinality(T) + 1
  <2>1. Opening(T \cup {n + 1}) \subseteq T \cup {n + 1}
    BY DEF Opening
  <2> HIDE DEF T
  <2> QED
    BY <1>3, <2>1, OpeningGrows
<1>5. event.high \in Nat /\ \A i \in 1 .. Len(events) : events[i].high \in Nat
  BY BarType DEF InOrderOfTime
<1>6. RangeBars \in Nat /\ s.count \in Nat /\ s.high \in Nat /\ s.taken \in BOOLEAN
  BY <1>2, StrategyAssumption DEF IsMemory
<1> HIDE DEF T, day
<1>7. s = [day |-> s.day, count |-> s.count, high |-> s.high, low |-> s.low,
           taken |-> s.taken, entered |-> s.entered]
  BY <1>2 DEF IsMemory
<1>8. CASE s.count < RangeBars
  <2> DEFINE high == IF s.count = 0 \/ event.high > s.high THEN event.high ELSE s.high
  <2>0. FormsRange(m, event)
    BY <1>8 DEF FormsRange
  <2>1. ~ Breaks(m, event, held)
    BY <2>0 DEF Breaks
  <2>2. more = [day |-> s.day, count |-> s.count + 1, high |-> high, low |-> more.low,
                taken |-> s.taken, entered |-> s.entered]
    <3>1. more = [[s EXCEPT !.count = @ + 1] EXCEPT
                     !.high = IF s.count = 0 \/ event.high > @ THEN event.high ELSE @,
                     !.low = IF s.count = 0 \/ event.low < @ THEN event.low ELSE @]
      BY <2>0 DEF AfterBreakoutBar
    <3> QED
      BY <1>7, <3>1
  <2>3. high \in Nat /\ event.high <= high /\ (s.count # 0 => s.high <= high)
    BY <1>5, <1>6
  <2> HIDE DEF high
  <2>4. ASSUME NEW i \in Opening(T \cup {n + 1}) PROVE events[i].high <= high
    <3>1. CASE i = n + 1
      BY <2>3, <3>1
    <3>2. CASE i # n + 1
      <4>1. i \in T /\ i \in Opening(T)
        BY <1>2, <1>4, <1>8, <3>2
      <4>2. s.count # 0
        BY <1>2, <1>3, <4>1, FS_EmptySet
      <4>3. events[i].high <= s.high /\ events[i].high \in Nat
        BY <1>2, <1>3, <1>5, <4>1
      <4> QED
        BY <1>6, <2>3, <4>2, <4>3
    <3> QED
      BY <3>1, <3>2
  <2>5. IsMemory(more)
    BY <1>6, <2>2, <2>3 DEF IsMemory
  <2>6. Remembers(more, events, n + 1, day)
    <3>1. more.day = day /\ more.count = Cardinality(T \cup {n + 1}) /\ more.high = high
      BY <1>2, <1>4, <2>2
    <3> QED
      BY <1>3, <2>4, <2>5, <3>1, Zenon DEF Remembers
  <2>7. RangeOf(more, events, n + 1)
    BY <2>6 DEF RangeOf, day
  <2> QED
    BY <1>6, <2>1, <2>2, <2>7
<1>9. CASE ~ (s.count < RangeBars)
  <2>0. ~ FormsRange(m, event)
    BY <1>9 DEF FormsRange
  <2> DEFINE taken == s.taken \/ Breaks(m, event, held)
  <2>1. more = [day |-> s.day, count |-> s.count + 1, high |-> s.high, low |-> s.low,
                taken |-> taken, entered |-> s.entered]
    <3>1. more = [[s EXCEPT !.count = @ + 1] EXCEPT !.taken = @ \/ Breaks(m, event, held)]
      BY <2>0 DEF AfterBreakoutBar
    <3> QED
      BY <1>7, <3>1
  <2>2. taken \in BOOLEAN
    BY <1>6 DEF Breaks
  <2> HIDE DEF taken
  <2>3. IsMemory(more)
    BY <1>6, <2>1, <2>2 DEF IsMemory
  <2>4. \A i \in Opening(T \cup {n + 1}) : events[i].high <= more.high
    BY <1>2, <1>3, <1>4, <1>6, <1>9, <2>1
  <2>5. Remembers(more, events, n + 1, day)
    <3>1. more.day = day /\ more.count = Cardinality(T \cup {n + 1})
      BY <1>2, <1>4, <2>1
    <3> QED
      BY <1>3, <2>3, <2>4, <3>1, Zenon DEF Remembers
  <2>6. RangeOf(more, events, n + 1)
    BY <2>5 DEF RangeOf, day
  <2>7. more.taken = taken
    BY <2>1
  <2> QED
    BY <2>2, <2>6, <2>7, Zenon DEF taken
<1> QED
  BY <1>6, <1>8, <1>9

\* which is above a complete range, and not on a day with an entry.
LEMMA BreakoutAbove ==
    ASSUME NEW events, InOrderOfTime(events), NEW n \in Nat, n + 1 \in 1 .. Len(events),
           NEW m, RangeOf(m, events, n), NEW held \in BOOLEAN, Breaks(m, events[n + 1], held)
    PROVE  AboveRange(events, n + 1) /\ ~ Session(m, events[n + 1]).taken
<1> DEFINE day == DayOfEvent(events, n + 1)
           T == SameDay(events, n, day)
           event == events[n + 1]
           s == Session(m, event)
<1>1. Remembers(s, events, n, day)
  BY SessionRemembers
<1> HIDE DEF s
<1>2. /\ IsMemory(s) /\ s.count = Cardinality(T)
      /\ \A i \in Opening(T) : events[i].high <= s.high
  BY <1>1 DEF Remembers
<1>3. ~ (s.count < RangeBars) /\ ~ s.taken /\ event.close > s.high
  BY DEF Breaks, FormsRange, s
<1>4. T \in SUBSET Nat /\ IsFiniteSet(T) /\ Cardinality(T) \in Nat
  BY NextOfDay
<1>5. RangeBars \in Nat
  BY StrategyAssumption
<1> HIDE DEF T
<1>6. Cardinality(Opening(T)) = RangeBars
  BY <1>2, <1>3, <1>4, <1>5, OpeningFull
<1>7. ASSUME NEW i \in Opening(T) PROVE event.close > events[i].high
  <2>1. i \in 1 .. Len(events)
    BY DEF Opening, T, SameDay, InOrderOfTime
  <2>2. event \in Bars /\ events[i] \in Bars
    BY <2>1 DEF InOrderOfTime
  <2>3. event.close \in Nat /\ events[i].high \in Nat /\ s.high \in Nat
    BY <1>2, <2>2, BarType DEF IsMemory
  <2>4. events[i].high <= s.high
    BY <1>2
  <2> HIDE DEF event
  <2> QED
    BY <1>3, <2>3, <2>4
<1>8. (n + 1) - 1 = n
  OBVIOUS
<1>9. AboveRange(events, n + 1)
  BY <1>6, <1>7, <1>8 DEF AboveRange, T
<1> QED
  BY <1>3, <1>9 DEF s

\* The entries stay breakouts, one a day, over a call that adds none;
LEMMA EntriesKept ==
    ASSUME NEW events, InOrderOfTime(events), NEW n \in Nat, n + 1 \in 1 .. Len(events),
           NEW m, RangeOf(m, events, n), NEW held \in BOOLEAN,
           NEW ats, EntriesOf(ats, m, events, n)
    PROVE  EntriesOf(ats, AfterBreakoutBar(m, events[n + 1], held), events, n + 1)
<1> DEFINE day == DayOfEvent(events, n + 1)
<1> PICK event : event = events[n + 1]
  OBVIOUS
<1> PICK s : s = Session(m, event)
  OBVIOUS
<1> PICK more : more = AfterBreakoutBar(m, event, held)
  OBVIOUS
<1>1. ats \in Seq(1 .. n + 1) /\ Len(ats) \in Nat /\ \A k \in 1 .. Len(ats) : ats[k] \in 1 .. n
  <2>1. ats \in Seq(1 .. n)
    BY DEF EntriesOf
  <2> QED
    BY <2>1
<1>2. /\ m.day = day => s = m
      /\ m.day # day => SameDay(events, n, day) = {}
  BY SessionRemembers
<1>3. more.day = day /\ (s.taken => more.taken)
  <2>1. RangeOf(more, events, n + 1) /\ (s.taken => more.taken)
    BY BarRemembered
  <2> QED
    BY <2>1 DEF RangeOf, Remembers
<1>4. ASSUME NEW k \in 1 .. Len(ats), DayOfEvent(events, ats[k]) = day PROVE more.taken
  <2>1. ats[k] \in SameDay(events, n, day)
    BY <1>1, <1>4 DEF SameDay
  <2>2. m.day = day /\ s = m
    BY <1>2, <2>1
  <2>3. m.taken
    BY <1>4, <2>2 DEF EntriesOf
  <2> QED
    BY <1>3, <2>2, <2>3
<1> HIDE DEF day
<1>5. EntriesOf(ats, more, events, n + 1)
  BY <1>1, <1>3, <1>4 DEF EntriesOf
<1> QED
  BY <1>5

\* and over one that adds the event it is for.
LEMMA EntryAdded ==
    ASSUME NEW events, InOrderOfTime(events), NEW n \in Nat, n + 1 \in 1 .. Len(events),
           NEW m, RangeOf(m, events, n), NEW held \in BOOLEAN, Breaks(m, events[n + 1], held),
           NEW ats, EntriesOf(ats, m, events, n)
    PROVE  EntriesOf(Append(ats, n + 1), AfterBreakoutBar(m, events[n + 1], held), events, n + 1)
<1> DEFINE day == DayOfEvent(events, n + 1)
<1> PICK event : event = events[n + 1]
  OBVIOUS
<1> PICK s : s = Session(m, event)
  OBVIOUS
<1> PICK more : more = AfterBreakoutBar(m, event, held)
  OBVIOUS
<1> PICK all : all = Append(ats, n + 1)
  OBVIOUS
<1>1. ats \in Seq(1 .. n) /\ Len(ats) \in Nat /\ \A k \in 1 .. Len(ats) : ats[k] \in 1 .. n
  <2>1. ats \in Seq(1 .. n)
    BY DEF EntriesOf
  <2> QED
    BY <2>1
<1>2. /\ all \in Seq(1 .. n + 1) /\ Len(all) = Len(ats) + 1 /\ all[Len(ats) + 1] = n + 1
      /\ \A k \in 1 .. Len(ats) : all[k] = ats[k]
  <2>1. ats \in Seq(1 .. n + 1) /\ n + 1 \in 1 .. n + 1
    BY <1>1
  <2> QED
    BY <2>1
<1>3. AboveRange(events, n + 1) /\ ~ s.taken /\ more.taken
  BY BreakoutAbove, BarRemembered
<1>4. \A k \in 1 .. Len(ats) : AboveRange(events, ats[k])
  BY DEF EntriesOf
<1>5. ASSUME NEW k \in 1 .. Len(ats) PROVE DayOfEvent(events, ats[k]) # day
  <2> SUFFICES ASSUME DayOfEvent(events, ats[k]) = day PROVE FALSE
    OBVIOUS
  <2>1. ats[k] \in SameDay(events, n, day)
    BY <1>1 DEF SameDay
  <2>2. m.day = day /\ s = m
    BY <2>1, SessionRemembers
  <2>3. m.taken
    BY <2>2 DEF EntriesOf
  <2> QED
    BY <1>3, <2>2, <2>3
<1> HIDE DEF day
<1>6. \A k \in 1 .. Len(all) : (k \in 1 .. Len(ats) /\ all[k] = ats[k]) \/ (k = Len(ats) + 1 /\ all[k] = n + 1)
  BY <1>1, <1>2
<1>7. ASSUME NEW k \in 1 .. Len(all), NEW l \in 1 .. Len(all), l # k
      PROVE  DayOfEvent(events, all[l]) # DayOfEvent(events, all[k])
  <2>1. CASE k \in 1 .. Len(ats) /\ l \in 1 .. Len(ats)
    BY <1>2, <1>7, <2>1 DEF EntriesOf
  <2>2. CASE k \in 1 .. Len(ats) /\ all[l] = n + 1
    BY <1>2, <1>5, <2>2 DEF day
  <2>3. CASE l \in 1 .. Len(ats) /\ all[k] = n + 1
    BY <1>2, <1>5, <2>3 DEF day
  <2> QED
    BY <1>6, <1>7, <2>1, <2>2, <2>3
<1>8. \A k \in 1 .. Len(all) : AboveRange(events, all[k])
  BY <1>3, <1>4, <1>6
<1>9. EntriesOf(all, more, events, n + 1)
  BY <1>2, <1>3, <1>7, <1>8 DEF EntriesOf
<1> QED
  BY <1>9

\* The events the strategy has been called with.
Handled == IF turn = "none" THEN index ELSE index - 1

BreakoutInv ==
    kind = "orb" =>
        /\ engine = None => memory = NewMemory /\ entries = <<>>
        /\ engine # None => /\ RangeOf(memory, engine.events, Handled)
                            /\ EntriesOf(entries, memory, engine.events, Handled)

\* A strategy that has been called with nothing has entered nothing.
LEMMA NothingHandled ==
    ASSUME NEW events
    PROVE  RangeOf(NewMemory, events, 0) /\ EntriesOf(<<>>, NewMemory, events, 0)
  BY DEF RangeOf, EntriesOf

\* A call of the strategy, for the event the engine is at.
LEMMA StrategyCalled ==
    ASSUME ClockInv, BreakoutInv, kind = "orb", CallStrategy
    PROVE  /\ engine # None /\ InOrderOfTime(engine.events)
           /\ index - 1 \in Nat /\ (index - 1) + 1 = index /\ index \in 1 .. Len(engine.events)
           /\ RangeOf(memory, engine.events, index - 1)
           /\ EntriesOf(entries, memory, engine.events, index - 1)
           /\ memory' = AfterBreakoutBar(memory, Event, Holding) /\ Holding \in BOOLEAN
           /\ engine' = engine /\ kind' = kind /\ Handled' = index
<1>1. turn = "trade" /\ engine # None
  BY DEF CallStrategy, ClockInv
<1>2. /\ EventsOf(engine.events, bars, engine.config)
      /\ index \in 0 .. Len(engine.events) /\ index > 0
  BY <1>1 DEF ClockInv
<1>3. InOrderOfTime(engine.events) /\ Len(engine.events) \in Nat
  BY <1>2 DEF InOrderOfTime, EventsOf
<1>4. index \in 1 .. Len(engine.events) /\ index - 1 \in Nat /\ (index - 1) + 1 = index
  BY <1>2, <1>3
<1>5. Handled = index - 1
  BY <1>1 DEF Handled
<1>6. memory' = AfterBar(kind, memory, Event, Holding)
  BY DEF CallStrategy
<1>7. memory' = AfterBreakoutBar(memory, Event, Holding)
  BY <1>6 DEF AfterBar
<1>8. engine' = engine /\ kind' = kind /\ Handled' = index
  BY DEF CallStrategy, Handled
<1>9. Holding \in BOOLEAN
  BY DEF Holding
<1> QED
  BY <1>1, <1>3, <1>4, <1>5, <1>7, <1>8, <1>9 DEF BreakoutInv

LEMMA InitialBreakout == Init => BreakoutInv
  BY DEF Init, BreakoutInv

LEMMA NextBreakout == ClockInv /\ BreakoutInv /\ [Next]_vars => BreakoutInv'
<1> SUFFICES ASSUME ClockInv, BreakoutInv, [Next]_vars, kind' = "orb"
             PROVE  BreakoutInv'
  BY DEF BreakoutInv
<1>0. kind = "orb" /\ kind' = kind
  BY ZenonT(30) DEF Next, Construct, RunReplay, Step, Mark, Close, Wait, Open, CallStrategy,
                    Reset, NewTrader, vars, traderVars
<1>1. ASSUME UNCHANGED <<engine, memory, entries>>, Handled' = Handled
      PROVE  BreakoutInv'
  BY <1>0, <1>1 DEF BreakoutInv
<1>2. ASSUME NEW config \in Configs, Construct(config)
      PROVE  BreakoutInv'
  <2>1. /\ engine = None /\ memory' = memory /\ entries' = entries
        /\ index' = 0 /\ turn' = "none"
    BY <1>2 DEF Construct, AtStart, traderVars
  <2>2. memory' = NewMemory /\ entries' = <<>> /\ Handled' = 0
    BY <1>0, <2>1 DEF BreakoutInv, Handled
  <2> QED
    BY <2>2, NothingHandled DEF BreakoutInv
<1>3. ASSUME NEW config \in Configs, RunReplay(config)
      PROVE  BreakoutInv'
  BY <1>1, <1>3 DEF RunReplay, engineVars, traderVars, Handled
<1>4. CASE Step
  <2>1. /\ turn = "none" /\ turn' = "mark" /\ index' = index + 1 /\ engine # None
        /\ UNCHANGED <<engine, memory, entries>>
    BY <1>4 DEF Step, HasNext, traderVars
  <2>2. index \in Int
    BY <2>1 DEF ClockInv
  <2> QED
    BY <1>1, <2>1, <2>2 DEF Handled
<1>5. CASE Mark
  BY <1>1, <1>5 DEF Mark, Handled
<1>6. CASE CallStrategy /\ entries' = entries
  <2>1. EntriesOf(entries, memory', engine.events, index)
    BY <1>0, <1>6, StrategyCalled, EntriesKept DEF Event
  <2>2. RangeOf(memory', engine.events, index)
    BY <1>0, <1>6, StrategyCalled, BarRemembered DEF Event
  <2> QED
    BY <1>0, <1>6, <2>1, <2>2, StrategyCalled DEF BreakoutInv
<1>7. ASSUME NEW side \in {"BUY", "SELL"}, NEW qty \in Quantities, Open(side, qty)
      PROVE  BreakoutInv'
  <2>1. CallStrategy /\ Proposes("enter") /\ entries' = Append(entries, index)
    BY <1>7 DEF Open
  <2>2. Proposal("orb", memory, Event, Closes, Holding) = "enter"
    BY <1>0, <2>1 DEF Proposes
  <2>3. Breaks(memory, Event, Holding)
    BY <2>2, StrategyAssumption DEF Proposal
  <2>4. EntriesOf(entries', memory', engine.events, index)
    BY <1>0, <2>1, <2>3, StrategyCalled, EntryAdded DEF Event
  <2>5. RangeOf(memory', engine.events, index)
    BY <1>0, <2>1, StrategyCalled, BarRemembered DEF Event
  <2> QED
    BY <1>0, <2>1, <2>4, <2>5, StrategyCalled DEF BreakoutInv
<1>8. CASE Reset
  <2>1. memory' = NewMemory /\ entries' = <<>> /\ index' = 0 /\ turn' = "none"
    BY <1>8 DEF Reset, AtStart, NewTrader
  <2>2. Handled' = 0
    BY <2>1 DEF Handled
  <2> QED
    BY <2>1, <2>2, NothingHandled DEF BreakoutInv
<1>9. CASE UNCHANGED vars
  BY <1>1, <1>9 DEF vars, engineVars, traderVars, Handled
<1> QED
  BY <1>2, <1>3, <1>4, <1>5, <1>6, <1>7, <1>8, <1>9 DEF Next, Close, Wait

LEMMA BreakoutInvariant == Spec => []BreakoutInv
<1>1. ClockInv /\ BuffersInv => ClockInv
  OBVIOUS
<1> QED
  BY <1>1, ReplayInvariant, InitialBreakout, NextBreakout, PTL DEF Spec

\* OpeningRangeBreakout: every entry is above the whole opening range of its own day and
\* the only one of that day, for every series of bars, length of the range and number of
\* entries, and over any number of restarts.
THEOREM BreakoutsAreOfTheDay == Spec => []BreaksOwnRange
<1>1. BreakoutInv => BreaksOwnRange
  <2> SUFFICES ASSUME BreakoutInv, kind = "orb", engine # None, NEW n \in DOMAIN entries
               PROVE  LET at == entries[n]
                          DayOf(i) == DayUtc(engine.events[i].time)
                          before == {i \in 1 .. at - 1 : DayOf(i) = DayOf(at)}
                          opening == {i \in before : Cardinality({j \in before : j < i}) < RangeBars}
                      IN  /\ Cardinality(opening) = RangeBars
                          /\ \A i \in opening : engine.events[at].close > engine.events[i].high
                          /\ \A m \in DOMAIN entries : m # n => DayOf(entries[m]) # DayOf(at)
    BY DEF BreaksOwnRange
  <2>1. EntriesOf(entries, memory, engine.events, Handled)
    BY DEF BreakoutInv
  <2>2. DOMAIN entries = 1 .. Len(entries)
    BY <2>1 DEF EntriesOf
  <2>3. AboveRange(engine.events, entries[n])
    BY <2>1, <2>2 DEF EntriesOf
  <2>4. \A m \in DOMAIN entries : m # n =>
           DayOfEvent(engine.events, entries[m]) # DayOfEvent(engine.events, entries[n])
    BY <2>1, <2>2 DEF EntriesOf
  <2> QED
    BY <2>3, <2>4 DEF AboveRange, Opening, SameDay, DayOfEvent
<1> QED
  BY <1>1, BreakoutInvariant, PTL

-----------------------------------------------------------------------------
(***************************************************************************)
(* Sums over sequences, as FoldLeft takes them.                             *)
(***************************************************************************)

\* A set of numbers up to n with a member has a greatest one.
LEMMA GreatestNumber ==
    ASSUME NEW n \in Nat, NEW T \in SUBSET (1 .. n), T # {}
    PROVE  Max(T) \in T
<1> DEFINE B == {m \in Nat : \A x \in T : x <= m}
<1>1. n \in B
  OBVIOUS
<1>2. PICK m \in B : \A j \in B : m <= j
  BY <1>1, LeastNumber
<1>3. \A x \in T : x \in Int /\ 1 <= x /\ x <= m
  OBVIOUS
<1>4. m \in T
  <2> SUFFICES ASSUME m \notin T PROVE FALSE
    OBVIOUS
  <2>1. \A x \in T : x <= m - 1
    BY <1>3
  <2>2. m - 1 \in Nat
    <3>1. PICK x : x \in T
      OBVIOUS
    <3>2. x \in Int /\ 1 <= x /\ x <= m - 1
      BY <1>3, <2>1, <3>1
    <3> QED
      BY <3>2
  <2>3. m - 1 \in B
    BY <2>1, <2>2
  <2> HIDE DEF B
  <2>4. m \in Nat /\ m <= m - 1
    BY <1>2, <2>2, <2>3 DEF B
  <2> QED
    BY <2>4
<1>5. \E x \in T : \A y \in T : x >= y
  BY <1>3, <1>4
<1> QED
  BY <1>5 DEF Max

Places(n) == 1 .. n

\* FoldLeft with addition: h adds up w over the sets of its first places, last place first.
Running(h, w, n) ==
    h = [T \in SUBSET Places(n) |-> IF T = {} THEN 0 ELSE h[T \ {Max(T)}] + w[Max(T)]]

RunningSum(w, n) == (CHOOSE h : Running(h, w, n))[Places(n)]

\* A sum without one summand, whichever.
LEMMA AddsLess ==
    ASSUME NEW S, IsFiniteSet(S), NEW w \in [S -> Int], NEW g, Adds(g, w, S)
    PROVE  \A T \in SUBSET S :
              /\ g[T] \in Int
              /\ \A x \in T : w[x] \in Int /\ g[T \ {x}] \in Int /\ g[T] = g[T \ {x}] + w[x]
<1>1. \A T \in SUBSET S : g[T] \in Int
  BY AddsType
<1>2. ASSUME NEW T \in SUBSET S, NEW x \in T
      PROVE  w[x] \in Int /\ g[T \ {x}] \in Int /\ g[T] = g[T \ {x}] + w[x]
  <2>1. g[T] = w[x] + g[T \ {x}]
    BY AddsAny
  <2>2. w[x] \in Int /\ g[T \ {x}] \in Int
    BY <1>1
  <2> QED
    BY <2>1, <2>2
<1> QED
  BY <1>1, <1>2

\* That is the sum over the places.
LEMMA RunningSumAdds ==
    ASSUME NEW n \in Nat, NEW w \in [Places(n) -> Int]
    PROVE  \E g : Adds(g, w, Places(n)) /\ RunningSum(w, n) = g[Places(n)]
<1> DEFINE S == Places(n)
<1>1. IsFiniteSet(S)
  BY FS_Interval DEF Places
<1>2. PICK g : Adds(g, w, S)
  BY <1>1, AddsExists
<1>3. \A T \in SUBSET S :
         /\ g[T] \in Int
         /\ \A x \in T : w[x] \in Int /\ g[T \ {x}] \in Int /\ g[T] = g[T \ {x}] + w[x]
  BY <1>1, <1>2, AddsLess
<1>4. ASSUME NEW T \in SUBSET S, T # {}
      PROVE  Max(T) \in T /\ g[T] = g[T \ {Max(T)}] + w[Max(T)]
  <2>1. Max(T) \in T
    BY <1>4, GreatestNumber DEF Places
  <2> QED
    BY <1>3, <2>1
<1>5. g = [T \in SUBSET S |-> g[T]] /\ g[{}] = 0
  BY <1>2 DEF Adds
<1>6. Running(g, w, n)
  <2>1. \A T \in SUBSET S : g[T] = IF T = {} THEN 0 ELSE g[T \ {Max(T)}] + w[Max(T)]
    BY <1>4, <1>5
  <2> QED
    BY <1>5, <2>1 DEF Running
<1> PICK k : k = CHOOSE h : Running(h, w, n)
  OBVIOUS
<1>7. Running(k, w, n)
  BY <1>6
<1>8. \A T \in SUBSET S : k[T] = g[T]
  <2> DEFINE G == {T \in SUBSET S : k[T] = g[T]}
  <2>1. ASSUME NEW T \in SUBSET S, \A U \in SUBSET T : U # T => U \in G PROVE T \in G
    <3>1. CASE T = {}
      BY <1>5, <1>7, <3>1 DEF Running
    <3>2. CASE T # {}
      <4>1. Max(T) \in T
        BY <1>4, <3>2
      <4>2. T \ {Max(T)} \in SUBSET T /\ T \ {Max(T)} # T
        BY <4>1
      <4>3. k[T \ {Max(T)}] = g[T \ {Max(T)}]
        BY <2>1, <4>2
      <4>4. k[T] = k[T \ {Max(T)}] + w[Max(T)]
        BY <1>7, <3>2 DEF Running
      <4> QED
        BY <1>4, <3>2, <4>3, <4>4
    <3> QED
      BY <3>1, <3>2
  <2>2. G \in SUBSET SUBSET S
    OBVIOUS
  <2> HIDE DEF G
  <2>3. \A T \in SUBSET S : T \in G
    BY <1>1, <2>1, <2>2, SubsetInduction
  <2> QED
    BY <2>3 DEF G
<1>9. RunningSum(w, n) = k[S]
  BY DEF RunningSum
<1>10. RunningSum(w, n) = g[S]
  BY <1>8, <1>9
<1> QED
  BY <1>2, <1>10

\* The sums of the first places, one by one.
LEMMA PrefixSums ==
    ASSUME NEW n \in Nat, NEW w \in [Places(n) -> Int]
    PROVE  \E s \in [0 .. n -> Int] :
              /\ s[0] = 0 /\ s[n] = RunningSum(w, n)
              /\ \A m \in 1 .. n : s[m] = s[m - 1] + w[m]
<1>1. PICK g : Adds(g, w, Places(n)) /\ RunningSum(w, n) = g[Places(n)]
  BY RunningSumAdds
<1>2. IsFiniteSet(Places(n)) /\ Adds(g, w, Places(n))
  BY <1>1, FS_Interval DEF Places
<1>3. \A T \in SUBSET Places(n) :
         /\ g[T] \in Int
         /\ \A x \in T : w[x] \in Int /\ g[T \ {x}] \in Int /\ g[T] = g[T \ {x}] + w[x]
  BY <1>2, AddsLess
<1> DEFINE s == [m \in 0 .. n |-> g[Places(m)]]
<1>4. \A m \in 0 .. n : Places(m) \in SUBSET Places(n)
  BY DEF Places
<1>5. s \in [0 .. n -> Int]
  BY <1>3, <1>4
<1>6. s[0] = 0
  <2>1. Places(0) = {} /\ g[{}] = 0
    BY <1>1 DEF Places, Adds
  <2> QED
    BY <2>1
<1>7. ASSUME NEW m \in 1 .. n PROVE s[m] = s[m - 1] + w[m]
  <2>1. m \in Places(m) /\ Places(m) \ {m} = Places(m - 1) /\ m - 1 \in 0 .. n /\ m \in 0 .. n
    BY DEF Places
  <2>2. g[Places(m)] = g[Places(m) \ {m}] + w[m]
    BY <1>3, <1>4, <2>1
  <2> QED
    BY <2>1, <2>2
<1>8. s[n] = RunningSum(w, n)
  BY <1>1
<1> HIDE DEF s
<1> QED
  BY <1>5, <1>6, <1>7, <1>8

LEMMA NoSum == RunningSum(<<>>, 0) = 0
<1>1. <<>> \in [Places(0) -> Int]
  BY DEF Places
<1>2. PICK s \in [0 .. 0 -> Int] : s[0] = 0 /\ s[0] = RunningSum(<<>>, 0)
  BY <1>1, PrefixSums
<1> QED
  BY <1>2

\* One place more adds what is in it;
LEMMA SumGrows ==
    ASSUME NEW n \in Nat, NEW w \in [Places(n) -> Int], NEW v \in [Places(n + 1) -> Int],
           \A i \in 1 .. n : v[i] = w[i]
    PROVE  /\ RunningSum(v, n + 1) = RunningSum(w, n) + v[n + 1]
           /\ RunningSum(w, n) \in Int /\ v[n + 1] \in Int
<1>1. PICK s \in [0 .. n -> Int] : /\ s[0] = 0 /\ s[n] = RunningSum(w, n)
                                   /\ \A m \in 1 .. n : s[m] = s[m - 1] + w[m]
  BY PrefixSums
<1>2. PICK r \in [0 .. n + 1 -> Int] : /\ r[0] = 0 /\ r[n + 1] = RunningSum(v, n + 1)
                                       /\ \A m \in 1 .. n + 1 : r[m] = r[m - 1] + v[m]
  <2>1. n + 1 \in Nat
    OBVIOUS
  <2> QED
    BY <2>1, PrefixSums
<1> DEFINE G == {m \in Nat : m <= n => r[m] = s[m]}
<1>3. 0 \in G
  BY <1>1, <1>2
<1>4. ASSUME NEW m \in G PROVE m + 1 \in G
  <2> SUFFICES ASSUME m + 1 <= n PROVE r[m + 1] = s[m + 1]
    OBVIOUS
  <2>1. m + 1 \in 1 .. n /\ m + 1 \in 1 .. n + 1 /\ (m + 1) - 1 = m /\ m <= n
    OBVIOUS
  <2>2. s[m + 1] = s[m] + w[m + 1] /\ r[m + 1] = r[m] + v[m + 1] /\ r[m] = s[m]
    BY <1>1, <1>2, <2>1
  <2> QED
    BY <2>1, <2>2
<1>5. G = Nat
  <2> HIDE DEF G
  <2>1. G \in SUBSET Nat
    BY DEF G
  <2> QED
    BY <1>3, <1>4, <2>1, CountingUp
<1>6. r[n] = s[n] /\ n + 1 \in 1 .. n + 1 /\ (n + 1) - 1 = n
  BY <1>5
<1>7. v[n + 1] \in Int /\ s[n] \in Int
  BY DEF Places
<1> QED
  BY <1>1, <1>2, <1>6, <1>7

LEMMA AddedAndTaken ==
    ASSUME NEW a \in Int, NEW b \in Int, NEW c \in Int
    PROVE  ((a + b) + c) - b = a + c
OBVIOUS

LEMMA TakenThenAdded ==
    ASSUME NEW a \in Int, NEW b \in Int, NEW c \in Int
    PROVE  (a - b) + c = (a + c) - b
OBVIOUS

\* and a place taken out takes away what was in it.
LEMMA SumShrinks ==
    ASSUME NEW n \in Nat, NEW w \in [Places(n) -> Int], NEW j \in 1 .. n,
           NEW v \in [Places(n - 1) -> Int],
           \A i \in 1 .. n - 1 : v[i] = IF i < j THEN w[i] ELSE w[i + 1]
    PROVE  /\ RunningSum(v, n - 1) = RunningSum(w, n) - w[j]
           /\ RunningSum(w, n) \in Int /\ RunningSum(v, n - 1) \in Int
<1>0. n - 1 \in Nat
  OBVIOUS
<1>1. PICK s \in [0 .. n -> Int] : /\ s[0] = 0 /\ s[n] = RunningSum(w, n)
                                   /\ \A m \in 1 .. n : s[m] = s[m - 1] + w[m]
  BY PrefixSums
<1>2. PICK r \in [0 .. n - 1 -> Int] : /\ r[0] = 0 /\ r[n - 1] = RunningSum(v, n - 1)
                                       /\ \A m \in 1 .. n - 1 : r[m] = r[m - 1] + v[m]
  BY <1>0, PrefixSums
<1> DEFINE G == {m \in Nat : m <= n - 1 => r[m] = IF m < j THEN s[m] ELSE s[m + 1] - w[j]}
<1>3. 0 \in G
  BY <1>1, <1>2
<1>4. ASSUME NEW m \in G PROVE m + 1 \in G
  <2> SUFFICES ASSUME m + 1 <= n - 1
               PROVE  r[m + 1] = IF m + 1 < j THEN s[m + 1] ELSE s[m + 2] - w[j]
    OBVIOUS
  <2>1. /\ m + 1 \in 1 .. n - 1 /\ m + 1 \in 1 .. n /\ m + 2 \in 1 .. n /\ m \in Nat
        /\ (m + 1) - 1 = m /\ (m + 2) - 1 = m + 1 /\ m <= n - 1
    OBVIOUS
  <2>2. r[m] = IF m < j THEN s[m] ELSE s[m + 1] - w[j]
    BY <2>1
  <2>3. /\ s[m + 1] = s[m] + w[m + 1] /\ s[m + 2] = s[m + 1] + w[m + 2]
        /\ r[m + 1] = r[m] + v[m + 1]
    BY <1>1, <1>2, <2>1
  <2>4. v[m + 1] = IF m + 1 < j THEN w[m + 1] ELSE w[m + 2]
    BY <2>1
  <2>5. s[m] \in Int /\ w[m + 1] \in Int /\ w[m + 2] \in Int /\ w[j] \in Int
    BY <2>1 DEF Places
  <2>6. CASE m + 1 < j
    <3>1. m < j
      BY <2>1, <2>6
    <3>2. r[m] = s[m] /\ v[m + 1] = w[m + 1]
      BY <2>2, <2>4, <2>6, <3>1, Zenon
    <3>3. r[m + 1] = s[m + 1]
      BY <2>3, <3>2, Zenon
    <3> QED
      BY <2>6, <3>3
  <2>7. CASE m + 1 = j
    <3>1. m < j /\ ~ (m + 1 < j)
      <4>1. m \in Int /\ j \in Int
        BY <2>1
      <4> QED
        BY <2>7, <4>1
    <3>2. r[m] = s[m] /\ v[m + 1] = w[m + 2] /\ w[j] = w[m + 1]
      BY <2>2, <2>4, <2>7, <3>1, Zenon
    <3>3. r[m + 1] = s[m] + w[m + 2] /\ s[m + 2] = (s[m] + w[m + 1]) + w[m + 2]
      BY <2>3, <3>2, Zenon
    <3>4. ((s[m] + w[m + 1]) + w[m + 2]) - w[m + 1] = s[m] + w[m + 2]
      BY <2>5, AddedAndTaken
    <3>5. r[m + 1] = s[m + 2] - w[j]
      BY <3>2, <3>3, <3>4, Zenon
    <3> QED
      BY <3>1, <3>5, Zenon
  <2>8. CASE m + 1 > j
    <3>1. ~ (m < j) /\ ~ (m + 1 < j)
      <4>1. m \in Int /\ j \in Int
        BY <2>1
      <4> QED
        BY <2>8, <4>1
    <3>2. r[m] = s[m + 1] - w[j] /\ v[m + 1] = w[m + 2]
      BY <2>2, <2>4, <3>1, Zenon
    <3>3. r[m + 1] = (s[m + 1] - w[j]) + w[m + 2]
      BY <2>3, <3>2, Zenon
    <3>4. (s[m + 1] - w[j]) + w[m + 2] = (s[m + 1] + w[m + 2]) - w[j]
      <4>1. s[m + 1] \in Int
        BY <2>1
      <4> QED
        BY <2>5, <4>1, TakenThenAdded
    <3>5. r[m + 1] = s[m + 2] - w[j]
      BY <2>3, <3>3, <3>4, Zenon
    <3> QED
      BY <3>1, <3>5, Zenon
  <2>9. m + 1 < j \/ m + 1 = j \/ m + 1 > j
    <3>1. m \in Int /\ j \in Int
      BY <2>1
    <3> QED
      BY <3>1
  <2> QED
    BY <2>6, <2>7, <2>8, <2>9
<1>5. G = Nat
  <2> HIDE DEF G
  <2>1. G \in SUBSET Nat
    BY DEF G
  <2> QED
    BY <1>3, <1>4, <2>1, CountingUp
<1>6. r[n - 1] = IF n - 1 < j THEN s[n - 1] ELSE s[(n - 1) + 1] - w[j]
  <2>1. n - 1 \in G
    BY <1>0, <1>5
  <2> QED
    BY <1>0, <2>1
<1>7. s[n] = s[n - 1] + w[n] /\ (n - 1) + 1 = n /\ s[n] \in Int /\ s[n - 1] \in Int
      /\ w[n] \in Int /\ w[j] \in Int /\ r[n - 1] \in Int
  BY <1>0, <1>1 DEF Places
<1>8. r[n - 1] = s[n] - w[j]
  BY <1>6, <1>7
<1> QED
  BY <1>1, <1>2, <1>7, <1>8

-----------------------------------------------------------------------------
(***************************************************************************)
(* The simulation of a backtest job.                                        *)
(***************************************************************************)

LotOf == [sym : SymbolSet, qty : Int, entry : Int, stop : Int, fee : Int, at : Nat]

TradeRecord ==
    [sym : SymbolSet, qty : Int, from : Nat, to : Nat, exit : Int,
     reason : {"STOP_LOSS_GAP", "SIGNAL_EXIT", "STOP_LOSS", "FINAL_LIQUIDATION"}, pnl : Int]

SimulationType ==
    /\ phase \in {"bar", "exits", "entries", "final", "done"}
    /\ tick \in Nat /\ slot \in Nat \ {0}
    /\ bar \in [SymbolSet -> BarShapes \cup {Absent}]
    /\ cash \in Int
    /\ positions \in Seq(LotOf)
    /\ pending \in Seq(SymbolSet)
    /\ lastClose \in [SymbolSet -> Nat \cup {Absent}]
    /\ trades \in Seq(TradeRecord)
    /\ \E S : equity \in Seq(S)

\* A sequence without its j-th element.
LEMMA Removed ==
    ASSUME NEW S, NEW seq \in Seq(S), NEW j \in 1 .. Len(seq)
    PROVE  /\ RemoveAt(seq, j) \in Seq(S)
           /\ Len(RemoveAt(seq, j)) = Len(seq) - 1
           /\ \A i \in 1 .. Len(seq) - 1 :
                 RemoveAt(seq, j)[i] = IF i < j THEN seq[i] ELSE seq[i + 1]
<1> DEFINE n == Len(seq)
           a == SubSeq(seq, 1, j - 1)
           b == SubSeq(seq, j + 1, n)
<1>1. n \in Nat /\ j \in Int /\ 1 <= j /\ j <= n
  OBVIOUS
<1>2. a \in Seq(S) /\ Len(a) = j - 1 /\ \A i \in 1 .. j - 1 : a[i] = seq[i]
  <2>1. \A i \in 1 .. j - 1 : seq[i] \in S
    BY <1>1
  <2>2. a = [i \in 1 .. j - 1 |-> seq[i]]
    BY <1>1
  <2> QED
    BY <1>1, <2>1, <2>2
<1>3. b \in Seq(S) /\ Len(b) = n - j /\ \A i \in 1 .. n - j : b[i] = seq[i + j]
  <2>1. \A i \in 1 .. n - j : i + j \in 1 .. n /\ seq[i + j] \in S
    BY <1>1
  <2>2. b = [i \in 1 .. n - j |-> seq[i + j]]
    BY <1>1
  <2> QED
    BY <1>1, <2>1, <2>2
<1> HIDE DEF a, b
<1>4. a \o b \in Seq(S) /\ Len(a \o b) = n - 1
  <2>1. Len(a) + Len(b) = n - 1
    BY <1>1, <1>2, <1>3
  <2>2. a \o b \in Seq(S) /\ Len(a \o b) = Len(a) + Len(b)
    <3> HIDE DEF n
    <3>1. a \in Seq(S) /\ b \in Seq(S)
      BY <1>2, <1>3
    <3> QED
      BY <3>1
  <2> QED
    BY <2>1, <2>2
<1>5. ASSUME NEW i \in 1 .. n - 1 PROVE (a \o b)[i] = IF i < j THEN seq[i] ELSE seq[i + 1]
  <2>1. CASE i < j
    BY <1>1, <1>2, <1>3, <2>1
  <2>2. CASE ~ (i < j)
    <3>1. (a \o b)[i] = b[i - (j - 1)]
      BY <1>1, <1>2, <1>3, <2>2
    <3>2. i - (j - 1) \in 1 .. n - j /\ (i - (j - 1)) + j = i + 1
      BY <1>1, <2>2
    <3> QED
      BY <1>3, <2>2, <3>1, <3>2
  <2> QED
    BY <2>1, <2>2
<1>6. RemoveAt(seq, j) = a \o b
  BY DEF RemoveAt, a, b
<1> QED
  BY <1>4, <1>5, <1>6

\* The symbols taken in the order of the universe are symbols.
LEMMA OrderedSymbols ==
    ASSUME IsSimulation, NEW chosen
    PROVE  InOrder(chosen) \in Seq(SymbolSet)
<1> DEFINE kept == {i \in DOMAIN Universe : Universe[i] \in chosen}
           R == {ij \in kept \X kept : ij[1] < ij[2]}
           N == Cardinality(kept)
           Place(i) == Cardinality({j \in kept : j < i}) + 1
<1>1. Universe \in Seq(SymbolSet) /\ DOMAIN Universe = 1 .. Len(Universe) /\ Len(Universe) \in Nat
  BY DEF IsSimulation
<1>2. kept \subseteq 1 .. Len(Universe) /\ \A i \in kept : i \in Int
  BY <1>1
<1>3. IsFiniteSet(kept) /\ N \in Nat
  <2> HIDE DEF kept
  <2>1. IsFiniteSet(1 .. Len(Universe))
    BY <1>1, FS_Interval
  <2> QED
    BY <1>2, <2>1, FS_Subset, FS_CardinalityType
<1>4. StrictOrder(R, kept)
  BY <1>2 DEF StrictOrder
<1>5. \A i \in kept : PlaceIn(R, kept, i) = Place(i)
  <2> SUFFICES ASSUME NEW i \in kept PROVE PlaceIn(R, kept, i) = Place(i)
    OBVIOUS
  <2>1. {j \in kept : <<j, i>> \in R} = {j \in kept : j < i}
    OBVIOUS
  <2> QED
    BY <2>1 DEF PlaceIn
<1>6. \A n \in 1 .. N : \E i \in kept : Place(i) = n
  <2> HIDE DEF kept, R, Place
  <2>1. \A n \in 1 .. N : \E i \in kept : PlaceIn(R, kept, i) = n
    BY <1>3, <1>4, PlacesFilled
  <2> QED
    BY <1>5, <2>1
<1>7. ASSUME NEW n \in 1 .. N PROVE Universe[CHOOSE i \in kept : Place(i) = n] \in SymbolSet
  <2>1. (CHOOSE i \in kept : Place(i) = n) \in kept
    <3> HIDE DEF kept, Place
    <3> QED
      BY <1>6
  <2>2. \A i \in kept : Universe[i] \in SymbolSet
    BY <1>1, <1>2
  <2> QED
    BY <2>1, <2>2
<1>8. InOrder(chosen) = [n \in 1 .. N |-> Universe[CHOOSE i \in kept : Place(i) = n]]
  BY Zenon DEF InOrder
<1>9. [n \in 1 .. N |-> Universe[CHOOSE i \in kept : Place(i) = n]] \in [1 .. N -> SymbolSet]
  BY <1>7
<1> HIDE DEF kept, Place, N
<1>10. \A q \in [1 .. N -> SymbolSet] : q \in Seq(SymbolSet)
  BY <1>3
<1> QED
  BY <1>8, <1>9, <1>10, Zenon

LEMMA GreaterOfTwo ==
    ASSUME NEW x \in Int, NEW y \in Int
    PROVE  Max({x, y}) \in Int /\ Min({x, y}) \in {x, y}
<1>1. \E m \in {x, y} : \A n \in {x, y} : m >= n
  <2>1. x >= y \/ y >= x
    OBVIOUS
  <2> QED
    BY <2>1
<1>2. \E m \in {x, y} : \A n \in {x, y} : m <= n
  <2>1. x <= y \/ y <= x
    OBVIOUS
  <2> QED
    BY <2>1
<1>3. Max({x, y}) \in {x, y}
  BY <1>1 DEF Max
<1>4. Min({x, y}) \in {x, y}
  BY <1>2 DEF Min
<1> QED
  BY <1>3, <1>4

\* What the prices of a bar are, and of what is bought and sold in it.
LEMMA PricesType ==
    ASSUME IsSimulation, SimulationType, NEW s \in SymbolSet
    PROVE  /\ bar[s] = Absent \/ bar[s] \in BarShapes
           /\ bar[s] # Absent => /\ bar[s].open \in Nat \ {0} /\ bar[s].low \in Nat \ {0}
                               /\ bar[s].high \in Nat \ {0} /\ bar[s].close \in Nat \ {0}
           /\ \A quote \in Int : SellFill(quote) \in Int
<1>1. bar[s] = Absent \/ bar[s] \in BarShapes
  BY DEF SimulationType
<1>2. \A b \in BarShapes : {b.open, b.high, b.low, b.close} \subseteq Nat \ {0}
  BY DEF IsSimulation
<1>3. ASSUME NEW quote \in Int PROVE SellFill(quote) \in Int
  <2>1. quote - Slip \in Int
    BY DEF IsSimulation
  <2> QED
    BY <2>1, GreaterOfTwo DEF SellFill
<1> QED
  BY <1>1, <1>2, <1>3

LEMMA SaleType ==
    ASSUME IsSimulation, SimulationType, NEW p \in LotOf, NEW raw \in Int,
           NEW reason \in {"STOP_LOSS_GAP", "SIGNAL_EXIT", "STOP_LOSS", "FINAL_LIQUIDATION"}
    PROVE  /\ Proceeds(p, raw) \in Int
           /\ TradeOf(p, raw, reason) \in TradeRecord
           /\ TradeOf(p, raw, reason).pnl =
                 Proceeds(p, raw) - (p.entry * p.qty + p.fee)
           /\ p.entry * p.qty + p.fee \in Int
<1>1. p.sym \in SymbolSet /\ p.qty \in Int /\ p.entry \in Int /\ p.fee \in Int /\ p.at \in Nat
  BY DEF LotOf
<1> PICK x : x = SellFill(raw)
  OBVIOUS
<1>2. x \in Int /\ SellCost \in Int /\ tick \in Nat
  BY <1>1, PricesType DEF IsSimulation, SimulationType
<1>3. x * p.qty \in Int /\ p.entry * p.qty \in Int
  BY <1>1, <1>2
<1>4. Proceeds(p, raw) = x * p.qty - SellCost
  BY DEF Proceeds
<1>5. TradeOf(p, raw, reason) =
        [sym |-> p.sym, qty |-> p.qty, from |-> p.at, to |-> tick, exit |-> x, reason |-> reason,
         pnl |-> (x * p.qty - SellCost) - (p.entry * p.qty + p.fee)]
  BY DEF TradeOf
<1> PICK c, e : c = x * p.qty /\ e = p.entry * p.qty
  OBVIOUS
<1>6. (c - SellCost) - (e + p.fee) \in Int /\ c - SellCost \in Int /\ e + p.fee \in Int
  BY <1>1, <1>2, <1>3
<1> QED
  BY <1>1, <1>2, <1>4, <1>5, <1>6 DEF TradeRecord

\* Why a position is exited, and at what price.
LEMMA ExitType ==
    ASSUME IsSimulation, SimulationType, NEW p \in LotOf,
           ExitReason(p) # Absent
    PROVE  /\ ExitReason(p) \in {"STOP_LOSS_GAP", "SIGNAL_EXIT", "STOP_LOSS"}
           /\ RawExit(p, ExitReason(p)) \in Int
<1>1. p.sym \in SymbolSet /\ p.stop \in Int
  BY DEF LotOf
<1>2. /\ ExitReason(p) \in {"STOP_LOSS_GAP", "SIGNAL_EXIT", "STOP_LOSS"}
      /\ bar[p.sym] # Absent
  BY DEF ExitReason
<1>3. bar[p.sym].open \in Int
  BY <1>1, <1>2, PricesType
<1>4. Min({bar[p.sym].open, p.stop}) \in Int
  BY <1>1, <1>3, GreaterOfTwo
<1> QED
  BY <1>1, <1>2, <1>3, <1>4 DEF RawExit

\* The position a fill opens.
LEMMA OpenedType ==
    ASSUME IsSimulation, SimulationType,
           NEW s \in SymbolSet, bar[s] # Absent
    PROVE  /\ NewPosition(s) \in LotOf
           /\ NewPosition(s).at = tick /\ NewPosition(s).sym = s
           /\ NewPosition(s).fee = BuyCost
<1>a0. PICK quote : quote = BuyFill(bar[s].open)
  OBVIOUS
<1>a1. PICK parties : parties = IF strategy = "hold" THEN Len(Universe) ELSE 1
  OBVIOUS
<1>a2. PICK permille : permille = Min({cash, StartingCapital}) * AllocPermille
  OBVIOUS
<1>a3. PICK pct : pct = IF strategy = "hold" THEN HoldStopPct ELSE StopPct
  OBVIOUS
<1>1. quote \in Nat \ {0}
  <2>1. bar[s].open \in Nat \ {0}
    BY PricesType
  <2>2. Slip \in Nat
    BY DEF IsSimulation
  <2> QED
    BY <1>a0, <2>1, <2>2 DEF BuyFill
<1>2. parties \in Nat \ {0}
  <2>1. Universe \in Seq(SymbolSet)
    BY DEF IsSimulation
  <2>2. SymbolSet = {Universe[i] : i \in DOMAIN Universe}
    BY DEF SymbolSet, Range
  <2>3. DOMAIN Universe # {}
    BY <2>2
  <2>4. Len(Universe) \in Nat \ {0}
    BY <2>1, <2>3
  <2> QED
    BY <1>a1, <2>4
<1>3. permille \in Int
  <2>1. cash \in Int /\ StartingCapital \in Int /\ AllocPermille \in Int
    BY DEF SimulationType, IsSimulation
  <2>2. Min({cash, StartingCapital}) \in Int
    BY <2>1, GreaterOfTwo
  <2> QED
    BY <1>a2, <2>1, <2>2
<1>4. pct \in Nat
  BY <1>a3 DEF IsSimulation
<1>a4. PICK qty : qty = Max({1, permille \div (1000 * parties * quote)})
  OBVIOUS
<1>a5. PICK stop : stop = (quote * pct) \div 100
  OBVIOUS
<1>5. qty \in Int
  <2>1. parties * quote \in Nat \ {0}
    BY <1>1, <1>2
  <2>2. 1000 * parties * quote \in Nat \ {0}
    BY <1>1, <1>2, <2>1
  <2>3. permille \div (1000 * parties * quote) \in Int
    BY <1>3, <2>2
  <2>4. PICK m \in Int : m = permille \div (1000 * parties * quote)
    BY <2>3, Zenon
  <2>5. Max({1, m}) \in Int
    BY GreaterOfTwo
  <2> QED
    BY <1>a4, <2>4, <2>5, Zenon
<1>6. stop \in Int
  <2>1. quote * pct \in Int
    BY <1>1, <1>4
  <2> QED
    BY <1>a5, <2>1
<1>7. EntryProposal(s) = [sym |-> s, price |-> quote, qty |-> qty, stop |-> stop]
  BY <1>a0, <1>a1, <1>a2, <1>a3, <1>a4, <1>a5 DEF EntryProposal
<1>8. NewPosition(s) =
        [sym |-> s, qty |-> qty, entry |-> quote, stop |-> stop, fee |-> BuyCost, at |-> tick]
  BY <1>7 DEF NewPosition
<1>9. BuyCost \in Int /\ tick \in Nat
  BY DEF IsSimulation, SimulationType
<1> QED
  BY <1>1, <1>5, <1>6, <1>8, <1>9 DEF LotOf

\* p was not stopped by the bar of its symbol.
NotStopped(p) == bar[p.sym] # Absent => ~ (bar[p.sym].low <= p.stop)

\* Positions already looked at were not stopped; when entries are filled, no
\* position was, but one that buy and hold opened in this very bar.
StopInv ==
    /\ phase = "exits" => \A i \in 1 .. Len(positions) : i < slot => NotStopped(positions[i])
    /\ phase = "entries" => \A i \in 1 .. Len(positions) :
          ~ NotStopped(positions[i]) => strategy = "hold" /\ positions[i].at = tick

LEMMA SimulationStarts == IsSimulation /\ SimulationInit => SimulationType /\ StopInv
<1> SUFFICES ASSUME IsSimulation, SimulationInit PROVE SimulationType /\ StopInv
  OBVIOUS
<1>1. phase = "bar" /\ tick = 0 /\ slot = 1 /\ cash = StartingCapital /\ positions = <<>> /\ pending = <<>>
      /\ trades = <<>> /\ equity = <<>>
      /\ bar = [s \in SymbolSet |-> Absent] /\ lastClose = [s \in SymbolSet |-> Absent]
  BY DEF SimulationInit
<1>2. bar \in [SymbolSet -> BarShapes \cup {Absent}]
      /\ lastClose \in [SymbolSet -> Nat \cup {Absent}]
  BY <1>1
<1>3. positions \in Seq(LotOf) /\ pending \in Seq(SymbolSet) /\ trades \in Seq(TradeRecord)
      /\ \E S : equity \in Seq(S)
  <2>1. equity \in Seq({})
    BY <1>1
  <2> QED
    BY <1>1, <2>1
<1>4. cash \in Int
  BY <1>1 DEF IsSimulation
<1>5. StopInv
  BY <1>1 DEF StopInv
<1> QED
  BY <1>1, <1>2, <1>3, <1>4, <1>5 DEF SimulationType

LEMMA SimulationWaits ==
    SimulationType /\ StopInv /\ UNCHANGED simulationVars => SimulationType' /\ StopInv'
<1> SUFFICES ASSUME SimulationType, StopInv, UNCHANGED simulationVars PROVE SimulationType' /\ StopInv'
  OBVIOUS
<1>1. UNCHANGED <<strategy, phase, tick, slot, bar, cash, positions, pending, lastClose, trades, equity>>
  BY DEF simulationVars
<1>2. SimulationType'
  BY <1>1 DEF SimulationType
<1>3. StopInv'
  BY <1>1 DEF StopInv, NotStopped
<1> QED
  BY <1>2, <1>3

LEMMA NextBarKeeps ==
    IsSimulation /\ SimulationType /\ StopInv /\ NextBar => SimulationType' /\ StopInv'
<1> SUFFICES ASSUME IsSimulation, SimulationType, StopInv, NextBar
             PROVE  SimulationType' /\ StopInv'
  OBVIOUS
<1>1. /\ tick' = tick + 1 /\ phase' = "exits" /\ slot' = 1
      /\ UNCHANGED <<cash, positions, pending, lastClose, trades, equity>>
      /\ bar' \in [SymbolSet -> BarShapes \cup {Absent}]
  BY DEF NextBar
<1>2. SimulationType'
  BY <1>1 DEF SimulationType
<1>3. StopInv'
  <2>1. \A i \in 1 .. Len(positions') : ~ (i < slot')
    BY <1>1
  <2> QED
    BY <1>1, <2>1 DEF StopInv
<1> QED
  BY <1>2, <1>3

LEMMA ExitNextKeeps ==
    IsSimulation /\ SimulationType /\ StopInv /\ ExitNext => SimulationType' /\ StopInv'
<1> SUFFICES ASSUME IsSimulation, SimulationType, StopInv, ExitNext
             PROVE  SimulationType' /\ StopInv'
  OBVIOUS
<1>a. PICK p : p = positions[slot]
  OBVIOUS
<1>b. PICK reason : reason = ExitReason(p)
  OBVIOUS
<1>1. /\ phase = "exits" /\ slot <= Len(positions)
      /\ UNCHANGED <<strategy, phase, tick, bar, pending, lastClose, equity>>
  BY DEF ExitNext
<1>2. positions \in Seq(LotOf) /\ slot \in 1 .. Len(positions) /\ p \in LotOf
  BY <1>a, <1>1 DEF SimulationType
<1>3. CASE reason = Absent
  <2>1. slot' = slot + 1 /\ UNCHANGED <<cash, positions, trades>>
    BY <1>a, <1>b, <1>3 DEF ExitNext
  <2>2. SimulationType'
    BY <1>1, <2>1 DEF SimulationType
  <2>3. NotStopped(p)
    BY <1>b, <1>3 DEF ExitReason, IsSimulation, NotStopped
  <2>4. \A i \in 1 .. Len(positions) : i < slot + 1 => NotStopped(positions[i])
    <3>1. \A i \in 1 .. Len(positions) : i < slot + 1 => i < slot \/ i = slot
      BY <1>2
    <3>2. \A i \in 1 .. Len(positions) : i < slot => NotStopped(positions[i])
      BY <1>1 DEF StopInv
    <3> QED
      BY <1>a, <2>3, <3>1, <3>2
  <2>5. StopInv'
    BY <1>1, <2>1, <2>4 DEF StopInv, NotStopped
  <2> QED
    BY <2>2, <2>5
<1>4. CASE reason # Absent
  <2>1. /\ cash' = cash + Proceeds(p, RawExit(p, reason))
        /\ trades' = Append(trades, TradeOf(p, RawExit(p, reason), reason))
        /\ positions' = RemoveAt(positions, slot)
        /\ slot' = slot
    BY <1>a, <1>b, <1>4 DEF ExitNext
  <2>2. /\ reason \in {"STOP_LOSS_GAP", "SIGNAL_EXIT", "STOP_LOSS"}
        /\ RawExit(p, reason) \in Int
    BY <1>2, <1>4, <1>b, ExitType
  <2>3. /\ positions' \in Seq(LotOf) /\ Len(positions') = Len(positions) - 1
        /\ \A i \in 1 .. Len(positions) - 1 :
              positions'[i] = IF i < slot THEN positions[i] ELSE positions[i + 1]
    BY <1>2, <2>1, Removed
  <2>4. cash' \in Int /\ trades' \in Seq(TradeRecord)
    <3>1. /\ Proceeds(p, RawExit(p, reason)) \in Int
          /\ TradeOf(p, RawExit(p, reason), reason) \in TradeRecord
      BY <1>2, <2>2, SaleType
    <3> QED
      BY <2>1, <3>1 DEF SimulationType
  <2>5. SimulationType'
    BY <1>1, <2>1, <2>3, <2>4 DEF SimulationType
  <2>6. \A i \in 1 .. Len(positions') : i < slot' => NotStopped(positions'[i])
    <3>1. ASSUME NEW i \in 1 .. Len(positions'), i < slot'
          PROVE  i \in 1 .. Len(positions) /\ positions'[i] = positions[i] /\ i < slot
      BY <1>2, <2>1, <2>3, <3>1
    <3> QED
      BY <1>1, <3>1 DEF StopInv
  <2>7. StopInv'
    BY <1>1, <2>6 DEF StopInv, NotStopped
  <2> QED
    BY <2>5, <2>7
<1> QED
  BY <1>3, <1>4

LEMMA ExitsDoneKeeps ==
    IsSimulation /\ SimulationType /\ StopInv /\ ExitsDone => SimulationType' /\ StopInv'
<1> SUFFICES ASSUME IsSimulation, SimulationType, StopInv, ExitsDone
             PROVE  SimulationType' /\ StopInv'
  OBVIOUS
<1>1. /\ phase = "exits" /\ slot > Len(positions) /\ phase' = "entries" /\ slot' = 1
      /\ UNCHANGED <<strategy, tick, bar, cash, positions, lastClose, trades, equity>>
      /\ pending' = pending \o InOrder({s \in SymbolSet : Due(s)})
  BY DEF ExitsDone
<1>2. pending' \in Seq(SymbolSet)
  <2>1. InOrder({s \in SymbolSet : Due(s)}) \in Seq(SymbolSet)
    BY OrderedSymbols
  <2> QED
    BY <1>1, <2>1 DEF SimulationType
<1>3. SimulationType'
  BY <1>1, <1>2 DEF SimulationType
<1>4. \A i \in 1 .. Len(positions) : NotStopped(positions[i])
  <2>1. slot \in Int /\ Len(positions) \in Nat
    BY DEF SimulationType
  <2>2. \A i \in 1 .. Len(positions) : i < slot
    BY <1>1, <2>1
  <2> QED
    BY <1>1, <2>2 DEF StopInv
<1>5. StopInv'
  BY <1>1, <1>4 DEF StopInv, NotStopped
<1> QED
  BY <1>3, <1>5

LEMMA EnterNextKeeps ==
    IsSimulation /\ SimulationType /\ StopInv /\ EnterNext => SimulationType' /\ StopInv'
<1> SUFFICES ASSUME IsSimulation, SimulationType, StopInv, EnterNext
             PROVE  SimulationType' /\ StopInv'
  OBVIOUS
<1>a. PICK s : s = pending[slot]
  OBVIOUS
<1>b. PICK p : p = NewPosition(s)
  OBVIOUS
<1>1. /\ phase = "entries" /\ slot <= Len(pending)
      /\ UNCHANGED <<strategy, phase, tick, bar, lastClose, equity>>
  BY DEF EnterNext
<1>2. pending \in Seq(SymbolSet) /\ slot \in 1 .. Len(pending) /\ s \in SymbolSet
  BY <1>a, <1>1 DEF SimulationType
<1>3. \A i \in 1 .. Len(positions) :
          ~ NotStopped(positions[i]) => strategy = "hold" /\ positions[i].at = tick
  BY <1>1 DEF StopInv
<1>4. CASE positions' = positions /\ cash' = cash /\ trades' = trades
           /\ pending' \in Seq(SymbolSet) /\ slot' \in Nat \ {0}
  <2>1. SimulationType'
    BY <1>1, <1>4 DEF SimulationType
  <2>2. StopInv'
    BY <1>1, <1>3, <1>4 DEF StopInv, NotStopped
  <2> QED
    BY <2>1, <2>2
<1>5. CASE bar[s] = Absent
  <2>1. slot' = slot + 1 /\ UNCHANGED <<cash, positions, pending, trades>>
    BY <1>a, <1>b, <1>5 DEF EnterNext
  <2> QED
    BY <1>2, <1>4, <2>1 DEF SimulationType
<1>6. CASE bar[s] # Absent
  <2>1. /\ pending' = RemoveAt(pending, slot) /\ slot' = slot
        /\ \/ UNCHANGED <<cash, positions, trades>>
           \/ /\ ~ StoppedAtOnce(p)
              /\ cash' = cash - (p.entry * p.qty + BuyCost)
              /\ positions' = Append(positions, p)
              /\ UNCHANGED trades
           \/ /\ cash' = cash - (p.entry * p.qty + BuyCost) + Proceeds(p, p.stop)
              /\ trades' = Append(trades, TradeOf(p, p.stop, "STOP_LOSS"))
              /\ UNCHANGED positions
    BY <1>a, <1>b, <1>6 DEF EnterNext
  <2>2. pending' \in Seq(SymbolSet) /\ slot' \in Nat \ {0}
    BY <1>2, <2>1, Removed DEF SimulationType
  <2>3. p \in LotOf /\ p.at = tick /\ p.sym = s /\ p.fee = BuyCost
    BY <1>b, <1>2, <1>6, OpenedType
  <2>4. p.entry * p.qty + BuyCost \in Int /\ p.stop \in Int
    <3>1. p.entry \in Int /\ p.qty \in Int /\ p.stop \in Int /\ BuyCost \in Int
      BY <2>3 DEF LotOf, IsSimulation
    <3> QED
      BY <3>1
  <2>5. CASE UNCHANGED <<cash, positions, trades>>
    BY <1>4, <2>2, <2>5
  <2>6. CASE /\ ~ StoppedAtOnce(p)
             /\ cash' = cash - (p.entry * p.qty + BuyCost)
             /\ positions' = Append(positions, p)
             /\ UNCHANGED trades
    <3>1. positions' \in Seq(LotOf) /\ cash' \in Int
      BY <2>3, <2>4, <2>6 DEF SimulationType
    <3>2. SimulationType'
      BY <1>1, <2>2, <2>6, <3>1 DEF SimulationType
    <3>3. ~ NotStopped(p) => strategy = "hold"
      BY <2>6 DEF NotStopped, StoppedAtOnce
    <3>4. ASSUME NEW i \in 1 .. Len(positions'), ~ NotStopped(positions'[i])
          PROVE  strategy = "hold" /\ positions'[i].at = tick
      <4>1. positions \in Seq(LotOf)
        BY DEF SimulationType
      <4>2. \/ i \in 1 .. Len(positions) /\ positions'[i] = positions[i]
            \/ positions'[i] = p
        BY <2>6, <4>1
      <4>3. CASE i \in 1 .. Len(positions) /\ positions'[i] = positions[i]
        BY <1>3, <3>4, <4>3
      <4>4. CASE positions'[i] = p
        BY <2>3, <3>3, <3>4, <4>4
      <4> QED
        BY <4>2, <4>3, <4>4
    <3>5. StopInv'
      BY <1>1, <3>4 DEF StopInv, NotStopped
    <3> QED
      BY <3>2, <3>5
  <2>7. CASE /\ cash' = cash - (p.entry * p.qty + BuyCost) + Proceeds(p, p.stop)
             /\ trades' = Append(trades, TradeOf(p, p.stop, "STOP_LOSS"))
             /\ UNCHANGED positions
    <3>1. /\ Proceeds(p, p.stop) \in Int
          /\ TradeOf(p, p.stop, "STOP_LOSS") \in TradeRecord
      BY <2>3, <2>4, SaleType
    <3>2. cash' \in Int /\ trades' \in Seq(TradeRecord)
      BY <2>4, <2>7, <3>1 DEF SimulationType
    <3>3. SimulationType'
      BY <1>1, <2>2, <2>7, <3>2 DEF SimulationType
    <3>4. StopInv'
      BY <1>1, <1>3, <2>7 DEF StopInv, NotStopped
    <3> QED
      BY <3>3, <3>4
  <2> QED
    BY <2>1, <2>5, <2>6, <2>7
<1> QED
  BY <1>5, <1>6

LEMMA CloseBarKeeps ==
    IsSimulation /\ SimulationType /\ StopInv /\ CloseBar => SimulationType' /\ StopInv'
<1> SUFFICES ASSUME IsSimulation, SimulationType, StopInv, CloseBar
             PROVE  SimulationType' /\ StopInv'
  OBVIOUS
<1>1. /\ phase' \in {"bar", "final"} /\ slot' = 1
      /\ UNCHANGED <<strategy, tick, bar, cash, positions, trades>>
      /\ lastClose' = [s \in SymbolSet |->
                          IF bar[s] = Absent THEN lastClose[s] ELSE bar[s].close]
      /\ \E v : equity' = Append(equity, v)
      /\ \E golden : pending' = pending \o InOrder(
             {s \in golden : ~ InPosition(s) /\ ~ Contains(pending, s)})
  BY DEF CloseBar
<1>2. lastClose' \in [SymbolSet -> Nat \cup {Absent}]
  <2>1. \A s \in SymbolSet : bar[s] # Absent => bar[s].close \in Nat
    BY PricesType
  <2>2. \A s \in SymbolSet : lastClose[s] \in Nat \cup {Absent}
    BY DEF SimulationType
  <2> QED
    BY <1>1, <2>1, <2>2
<1>3. pending' \in Seq(SymbolSet)
  <2>1. PICK golden : pending' = pending \o InOrder(
             {s \in golden : ~ InPosition(s) /\ ~ Contains(pending, s)})
    BY <1>1
  <2>2. PICK c : c = {s \in golden : ~ InPosition(s) /\ ~ Contains(pending, s)}
    OBVIOUS
  <2>3. InOrder(c) \in Seq(SymbolSet)
    BY OrderedSymbols
  <2>4. pending' = pending \o InOrder(c)
    BY <2>1, <2>2
  <2> QED
    BY <2>3, <2>4 DEF SimulationType
<1>4. \E S : equity' \in Seq(S)
  <2>1. PICK v : equity' = Append(equity, v)
    BY <1>1
  <2>2. PICK S : equity \in Seq(S)
    BY DEF SimulationType
  <2>3. equity \in Seq(S \cup {v})
    BY <2>2
  <2>4. equity' \in Seq(S \cup {v})
    BY <2>1, <2>3
  <2> QED
    BY <2>4
<1>5. SimulationType'
  BY <1>1, <1>2, <1>3, <1>4 DEF SimulationType
<1>6. StopInv'
  BY <1>1 DEF StopInv
<1> QED
  BY <1>5, <1>6

LEMMA LiquidateNextKeeps ==
    IsSimulation /\ SimulationType /\ StopInv /\ LiquidateNext => SimulationType' /\ StopInv'
<1> SUFFICES ASSUME IsSimulation, SimulationType, StopInv, LiquidateNext
             PROVE  SimulationType' /\ StopInv'
  OBVIOUS
<1>a. PICK p : p = Head(positions)
  OBVIOUS
<1>b. PICK raw : raw = IF lastClose[p.sym] = Absent THEN p.entry ELSE lastClose[p.sym]
  OBVIOUS
<1>1. /\ phase = "final" /\ positions # <<>>
      /\ cash' = cash + Proceeds(p, raw)
      /\ trades' = Append(trades, TradeOf(p, raw, "FINAL_LIQUIDATION"))
      /\ positions' = Tail(positions)
      /\ UNCHANGED <<strategy, phase, tick, slot, bar, pending, lastClose, equity>>
  BY <1>a, <1>b DEF LiquidateNext
<1>2. positions \in Seq(LotOf) /\ p \in LotOf /\ positions' \in Seq(LotOf)
  BY <1>a, <1>1 DEF SimulationType
<1>3. raw \in Int
  <2>1. p.sym \in SymbolSet /\ p.entry \in Int
    BY <1>2 DEF LotOf
  <2> QED
    BY <1>b, <2>1 DEF SimulationType
<1>4. /\ Proceeds(p, raw) \in Int
      /\ TradeOf(p, raw, "FINAL_LIQUIDATION") \in TradeRecord
  BY <1>2, <1>3, SaleType
<1>5. cash' \in Int /\ trades' \in Seq(TradeRecord)
  BY <1>1, <1>4 DEF SimulationType
<1>6. SimulationType'
  BY <1>1, <1>2, <1>5 DEF SimulationType
<1>7. StopInv'
  BY <1>1 DEF StopInv
<1> QED
  BY <1>6, <1>7

LEMMA FinishKeeps ==
    IsSimulation /\ SimulationType /\ StopInv /\ Finish => SimulationType' /\ StopInv'
<1> SUFFICES ASSUME IsSimulation, SimulationType, StopInv, Finish
             PROVE  SimulationType' /\ StopInv'
  OBVIOUS
<1>1. /\ phase' = "done" /\ pending' = <<>>
      /\ equity' = [equity EXCEPT ![Len(equity)] = cash]
      /\ UNCHANGED <<strategy, tick, slot, bar, cash, positions, lastClose, trades>>
  BY DEF Finish
<1>2. \E S : equity' \in Seq(S)
  <2>1. PICK S : equity \in Seq(S)
    BY DEF SimulationType
  <2>2. Len(equity) \in Nat /\ DOMAIN equity = 1 .. Len(equity) /\ \A i \in 1 .. Len(equity) : equity[i] \in S
    BY <2>1
  <2>3. equity' \in [1 .. Len(equity) -> S \cup {cash}]
    BY <1>1, <2>1, <2>2
  <2>4. equity' \in Seq(S \cup {cash})
    BY <2>2, <2>3
  <2> QED
    BY <2>4
<1>3. SimulationType'
  BY <1>1, <1>2 DEF SimulationType
<1>4. StopInv'
  BY <1>1 DEF StopInv
<1> QED
  BY <1>3, <1>4

LEMMA SimulationInvariant ==
    ASSUME IsSimulation
    PROVE  SimulationSpec => [](SimulationType /\ StopInv)
<1>1. SimulationInit => SimulationType /\ StopInv
  BY SimulationStarts
<1>2. SimulationType /\ StopInv /\ [SimulationNext]_simulationVars => (SimulationType /\ StopInv)'
  BY SimulationWaits, NextBarKeeps, ExitNextKeeps, ExitsDoneKeeps, EnterNextKeeps, CloseBarKeeps,
     LiquidateNextKeeps, FinishKeeps DEF SimulationNext
<1> QED
  BY <1>1, <1>2, PTL DEF SimulationSpec

\* No position outlives a bar of its own that traded at or below its stop
\* (_run_simulation: exits are looked at before the entries of the same bar),
\* for every universe, timeline, stop and slippage.
THEOREM StopsAreRespected == SimulationSpec => []StopRespected
<1> USE SimulationAssumption
<1>1. StopInv => StopRespected
  BY DEF StopInv, NotStopped, StopRespected
<1> QED
  BY <1>1, SimulationInvariant, PTL

\* What the places of a list of positions cost, and what those of a list of trades earned.
Costs(list) == [i \in Places(Len(list)) |-> list[i].entry * list[i].qty + list[i].fee]
Gains(list) == [i \in Places(Len(list)) |-> list[i].pnl]

Cost(list) == SumOver(list, LAMBDA p : p.entry * p.qty + p.fee)

LEMMA CostsType ==
    ASSUME NEW list \in Seq(LotOf)
    PROVE  Costs(list) \in [Places(Len(list)) -> Int] /\ Len(list) \in Nat
<1>1. ASSUME NEW i \in Places(Len(list)) PROVE list[i].entry * list[i].qty + list[i].fee \in Int
  <2>1. list[i] \in LotOf
    BY DEF Places
  <2>2. list[i].entry \in Int /\ list[i].qty \in Int /\ list[i].fee \in Int
    BY <2>1 DEF LotOf
  <2> QED
    BY <2>2
<1> QED
  BY <1>1 DEF Costs

LEMMA GainsType ==
    ASSUME NEW list \in Seq(TradeRecord)
    PROVE  Gains(list) \in [Places(Len(list)) -> Int] /\ Len(list) \in Nat
<1>1. ASSUME NEW i \in Places(Len(list)) PROVE list[i].pnl \in Int
  <2>1. list[i] \in TradeRecord
    BY DEF Places
  <2> QED
    BY <2>1 DEF TradeRecord
<1> QED
  BY <1>1 DEF Gains

\* What the folds of the metrics and of the cash come to.
LEMMA CostIsSum ==
    ASSUME NEW list \in Seq(LotOf)
    PROVE  Cost(list) = RunningSum(Costs(list), Len(list))
<1> DEFINE n == Len(list)
           w == Costs(list)
           Iter(h) == h = [T \in SUBSET DOMAIN list |->
                             IF T = {} THEN 0
                             ELSE h[T \ {Max(T)}] + (list[Max(T)].entry * list[Max(T)].qty + list[Max(T)].fee)]
<1>1. n \in Nat /\ DOMAIN list = Places(n)
  BY DEF Places
<1>2. \A h : Iter(h) <=> Running(h, w, n)
  <2>1. ASSUME NEW T \in SUBSET Places(n), T # {}
        PROVE  w[Max(T)] = list[Max(T)].entry * list[Max(T)].qty + list[Max(T)].fee
    <3>1. Max(T) \in Places(n)
      BY <1>1, <2>1, GreatestNumber DEF Places
    <3> QED
      BY <3>1 DEF Costs
  <2> QED
    BY <1>1, <2>1 DEF Running
<1>3. Cost(list) = (CHOOSE h : Iter(h))[DOMAIN list]
  BY DEF Cost, SumOver, FoldLeft, MapThenFoldSet, Max
<1> HIDE DEF Iter
<1>4. (CHOOSE h : Iter(h)) = (CHOOSE h : Running(h, w, n))
  BY <1>2
<1> QED
  BY <1>1, <1>3, <1>4 DEF RunningSum

LEMMA GainIsSum ==
    ASSUME NEW list \in Seq(TradeRecord)
    PROVE  Money(list) = RunningSum(Gains(list), Len(list))
<1> DEFINE n == Len(list)
           w == Gains(list)
           Iter(h) == h = [T \in SUBSET DOMAIN list |->
                             IF T = {} THEN 0 ELSE h[T \ {Max(T)}] + list[Max(T)].pnl]
<1>1. n \in Nat /\ DOMAIN list = Places(n)
  BY DEF Places
<1>2. \A h : Iter(h) <=> Running(h, w, n)
  <2>1. ASSUME NEW T \in SUBSET Places(n), T # {} PROVE w[Max(T)] = list[Max(T)].pnl
    <3>1. Max(T) \in Places(n)
      BY <1>1, <2>1, GreatestNumber DEF Places
    <3> QED
      BY <3>1 DEF Gains
  <2> QED
    BY <1>1, <2>1 DEF Running
<1>3. Money(list) = (CHOOSE h : Iter(h))[DOMAIN list]
  BY DEF Money, SumOver, FoldLeft, MapThenFoldSet, Max
<1> HIDE DEF Iter
<1>4. (CHOOSE h : Iter(h)) = (CHOOSE h : Running(h, w, n))
  BY <1>2
<1> QED
  BY <1>1, <1>3, <1>4 DEF RunningSum

LEMMA NothingCosts == Cost(<<>>) = 0 /\ Money(<<>>) = 0
<1>1. <<>> \in Seq(LotOf) /\ <<>> \in Seq(TradeRecord) /\ Len(<<>>) = 0
  OBVIOUS
<1>2. Costs(<<>>) = <<>> /\ Gains(<<>>) = <<>>
  <2>1. Places(Len(<<>>)) = {}
    BY DEF Places
  <2> QED
    BY <2>1 DEF Costs, Gains
<1>3. Cost(<<>>) = RunningSum(Costs(<<>>), Len(<<>>))
  BY <1>1, CostIsSum
<1>4. Money(<<>>) = RunningSum(Gains(<<>>), Len(<<>>))
  BY <1>1, GainIsSum
<1> QED
  BY <1>1, <1>2, <1>3, <1>4, NoSum, Zenon

\* One position more, and one trade more;
LEMMA CostOfMore ==
    ASSUME NEW list \in Seq(LotOf), NEW p \in LotOf
    PROVE  /\ Cost(Append(list, p)) = Cost(list) + (p.entry * p.qty + p.fee)
           /\ Cost(list) \in Int
<1> DEFINE n == Len(list)
           more == Append(list, p)
           w == Costs(list)
           v == Costs(more)
<1>1. more \in Seq(LotOf) /\ Len(more) = n + 1 /\ n \in Nat
  OBVIOUS
<1>2. w \in [Places(n) -> Int] /\ v \in [Places(n + 1) -> Int]
  BY <1>1, CostsType, Zenon
<1>3. v[n + 1] = p.entry * p.qty + p.fee
  <2>1. more[n + 1] = p /\ n + 1 \in Places(n + 1)
    BY DEF Places
  <2> QED
    BY <1>1, <2>1 DEF Costs
<1>4. \A i \in 1 .. n : v[i] = w[i]
  <2>1. ASSUME NEW i \in 1 .. n PROVE more[i] = list[i] /\ i \in Places(n) /\ i \in Places(n + 1)
    BY DEF Places
  <2> QED
    BY <1>1, <2>1 DEF Costs
<1>5. Cost(more) = RunningSum(v, n + 1) /\ Cost(list) = RunningSum(w, n)
  BY <1>1, CostIsSum, Zenon
<1> HIDE DEF more, w, v, n
<1>6. /\ RunningSum(v, n + 1) = RunningSum(w, n) + v[n + 1]
      /\ RunningSum(w, n) \in Int
  BY <1>1, <1>2, <1>4, SumGrows
<1>7. Cost(more) = Cost(list) + (p.entry * p.qty + p.fee) /\ Cost(list) \in Int
  BY <1>3, <1>5, <1>6, Zenon
<1> QED
  BY <1>7 DEF more

LEMMA GainOfMore ==
    ASSUME NEW list \in Seq(TradeRecord), NEW x \in TradeRecord
    PROVE  /\ Money(Append(list, x)) = Money(list) + x.pnl
           /\ Money(list) \in Int
<1> DEFINE n == Len(list)
           more == Append(list, x)
           w == Gains(list)
           v == Gains(more)
<1>1. more \in Seq(TradeRecord) /\ Len(more) = n + 1 /\ n \in Nat
  OBVIOUS
<1>2. w \in [Places(n) -> Int] /\ v \in [Places(n + 1) -> Int]
  BY <1>1, GainsType, Zenon
<1>3. v[n + 1] = x.pnl
  <2>1. more[n + 1] = x /\ n + 1 \in Places(n + 1)
    BY DEF Places
  <2> QED
    BY <1>1, <2>1 DEF Gains
<1>4. \A i \in 1 .. n : v[i] = w[i]
  <2>1. ASSUME NEW i \in 1 .. n PROVE more[i] = list[i] /\ i \in Places(n) /\ i \in Places(n + 1)
    BY DEF Places
  <2> QED
    BY <1>1, <2>1 DEF Gains
<1>5. Money(more) = RunningSum(v, n + 1) /\ Money(list) = RunningSum(w, n)
  BY <1>1, GainIsSum, Zenon
<1> HIDE DEF more, w, v, n
<1>6. /\ RunningSum(v, n + 1) = RunningSum(w, n) + v[n + 1]
      /\ RunningSum(w, n) \in Int
  BY <1>1, <1>2, <1>4, SumGrows
<1>7. Money(more) = Money(list) + x.pnl /\ Money(list) \in Int
  BY <1>3, <1>5, <1>6, Zenon
<1> QED
  BY <1>7 DEF more

\* and one position less, whichever.
LEMMA CostOfLess ==
    ASSUME NEW list \in Seq(LotOf), NEW j \in 1 .. Len(list), NEW less \in Seq(LotOf),
           Len(less) = Len(list) - 1,
           \A i \in 1 .. Len(list) - 1 : less[i] = IF i < j THEN list[i] ELSE list[i + 1]
    PROVE  /\ Cost(less) = Cost(list) - (list[j].entry * list[j].qty + list[j].fee)
           /\ Cost(list) \in Int
<1> DEFINE n == Len(list)
           w == Costs(list)
           v == Costs(less)
<1>1. n \in Nat /\ Len(less) = n - 1
  OBVIOUS
<1>2. w \in [Places(n) -> Int] /\ v \in [Places(n - 1) -> Int]
  BY <1>1, CostsType, Zenon
<1>3. w[j] = list[j].entry * list[j].qty + list[j].fee
  <2>1. j \in Places(n)
    BY DEF Places
  <2> QED
    BY <2>1 DEF Costs
<1>4. \A i \in 1 .. n - 1 : v[i] = IF i < j THEN w[i] ELSE w[i + 1]
  <2>1. ASSUME NEW i \in 1 .. n - 1
        PROVE  i \in Places(n - 1) /\ i \in Places(n) /\ i + 1 \in Places(n)
    BY <1>1 DEF Places
  <2>2. ASSUME NEW i \in 1 .. n - 1, i < j PROVE v[i] = w[i]
    <3>1. less[i] = list[i]
      BY <2>2
    <3> QED
      BY <1>1, <2>1, <3>1 DEF Costs
  <2>3. ASSUME NEW i \in 1 .. n - 1, ~ (i < j) PROVE v[i] = w[i + 1]
    <3>1. less[i] = list[i + 1]
      BY <2>3
    <3> QED
      BY <1>1, <2>1, <3>1 DEF Costs
  <2> QED
    BY <2>2, <2>3
<1>5. Cost(less) = RunningSum(v, n - 1) /\ Cost(list) = RunningSum(w, n)
  BY <1>1, CostIsSum, Zenon
<1> HIDE DEF w, v, n
<1>6. /\ RunningSum(v, n - 1) = RunningSum(w, n) - w[j]
      /\ RunningSum(w, n) \in Int
  <2>1. j \in 1 .. n
    BY DEF n
  <2> QED
    BY <1>1, <1>2, <1>4, <2>1, SumShrinks
<1> QED
  BY <1>3, <1>5, <1>6, Zenon

\* The cash with what the open positions cost is the capital and the gains so
\* far; a finished curve ends with the cash, nothing being open.
CashInv ==
    /\ cash + Cost(positions) = StartingCapital + Money(trades)
    /\ phase \in {"final", "done"} => equity # <<>>
    /\ phase = "done" => positions = <<>> /\ Last(equity) = cash

LEMMA CashStarts == IsSimulation /\ SimulationInit => CashInv
<1> SUFFICES ASSUME IsSimulation, SimulationInit PROVE CashInv
  OBVIOUS
<1>1. phase = "bar" /\ cash = StartingCapital /\ positions = <<>> /\ trades = <<>>
  BY DEF SimulationInit
<1>2. Cost(positions) = 0 /\ Money(trades) = 0
  BY <1>1, NothingCosts
<1>3. StartingCapital \in Int
  BY DEF IsSimulation
<1> QED
  BY <1>1, <1>2, <1>3 DEF CashInv

\* A step that touches neither cash, positions nor trades, nor ends the timeline.
LEMMA CashKept ==
    ASSUME CashInv, cash' = cash, positions' = positions, trades' = trades,
           phase' \in {"final", "done"} => phase = phase' /\ equity' = equity
    PROVE  CashInv'
<1>1. Cost(positions') = Cost(positions) /\ Money(trades') = Money(trades)
  OBVIOUS
<1>2. cash' + Cost(positions') = StartingCapital + Money(trades')
  BY <1>1 DEF CashInv
<1>3. phase' \in {"final", "done"} => equity' # <<>>
  BY DEF CashInv
<1>4. phase' = "done" => positions' = <<>> /\ Last(equity') = cash'
  BY DEF CashInv
<1> QED
  BY <1>2, <1>3, <1>4 DEF CashInv

LEMMA SaleBalances ==
    ASSUME NEW c \in Int, NEW held \in Int, NEW m \in Int, NEW got \in Int, NEW cost \in Int,
           NEW capital \in Int, c + held = capital + m
    PROVE  (c + got) + (held - cost) = capital + (m + (got - cost))
OBVIOUS

LEMMA ExitNextBalances ==
    ASSUME IsSimulation, SimulationType, CashInv, ExitNext
    PROVE  CashInv'
<1>a. PICK p : p = positions[slot]
  OBVIOUS
<1>b. PICK reason : reason = ExitReason(p)
  OBVIOUS
<1>1. /\ phase = "exits" /\ slot <= Len(positions) /\ phase' = phase
  BY DEF ExitNext
<1>2. positions \in Seq(LotOf) /\ slot \in 1 .. Len(positions) /\ p \in LotOf /\ trades \in Seq(TradeRecord)
  BY <1>a, <1>1 DEF SimulationType
<1>3. CASE reason = Absent
  <2>1. UNCHANGED <<cash, positions, trades>>
    BY <1>a, <1>b, <1>3 DEF ExitNext
  <2> QED
    BY <1>1, <2>1, CashKept
<1>4. CASE reason # Absent
  <2>c. PICK raw : raw = RawExit(p, reason)
    OBVIOUS
  <2>1. /\ cash' = cash + Proceeds(p, raw)
        /\ trades' = Append(trades, TradeOf(p, raw, reason))
        /\ positions' = RemoveAt(positions, slot)
    BY <1>a, <1>b, <1>4, <2>c DEF ExitNext
  <2>2. reason \in {"STOP_LOSS_GAP", "SIGNAL_EXIT", "STOP_LOSS"} /\ raw \in Int
    BY <1>2, <1>4, <1>b, <2>c, ExitType
  <2>3. /\ positions' \in Seq(LotOf) /\ Len(positions') = Len(positions) - 1
        /\ \A i \in 1 .. Len(positions) - 1 :
              positions'[i] = IF i < slot THEN positions[i] ELSE positions[i + 1]
    BY <1>2, <2>1, Removed
  <2>4. /\ Proceeds(p, raw) \in Int
        /\ TradeOf(p, raw, reason) \in TradeRecord
        /\ TradeOf(p, raw, reason).pnl =
              Proceeds(p, raw) - (p.entry * p.qty + p.fee)
        /\ p.entry * p.qty + p.fee \in Int
    BY <1>2, <2>2, SaleType
  <2>5. /\ Cost(positions') = Cost(positions) - (p.entry * p.qty + p.fee)
        /\ Cost(positions) \in Int
    BY <1>2, <1>a, <2>3, CostOfLess
  <2>6. /\ Money(trades') =
              Money(trades) + (Proceeds(p, raw) - (p.entry * p.qty + p.fee))
        /\ Money(trades) \in Int
    BY <1>2, <2>1, <2>4, GainOfMore
  <2>7. cash \in Int /\ StartingCapital \in Int
        /\ cash + Cost(positions) = StartingCapital + Money(trades)
    BY DEF SimulationType, CashInv, IsSimulation
  <2>8. (cash + Proceeds(p, raw)) + (Cost(positions) - (p.entry * p.qty + p.fee))
        = StartingCapital +
            (Money(trades) + (Proceeds(p, raw) - (p.entry * p.qty + p.fee)))
    BY <2>4, <2>5, <2>6, <2>7, SaleBalances
  <2>9. cash' + Cost(positions') = StartingCapital + Money(trades')
    BY <2>1, <2>5, <2>6, <2>8, Zenon
  <2> QED
    BY <1>1, <2>9 DEF CashInv
<1> QED
  BY <1>3, <1>4

LEMMA EnterNextBalances ==
    ASSUME IsSimulation, SimulationType, CashInv, EnterNext
    PROVE  CashInv'
<1>a. PICK s : s = pending[slot]
  OBVIOUS
<1>b. PICK p : p = NewPosition(s)
  OBVIOUS
<1>1. /\ phase = "entries" /\ slot <= Len(pending) /\ phase' = phase
  BY DEF EnterNext
<1>2. s \in SymbolSet /\ positions \in Seq(LotOf) /\ trades \in Seq(TradeRecord)
  BY <1>a, <1>1 DEF SimulationType
<1>3. CASE UNCHANGED <<cash, positions, trades>>
  BY <1>1, <1>3, CashKept
<1>4. CASE ~ UNCHANGED <<cash, positions, trades>>
  <2>0. bar[s] # Absent
    BY <1>a, <1>b, <1>4 DEF EnterNext
  <2>1. \/ /\ cash' = cash - (p.entry * p.qty + BuyCost)
           /\ positions' = Append(positions, p)
           /\ UNCHANGED trades
        \/ /\ cash' = cash - (p.entry * p.qty + BuyCost) + Proceeds(p, p.stop)
           /\ trades' = Append(trades, TradeOf(p, p.stop, "STOP_LOSS"))
           /\ UNCHANGED positions
    BY <1>a, <1>b, <1>4, <2>0 DEF EnterNext
  <2>2. p \in LotOf /\ p.fee = BuyCost /\ p.stop \in Int
    BY <1>b, <1>2, <2>0, OpenedType DEF LotOf
  <2>3. /\ Proceeds(p, p.stop) \in Int
        /\ TradeOf(p, p.stop, "STOP_LOSS") \in TradeRecord
        /\ TradeOf(p, p.stop, "STOP_LOSS").pnl =
              Proceeds(p, p.stop) - (p.entry * p.qty + p.fee)
        /\ p.entry * p.qty + p.fee \in Int
    BY <2>2, SaleType
  <2>4. cash \in Int /\ StartingCapital \in Int
        /\ cash + Cost(positions) = StartingCapital + Money(trades)
    BY DEF SimulationType, CashInv, IsSimulation
  <2>d. PICK cost : cost = p.entry * p.qty + p.fee
    OBVIOUS
  <2>5. CASE /\ cash' = cash - (p.entry * p.qty + BuyCost)
             /\ positions' = Append(positions, p)
             /\ UNCHANGED trades
    <3>1. Cost(positions') = Cost(positions) + cost /\ Cost(positions) \in Int
      BY <1>2, <2>2, <2>5, <2>d, CostOfMore
    <3>2. cash' = cash - cost /\ cost \in Int /\ trades' = trades
      BY <2>2, <2>3, <2>5, <2>d, Zenon
    <3>3. cash' + Cost(positions') = cash + Cost(positions)
      BY <2>4, <3>1, <3>2
    <3>4. cash' + Cost(positions') = StartingCapital + Money(trades')
      BY <2>4, <3>2, <3>3
    <3> QED
      BY <1>1, <3>4 DEF CashInv
  <2>6. CASE /\ cash' = cash - (p.entry * p.qty + BuyCost) + Proceeds(p, p.stop)
             /\ trades' = Append(trades, TradeOf(p, p.stop, "STOP_LOSS"))
             /\ UNCHANGED positions
    <3>e. PICK got : got = Proceeds(p, p.stop)
      OBVIOUS
    <3>1. Money(trades') = Money(trades) + (got - cost)
          /\ Money(trades) \in Int
      BY <1>2, <2>3, <2>6, <2>d, <3>e, GainOfMore
    <3>2. cash' = (cash - cost) + got /\ cost \in Int /\ got \in Int /\ positions' = positions
      BY <2>2, <2>3, <2>6, <2>d, <3>e, Zenon
    <3>3. Cost(positions) \in Int
      BY <1>2, <2>2, CostOfMore
    <3>4. cash' + Cost(positions) = StartingCapital + Money(trades')
      BY <2>4, <3>1, <3>2, <3>3
    <3>5. Cost(positions') = Cost(positions)
      BY <3>2
    <3>6. cash' + Cost(positions') = StartingCapital + Money(trades')
      BY <3>4, <3>5, Zenon
    <3> QED
      BY <1>1, <3>6 DEF CashInv
  <2> QED
    BY <2>1, <2>5, <2>6
<1> QED
  BY <1>3, <1>4

LEMMA CloseBarBalances ==
    ASSUME SimulationType, CashInv, CloseBar
    PROVE  CashInv'
<1>1. /\ phase' \in {"bar", "final"} /\ UNCHANGED <<cash, positions, trades>>
      /\ \E v : equity' = Append(equity, v)
  BY DEF CloseBar
<1>2. equity' # <<>>
  <2>1. PICK v : equity' = Append(equity, v)
    BY <1>1
  <2>2. PICK S : equity \in Seq(S)
    BY DEF SimulationType
  <2>3. Len(equity) \in Nat /\ Len(equity') = Len(equity) + 1
    BY <2>1, <2>2
  <2> QED
    BY <2>3
<1>3. cash' + Cost(positions') = StartingCapital + Money(trades')
  <2>1. Cost(positions') = Cost(positions) /\ Money(trades') = Money(trades)
    BY <1>1
  <2> QED
    BY <1>1, <2>1 DEF CashInv
<1> QED
  BY <1>1, <1>2, <1>3 DEF CashInv

LEMMA LiquidateNextBalances ==
    ASSUME IsSimulation, SimulationType, CashInv, LiquidateNext
    PROVE  CashInv'
<1>a. PICK p : p = Head(positions)
  OBVIOUS
<1>b. PICK raw : raw = IF lastClose[p.sym] = Absent THEN p.entry ELSE lastClose[p.sym]
  OBVIOUS
<1>1. /\ phase = "final" /\ positions # <<>> /\ phase' = phase /\ equity' = equity
      /\ cash' = cash + Proceeds(p, raw)
      /\ trades' = Append(trades, TradeOf(p, raw, "FINAL_LIQUIDATION"))
      /\ positions' = Tail(positions)
  BY <1>a, <1>b DEF LiquidateNext
<1>2. /\ positions \in Seq(LotOf) /\ trades \in Seq(TradeRecord)
      /\ p \in LotOf /\ p = positions[1] /\ 1 \in 1 .. Len(positions)
  BY <1>a, <1>1 DEF SimulationType
<1>3. raw \in Int
  <2>1. p.sym \in SymbolSet /\ p.entry \in Int
    BY <1>2 DEF LotOf
  <2> QED
    BY <1>b, <2>1 DEF SimulationType
<1>4. /\ Proceeds(p, raw) \in Int
      /\ TradeOf(p, raw, "FINAL_LIQUIDATION") \in TradeRecord
      /\ TradeOf(p, raw, "FINAL_LIQUIDATION").pnl =
            Proceeds(p, raw) - (p.entry * p.qty + p.fee)
      /\ p.entry * p.qty + p.fee \in Int
  BY <1>2, <1>3, SaleType
<1>5. /\ positions' \in Seq(LotOf) /\ Len(positions') = Len(positions) - 1
      /\ \A i \in 1 .. Len(positions) - 1 :
            positions'[i] = IF i < 1 THEN positions[i] ELSE positions[i + 1]
  BY <1>1, <1>2
<1>6. /\ Cost(positions') = Cost(positions) - (p.entry * p.qty + p.fee)
      /\ Cost(positions) \in Int
  BY <1>2, <1>5, CostOfLess
<1>7. /\ Money(trades') =
            Money(trades) + (Proceeds(p, raw) - (p.entry * p.qty + p.fee))
      /\ Money(trades) \in Int
  BY <1>1, <1>2, <1>4, GainOfMore
<1>8. cash \in Int /\ StartingCapital \in Int
      /\ cash + Cost(positions) = StartingCapital + Money(trades)
  BY DEF SimulationType, CashInv, IsSimulation
<1>9. (cash + Proceeds(p, raw)) + (Cost(positions) - (p.entry * p.qty + p.fee))
      = StartingCapital +
          (Money(trades) + (Proceeds(p, raw) - (p.entry * p.qty + p.fee)))
  BY <1>4, <1>6, <1>7, <1>8, SaleBalances
<1>10. cash' + Cost(positions') = StartingCapital + Money(trades')
  BY <1>1, <1>6, <1>7, <1>9, Zenon
<1> QED
  BY <1>1, <1>10 DEF CashInv

LEMMA FinishBalances ==
    ASSUME SimulationType, CashInv, Finish
    PROVE  CashInv'
<1>1. /\ phase = "final" /\ positions = <<>> /\ phase' = "done"
      /\ equity' = [equity EXCEPT ![Len(equity)] = cash]
      /\ UNCHANGED <<cash, positions, trades>>
  BY DEF Finish
<1>2. Len(equity') = Len(equity) /\ Len(equity) \in Nat \ {0} /\ equity'[Len(equity)] = cash
  <2>1. PICK S : equity \in Seq(S)
    BY DEF SimulationType
  <2>2. equity # <<>>
    BY <1>1 DEF CashInv
  <2>3. Len(equity) \in Nat \ {0} /\ DOMAIN equity = 1 .. Len(equity)
    BY <2>1, <2>2
  <2>4. Len(equity) \in DOMAIN equity
    BY <2>3
  <2>5. equity' \in [1 .. Len(equity) -> S \cup {cash}] /\ equity'[Len(equity)] = cash
    BY <1>1, <2>1, <2>3, <2>4
  <2>6. Len(equity') = Len(equity)
    BY <2>3, <2>5
  <2> QED
    BY <2>3, <2>5, <2>6
<1>3. equity' # <<>> /\ Last(equity') = cash'
  BY <1>1, <1>2 DEF Last
<1>4. cash' + Cost(positions') = StartingCapital + Money(trades')
  <2>1. Cost(positions') = Cost(positions) /\ Money(trades') = Money(trades)
    BY <1>1
  <2> QED
    BY <1>1, <2>1 DEF CashInv
<1> QED
  BY <1>1, <1>3, <1>4 DEF CashInv

LEMMA QuietBalances ==
    ASSUME SimulationType, CashInv,
           NextBar \/ ExitsDone \/ UNCHANGED simulationVars
    PROVE  CashInv'
<1>1. CASE NextBar
  <2>1. UNCHANGED <<cash, positions, trades>> /\ phase' = "exits"
    BY <1>1 DEF NextBar
  <2> QED
    BY <2>1, CashKept
<1>2. CASE ExitsDone
  <2>1. UNCHANGED <<cash, positions, trades>> /\ phase' = "entries"
    BY <1>2 DEF ExitsDone
  <2> QED
    BY <2>1, CashKept
<1>3. CASE UNCHANGED simulationVars
  <2>1. UNCHANGED <<cash, positions, trades, phase, equity>>
    BY <1>3 DEF simulationVars
  <2> QED
    BY <2>1, CashKept
<1> QED
  BY <1>1, <1>2, <1>3

LEMMA CashInvariant ==
    ASSUME IsSimulation
    PROVE  SimulationSpec => []CashInv
<1>1. SimulationInit => CashInv
  BY CashStarts
<1>2. SimulationType /\ CashInv /\ [SimulationNext]_simulationVars => CashInv'
  BY QuietBalances, ExitNextBalances, EnterNextBalances, CloseBarBalances,
     LiquidateNextBalances, FinishBalances DEF SimulationNext
<1> QED
  BY <1>1, <1>2, SimulationInvariant, PTL DEF SimulationSpec

\* No rupee is made or lost outside the trades of a simulation (_run_simulation:
\* the cash of every sale and purchase, and the last point of the equity curve),
\* for every universe, timeline, allocation, cost and slippage.
THEOREM CashIsConserved == SimulationSpec => []CashConserved
<1> USE SimulationAssumption
<1>1. SimulationType /\ CashInv => CashConserved
  <2> SUFFICES ASSUME SimulationType, CashInv PROVE CashConserved
    OBVIOUS
  <2>1. cash + Cost(positions) = StartingCapital + Money(trades)
    BY DEF CashInv
  <2>2. ASSUME phase = "done" PROVE Last(equity) = StartingCapital + Money(trades)
    <3>1. Cost(positions) = 0 /\ Last(equity) = cash
      BY <2>2, NothingCosts DEF CashInv
    <3>2. cash \in Int
      BY DEF SimulationType
    <3> QED
      BY <2>1, <3>1, <3>2
  <2> QED
    BY <2>1, <2>2 DEF CashConserved, Cost
<1> QED
  BY <1>1, SimulationInvariant, CashInvariant, PTL

\* A higher price is never filled lower.
LEMMA FillsInOrder ==
    ASSUME IsSimulation, NEW x \in Int, NEW y \in Int, x <= y
    PROVE  SellFill(x) <= SellFill(y)
<1>1. ASSUME NEW z \in Int
      PROVE  /\ Max({1, z}) \in {1, z}
             /\ Max({1, z}) >= 1 /\ Max({1, z}) >= z
  <2>1. \E m \in {1, z} : \A n \in {1, z} : m >= n
    <3>1. 1 >= z \/ z >= 1
      OBVIOUS
    <3> QED
      BY <3>1
  <2>2. /\ Max({1, z}) \in {1, z}
        /\ \A n \in {1, z} : Max({1, z}) >= n
    BY <2>1 DEF Max
  <2> QED
    BY <2>2
<1>2. x - Slip \in Int /\ y - Slip \in Int /\ x - Slip <= y - Slip
  BY DEF IsSimulation
<1>3. PICK p \in Int : p = x - Slip
  BY <1>2
<1>4. PICK q \in Int : q = y - Slip
  BY <1>2
<1>5. Max({1, p}) <= Max({1, q})
  <2>1. p <= q
    BY <1>2, <1>3, <1>4
  <2>2. Max({1, p}) \in {1, p} /\ Max({1, q}) >= 1 /\ Max({1, q}) >= q
        /\ Max({1, q}) \in {1, q}
    BY <1>1
  <2> QED
    BY <2>1, <2>2
<1>6. SellFill(x) = Max({1, p}) /\ SellFill(y) = Max({1, q})
  BY <1>3, <1>4 DEF SellFill
<1> QED
  BY <1>5, <1>6

\* The stop of an entry is no higher than the open it was bought at, its slippage included.
SlipWithinStop == \A b \in BarShapes : (b.open + Slip) * StopPct <= 100 * b.open

\* What a trade added in a step was sold at.
LEMMA TradeAdded ==
    ASSUME IsSimulation, SimulationType, NEW p \in LotOf, NEW raw \in Int,
           NEW reason \in {"STOP_LOSS_GAP", "SIGNAL_EXIT", "STOP_LOSS"},
           trades' = Append(trades, TradeOf(p, raw, reason)),
           raw <= bar[p.sym].high, bar[p.sym].high \in Int
    PROVE  Last(trades').exit
             <= SellFill(bar[Last(trades').sym].high)
<1>1. trades \in Seq(TradeRecord)
  BY DEF SimulationType
<1>2. PICK x : x = TradeOf(p, raw, reason)
  OBVIOUS
<1>3. x.exit = SellFill(raw) /\ x.sym = p.sym
  BY <1>2 DEF TradeOf
<1>4. x \in TradeRecord
  BY <1>2, SaleType
<1>5. Last(trades') = x
  <2>1. Append(trades, x)[Len(Append(trades, x))] = x
    BY <1>1, <1>4
  <2> QED
    BY <1>2, <2>1 DEF Last
<1>6. SellFill(raw) <= SellFill(bar[p.sym].high)
  BY FillsInOrder
<1> QED
  BY <1>3, <1>5, <1>6, Zenon

LEMMA ExitAtTradedPrice ==
    ASSUME IsSimulation, SimulationType, ExitNext, Len(trades') > Len(trades)
    PROVE  Last(trades').exit
             <= SellFill(bar[Last(trades').sym].high)
<1>a. PICK p : p = positions[slot]
  OBVIOUS
<1>b. PICK reason : reason = ExitReason(p)
  OBVIOUS
<1>c. PICK raw : raw = RawExit(p, reason)
  OBVIOUS
<1>1. p \in LotOf
  BY <1>a DEF SimulationType, ExitNext
<1>2. reason # Absent
  <2> SUFFICES ASSUME reason = Absent PROVE FALSE
    OBVIOUS
  <2>1. trades' = trades /\ Len(trades) \in Nat
    BY <1>a, <1>b DEF ExitNext, SimulationType
  <2> QED
    BY <2>1
<1>3. trades' = Append(trades, TradeOf(p, raw, reason))
  BY <1>a, <1>b, <1>c, <1>2 DEF ExitNext
<1>4. reason \in {"STOP_LOSS_GAP", "SIGNAL_EXIT", "STOP_LOSS"} /\ raw \in Int
  BY <1>1, <1>2, <1>b, <1>c, ExitType
<1>5. bar[p.sym] # Absent /\ p.sym \in SymbolSet /\ p.stop \in Int
  BY <1>1, <1>2, <1>b DEF ExitReason, LotOf
<1>6. bar[p.sym] \in BarShapes
  BY <1>5, PricesType
<1>7. /\ bar[p.sym].open \in Int /\ bar[p.sym].high \in Int
      /\ bar[p.sym].open <= bar[p.sym].high
  <2>1. \A b \in BarShapes : {b.open, b.high} \subseteq Nat \ {0} /\ b.open <= b.high
    BY DEF IsSimulation
  <2> QED
    BY <1>6, <2>1
<1>8. raw <= bar[p.sym].high
  <2>1. CASE reason = "STOP_LOSS_GAP"
    <3>1. raw = Min({bar[p.sym].open, p.stop})
      BY <1>c, <2>1 DEF RawExit
    <3>2. bar[p.sym].open <= p.stop
      BY <1>b, <1>2, <2>1, <1>5 DEF ExitReason
    <3>3. raw = bar[p.sym].open
      <4>1. raw \in {bar[p.sym].open, p.stop} /\ raw <= p.stop /\ raw <= bar[p.sym].open
        <5>1. \E m \in {bar[p.sym].open, p.stop} : \A n \in {bar[p.sym].open, p.stop} : m <= n
          BY <3>2, <1>5, <1>7
        <5> QED
          BY <3>1, <5>1 DEF Min
      <4> QED
        BY <1>5, <1>7, <3>2, <4>1
    <3> QED
      BY <1>7, <3>3
  <2>2. CASE reason = "SIGNAL_EXIT"
    <3>1. raw = bar[p.sym].open
      BY <1>c, <2>2 DEF RawExit
    <3> QED
      BY <1>7, <3>1
  <2>3. CASE reason = "STOP_LOSS"
    <3>1. raw = p.stop
      BY <1>c, <2>3 DEF RawExit
    <3>2. ~ (bar[p.sym].open <= p.stop)
      BY <1>b, <2>3, <1>5 DEF ExitReason
    <3> QED
      BY <1>5, <1>7, <3>1, <3>2
  <2> QED
    BY <1>4, <2>1, <2>2, <2>3
<1> QED
  BY <1>1, <1>3, <1>4, <1>7, <1>8, TradeAdded

LEMMA EntryAtTradedPrice ==
    ASSUME IsSimulation, SlipWithinStop, SimulationType, EnterNext,
           Len(trades') > Len(trades)
    PROVE  Last(trades').exit
             <= SellFill(bar[Last(trades').sym].high)
<1>a. PICK s : s = pending[slot]
  OBVIOUS
<1>b. PICK p : p = NewPosition(s)
  OBVIOUS
<1>1. s \in SymbolSet
  BY <1>a DEF SimulationType, EnterNext
<1>2. trades' # trades
  BY DEF SimulationType
<1>3. bar[s] # Absent
  BY <1>a, <1>b, <1>2 DEF EnterNext
<1>4. /\ trades' = Append(trades, TradeOf(p, p.stop, "STOP_LOSS"))
      /\ strategy # "hold"
  BY <1>a, <1>b, <1>2, <1>3 DEF EnterNext, StoppedAtOnce
<1>5. p \in LotOf /\ p.sym = s /\ p.stop \in Int
  BY <1>b, <1>1, <1>3, OpenedType DEF LotOf
<1>6. bar[s] \in BarShapes
  BY <1>1, <1>3, PricesType
<1>7. /\ bar[s].open \in Nat /\ bar[s].high \in Int /\ bar[s].open <= bar[s].high
      /\ Slip \in Nat /\ StopPct \in Nat
  <2>1. \A b \in BarShapes : {b.open, b.high} \subseteq Nat \ {0} /\ b.open <= b.high
    BY DEF IsSimulation
  <2> QED
    BY <1>6, <2>1 DEF IsSimulation
<1>8. p.stop = ((bar[s].open + Slip) * StopPct) \div 100
  BY <1>b, <1>4 DEF NewPosition, EntryProposal, BuyFill
<1>9. p.stop <= bar[s].open
  <2>1. PICK m : m = (bar[s].open + Slip) * StopPct
    OBVIOUS
  <2>2. m \in Nat
    BY <1>7, <2>1
  <2>3. m <= 100 * bar[s].open
    BY <1>6, <2>1 DEF SlipWithinStop
  <2>4. m \div 100 <= bar[s].open
    BY <1>7, <2>2, <2>3
  <2> QED
    BY <1>8, <2>1, <2>4, Zenon
<1>10. p.stop <= bar[p.sym].high /\ bar[p.sym].high \in Int
  BY <1>5, <1>7, <1>9
<1> QED
  BY <1>4, <1>5, <1>10, TradeAdded

\* A sale inside a bar is filled at no better price than the bar traded at
\* (_run_simulation: a gap through the stop costs the gap), for every universe,
\* timeline and cost, while the slippage is smaller than the stop distance.
THEOREM SalesAreAtTradedPrices ==
    ASSUME SlipWithinStop
    PROVE  SimulationSpec => SalesAtTradedPrices
<1> USE SimulationAssumption
<1> DEFINE Fair == Len(trades') > Len(trades) /\ phase \in {"exits", "entries"} =>
                     Last(trades').exit
                       <= SellFill(bar[Last(trades').sym].high)
<1>1. SimulationType /\ [SimulationNext]_simulationVars => [Fair]_simulationVars
  <2> SUFFICES ASSUME SimulationType, SimulationNext, Len(trades') > Len(trades),
                      phase \in {"exits", "entries"}
               PROVE  Last(trades').exit
                        <= SellFill(bar[Last(trades').sym].high)
    OBVIOUS
  <2>1. trades' # trades
    BY DEF SimulationType
  <2>2. ExitNext \/ EnterNext
    BY <2>1 DEF SimulationNext, NextBar, ExitsDone, CloseBar,
                LiquidateNext, Finish
  <2> QED
    BY <2>2, ExitAtTradedPrice, EntryAtTradedPrice
<1> QED
  BY <1>1, SimulationInvariant, PTL DEF SimulationSpec, SalesAtTradedPrices
-----------------------------------------------------------------------------
(***************************************************************************)
(* Sums of the values of a function, as FoldFunction takes them.            *)
(***************************************************************************)

SumOf(w, S) == (CHOOSE g : Adds(g, w, S))[S]

LEMMA SumOfAdds ==
    ASSUME NEW S, IsFiniteSet(S), NEW w \in [S -> Int]
    PROVE  \E g : Adds(g, w, S) /\ SumOf(w, S) = g[S] /\ SumOf(w, S) \in Int
<1> PICK g : g = CHOOSE h : Adds(h, w, S)
  OBVIOUS
<1>1. Adds(g, w, S)
  BY AddsExists
<1>2. SumOf(w, S) = g[S]
  BY DEF SumOf
<1>3. g[S] \in Int
  BY <1>1, AddsType
<1> QED
  BY <1>1, <1>2, <1>3

\* What adds nothing negative is not negative,
LEMMA SumNotNegative ==
    ASSUME NEW S, IsFiniteSet(S), NEW w \in [S -> Nat]
    PROVE  SumOf(w, S) \in Nat
<1>0. w \in [S -> Int]
  OBVIOUS
<1>1. PICK g : Adds(g, w, S) /\ SumOf(w, S) = g[S]
  BY <1>0, SumOfAdds
<1> DEFINE G == {T \in SUBSET S : g[T] \in Nat}
<1>2. ASSUME NEW T \in SUBSET S, \A U \in SUBSET T : U # T => U \in G PROVE T \in G
  <2>1. CASE T = {}
    BY <1>1, <2>1 DEF Adds
  <2>2. CASE T # {}
    <3>1. Pick(T) \in T /\ T \ {Pick(T)} \in SUBSET T /\ T \ {Pick(T)} # T
      BY <2>2 DEF Pick
    <3>2. g[T \ {Pick(T)}] \in Nat
      BY <1>2, <3>1
    <3>3. g[T] = w[Pick(T)] + g[T \ {Pick(T)}]
      BY <1>1, <2>2 DEF Adds
    <3>4. w[Pick(T)] \in Nat
      BY <3>1
    <3> QED
      BY <3>2, <3>3, <3>4
  <2> QED
    BY <2>1, <2>2
<1>3. \A T \in SUBSET S : T \in G
  <2> HIDE DEF G
  <2>1. G \in SUBSET SUBSET S
    BY DEF G
  <2> QED
    BY <1>2, <2>1, SubsetInduction
<1> QED
  BY <1>1, <1>3

LEMMA AddsAll ==
    ASSUME NEW S, IsFiniteSet(S), NEW w \in [S -> Int], NEW g, Adds(g, w, S), NEW x \in S
    PROVE  g[S] = w[x] + g[S \ {x}]
BY AddsAny

LEMMA Difference ==
    ASSUME NEW a \in Int, NEW b \in Int, NEW c \in Int
    PROVE  b + c = (a + c) + (b - a)
OBVIOUS

\* and a value that changes changes the sum by as much.
LEMMA SumChanges ==
    ASSUME NEW S, IsFiniteSet(S), NEW w \in [S -> Int], NEW v \in [S -> Int],
           NEW x \in S, \A y \in S \ {x} : v[y] = w[y]
    PROVE  SumOf(v, S) = SumOf(w, S) + (v[x] - w[x])
<1>1. PICK g : Adds(g, w, S) /\ SumOf(w, S) = g[S]
  BY SumOfAdds
<1>2. PICK h : Adds(h, v, S) /\ SumOf(v, S) = h[S]
  BY SumOfAdds
<1>3. g[S \ {x}] = h[S \ {x}]
  BY <1>1, <1>2, AddsSame
<1>4. g[S] = w[x] + g[S \ {x}]
  <2>0. Adds(g, w, S)
    BY <1>1
  <2> QED
    BY <2>0, AddsAll
<1>5. h[S] = v[x] + h[S \ {x}]
  <2>0. Adds(h, v, S)
    BY <1>2
  <2> QED
    BY <2>0, AddsAll
<1>6. g[S \ {x}] \in Int
  BY <1>1, AddsType
<1>7. v[x] \in Int /\ w[x] \in Int
  OBVIOUS
<1>8. v[x] + g[S \ {x}] = (w[x] + g[S \ {x}]) + (v[x] - w[x])
  BY <1>6, <1>7, Difference
<1> QED
  BY <1>1, <1>2, <1>3, <1>4, <1>5, <1>8, Zenon

\* A sequence of natural numbers has a natural sum.
LEMMA RunningNotNegative ==
    ASSUME NEW n \in Nat, NEW w \in [Places(n) -> Nat]
    PROVE  RunningSum(w, n) \in Nat
<1>0. w \in [Places(n) -> Int]
  OBVIOUS
<1>1. PICK s \in [0 .. n -> Int] : /\ s[0] = 0 /\ s[n] = RunningSum(w, n)
                                   /\ \A m \in 1 .. n : s[m] = s[m - 1] + w[m]
  BY <1>0, PrefixSums
<1> DEFINE G == {m \in Nat : m <= n => s[m] \in Nat}
<1>2. 0 \in G
  BY <1>1
<1>3. ASSUME NEW m \in G PROVE m + 1 \in G
  <2> SUFFICES ASSUME m + 1 <= n PROVE s[m + 1] \in Nat
    OBVIOUS
  <2>1. m + 1 \in 1 .. n /\ (m + 1) - 1 = m /\ m <= n
    OBVIOUS
  <2>2. s[m + 1] = s[m] + w[m + 1] /\ s[m] \in Nat /\ w[m + 1] \in Nat
    BY <1>1, <2>1 DEF Places
  <2> QED
    BY <2>2
<1>4. G = Nat
  <2> HIDE DEF G
  <2>1. G \in SUBSET Nat
    BY DEF G
  <2> QED
    BY <1>2, <1>3, <2>1, CountingUp
<1> QED
  BY <1>1, <1>4
-----------------------------------------------------------------------------
(***************************************************************************)
(* The rebalancing of a portfolio.                                          *)
(***************************************************************************)

Amounts == [AssetSet -> Nat]

OrderRecord == [sym : AssetSet, side : {"BUY", "SELL"}, qty : Nat]

FillRecord ==
    [sym : AssetSet, side : {"BUY", "SELL"}, qty : Nat, left : Int, impact : Int, fee : Int]

RebalanceType ==
    /\ stage \in {"idle", "plan", "bar", "route"}
    /\ cfgs \in StrategyConfigs
    /\ weights \in [StrategyIds -> Nat]
    /\ price \in [AssetSet -> Nat \ {0}] /\ volume \in Amounts
    /\ bookCash \in Nat /\ routerCash \in Nat /\ bookPositions \in Amounts
    /\ orders \in Seq(OrderRecord) /\ fills \in Seq(FillRecord)

LEMMA AssetsAre ==
    ASSUME IsRebalance
    PROVE  /\ Assets \in Seq(AssetSet) /\ Len(Assets) \in Nat /\ DOMAIN Assets = 1 .. Len(Assets)
           /\ IsFiniteSet(AssetSet)
<1>1. Assets \in Seq(AssetSet) /\ Len(Assets) \in Nat /\ DOMAIN Assets = 1 .. Len(Assets)
  BY DEF IsRebalance, AssetSet
<1>2. AssetSet = {Assets[i] : i \in DOMAIN Assets}
  BY DEF AssetSet, Range
<1>3. IsFiniteSet({Assets[i] : i \in 1 .. Len(Assets)})
  <2>1. IsFiniteSet(1 .. Len(Assets))
    BY <1>1, FS_Interval
  <2> DEFINE F == [i \in 1 .. Len(Assets) |-> Assets[i]]
             D == 1 .. Len(Assets)
  <2>2. F \in Surjection(D, {Assets[i] : i \in D})
    <3>1. \A y \in {Assets[i] : i \in D} : \E x \in D : F[x] = y
      OBVIOUS
    <3>2. F \in [D -> {Assets[i] : i \in D}]
      OBVIOUS
    <3> QED
      BY <3>1, <3>2 DEF Surjection
  <2> HIDE DEF F, D
  <2>3. IsFiniteSet({Assets[i] : i \in D})
    BY <2>1, <2>2, FS_Surjection DEF D
  <2> QED
    BY <2>3 DEF D
<1> QED
  BY <1>1, <1>2, <1>3, Zenon

LEMMA TotalIsSum ==
    ASSUME IsRebalance, NEW w \in [StrategyIds -> Nat]
    PROVE  Total(w) \in Nat
<1>1. Total(w) = SumOf(w, StrategyIds)
  BY DEF Total, FoldFunction, FoldFunctionOnSet,
         MapThenFoldSet, SumOf, Adds, Pick
<1>2. IsFiniteSet(StrategyIds)
  BY DEF IsRebalance, IsFiniteSet
<1> QED
  BY <1>1, <1>2, SumNotNegative

\* What the assets of a portfolio are worth at given prices.
Worth(pr, pos) == [s \in AssetSet |-> pos[s] * pr[s]]
Value(pr, pos) == SumOf(Worth(pr, pos), AssetSet)

LEMMA HoldingsIsValue ==
    ASSUME NEW pos
    PROVE  Holdings(pos) = Value(price, pos)
  BY DEF Holdings, FoldFunction, FoldFunctionOnSet,
         MapThenFoldSet, SumOf, Adds, Pick, Value, Worth, AssetSet

LEMMA WorthType ==
    ASSUME IsRebalance, NEW pr \in [AssetSet -> Nat \ {0}], NEW pos \in [AssetSet -> Int]
    PROVE  /\ Worth(pr, pos) \in [AssetSet -> Int] /\ Value(pr, pos) \in Int
           /\ pos \in Amounts => Value(pr, pos) \in Nat
<1>1. ASSUME NEW s \in AssetSet
      PROVE  pos[s] * pr[s] \in Int /\ (pos \in Amounts => pos[s] * pr[s] \in Nat)
  <2>1. pr[s] \in Nat /\ pos[s] \in Int /\ (pos \in Amounts => pos[s] \in Nat)
    BY DEF Amounts
  <2> QED
    BY <2>1
<1>2. Worth(pr, pos) \in [AssetSet -> Int] /\ (pos \in Amounts => Worth(pr, pos) \in [AssetSet -> Nat])
  BY <1>1 DEF Worth
<1> QED
  BY <1>2, AssetsAre, SumOfAdds, SumNotNegative DEF Value

\* A position that changes changes the worth by the price of the difference.
LEMMA ValueChanges ==
    ASSUME IsRebalance, NEW pr \in [AssetSet -> Nat \ {0}],
           NEW pos \in [AssetSet -> Int], NEW new \in [AssetSet -> Int], NEW s \in AssetSet,
           \A r \in AssetSet \ {s} : new[r] = pos[r]
    PROVE  Value(pr, new) = Value(pr, pos) + (new[s] * pr[s] - pos[s] * pr[s])
<1> DEFINE v == Worth(pr, new)
           w == Worth(pr, pos)
<1>1. IsFiniteSet(AssetSet) /\ v \in [AssetSet -> Int] /\ w \in [AssetSet -> Int]
  BY AssetsAre, WorthType
<1>2. \A r \in AssetSet \ {s} : v[r] = w[r]
  BY DEF Worth
<1>3. v[s] = new[s] * pr[s] /\ w[s] = pos[s] * pr[s]
  BY DEF Worth
<1> HIDE DEF v, w
<1>4. SumOf(v, AssetSet) = SumOf(w, AssetSet) + (v[s] - w[s])
  BY <1>1, <1>2, SumChanges
<1> QED
  BY <1>3, <1>4, Zenon DEF v, w, Value

\* What the orders of a side are worth, and what was filled of an asset on a side.
Parts(list, side) == [i \in Places(Len(list)) |->
                        IF list[i].side = side THEN list[i].qty * price[list[i].sym] ELSE 0]

FilledParts(list, s, side) == [i \in Places(Len(list)) |->
                                 IF list[i].sym = s /\ list[i].side = side THEN list[i].qty ELSE 0]

Frictions(list) == [i \in Places(Len(list)) |-> list[i].impact + list[i].fee]

Filled(list, s, side) ==
    FoldLeft(LAMBDA acc, f : acc + (IF f.sym = s /\ f.side = side THEN f.qty ELSE 0), 0, list)

Drag(list) == FoldLeft(LAMBDA acc, f : acc + (f.impact + f.fee), 0, list)

LEMMA TradedNotNegative ==
    ASSUME RebalanceType, NEW list \in Seq(OrderRecord), NEW side
    PROVE  Traded(list, side) \in Nat
<1> DEFINE n == Len(list)
           w == Parts(list, side)
           Iter(h) == h = [T \in SUBSET DOMAIN list |->
                             IF T = {} THEN 0
                             ELSE h[T \ {Max(T)}] +
                                    (IF list[Max(T)].side = side
                                     THEN list[Max(T)].qty * price[list[Max(T)].sym] ELSE 0)]
<1>1. n \in Nat /\ DOMAIN list = Places(n)
  BY DEF Places
<1>2. \A h : Iter(h) <=> Running(h, w, n)
  <2>1. ASSUME NEW T \in SUBSET Places(n), T # {}
        PROVE  w[Max(T)] = IF list[Max(T)].side = side
                           THEN list[Max(T)].qty * price[list[Max(T)].sym] ELSE 0
    <3>1. Max(T) \in Places(n)
      BY <1>1, <2>1, GreatestNumber DEF Places
    <3> QED
      BY <3>1 DEF Parts
  <2> QED
    BY <1>1, <2>1 DEF Running
<1>3. Traded(list, side) = (CHOOSE h : Iter(h))[DOMAIN list]
  BY DEF Traded, FoldLeft, MapThenFoldSet, Max
<1>4. w \in [Places(n) -> Nat]
  <2>1. ASSUME NEW i \in Places(n) PROVE list[i].qty * price[list[i].sym] \in Nat
    <3>1. list[i] \in OrderRecord
      BY <2>1 DEF Places
    <3>2. list[i].qty \in Nat /\ price[list[i].sym] \in Nat
      BY <3>1 DEF OrderRecord, RebalanceType
    <3> QED
      BY <3>2
  <2> QED
    BY <2>1 DEF Parts
<1> HIDE DEF Iter
<1>5. (CHOOSE h : Iter(h)) = (CHOOSE h : Running(h, w, n))
  BY <1>2
<1>6. Traded(list, side) = RunningSum(w, n)
  BY <1>1, <1>3, <1>5 DEF RunningSum
<1> QED
  BY <1>1, <1>4, <1>6, RunningNotNegative

LEMMA FilledIsSum ==
    ASSUME NEW list \in Seq(FillRecord), NEW s, NEW side
    PROVE  /\ Filled(list, s, side) = RunningSum(FilledParts(list, s, side), Len(list))
           /\ FilledParts(list, s, side) \in [Places(Len(list)) -> Int]
<1> DEFINE n == Len(list)
           w == FilledParts(list, s, side)
           Iter(h) == h = [T \in SUBSET DOMAIN list |->
                             IF T = {} THEN 0
                             ELSE h[T \ {Max(T)}] +
                                    (IF list[Max(T)].sym = s /\ list[Max(T)].side = side
                                     THEN list[Max(T)].qty ELSE 0)]
<1>1. n \in Nat /\ DOMAIN list = Places(n)
  BY DEF Places
<1>2. \A h : Iter(h) <=> Running(h, w, n)
  <2>1. ASSUME NEW T \in SUBSET Places(n), T # {}
        PROVE  w[Max(T)] = IF list[Max(T)].sym = s /\ list[Max(T)].side = side
                           THEN list[Max(T)].qty ELSE 0
    <3>1. Max(T) \in Places(n)
      BY <1>1, <2>1, GreatestNumber DEF Places
    <3> QED
      BY <3>1 DEF FilledParts
  <2> QED
    BY <1>1, <2>1 DEF Running
<1>3. Filled(list, s, side) = (CHOOSE h : Iter(h))[DOMAIN list]
  BY DEF Filled, FoldLeft, MapThenFoldSet, Max
<1>4. w \in [Places(n) -> Int]
  <2>1. ASSUME NEW i \in Places(n) PROVE list[i].qty \in Int
    <3>1. list[i] \in FillRecord
      BY <2>1 DEF Places
    <3> QED
      BY <3>1 DEF FillRecord
  <2> QED
    BY <2>1 DEF FilledParts
<1> HIDE DEF Iter
<1>5. (CHOOSE h : Iter(h)) = (CHOOSE h : Running(h, w, n))
  BY <1>2
<1> QED
  BY <1>1, <1>3, <1>4, <1>5 DEF RunningSum

LEMMA DragIsSum ==
    ASSUME NEW list \in Seq(FillRecord)
    PROVE  /\ Drag(list) = RunningSum(Frictions(list), Len(list))
           /\ Frictions(list) \in [Places(Len(list)) -> Int]
<1> DEFINE n == Len(list)
           w == Frictions(list)
           Iter(h) == h = [T \in SUBSET DOMAIN list |->
                             IF T = {} THEN 0
                             ELSE h[T \ {Max(T)}] + (list[Max(T)].impact + list[Max(T)].fee)]
<1>1. n \in Nat /\ DOMAIN list = Places(n)
  BY DEF Places
<1>2. \A h : Iter(h) <=> Running(h, w, n)
  <2>1. ASSUME NEW T \in SUBSET Places(n), T # {}
        PROVE  w[Max(T)] = list[Max(T)].impact + list[Max(T)].fee
    <3>1. Max(T) \in Places(n)
      BY <1>1, <2>1, GreatestNumber DEF Places
    <3> QED
      BY <3>1 DEF Frictions
  <2> QED
    BY <1>1, <2>1 DEF Running
<1>3. Drag(list) = (CHOOSE h : Iter(h))[DOMAIN list]
  BY DEF Drag, FoldLeft, MapThenFoldSet, Max
<1>4. w \in [Places(n) -> Int]
  <2>1. ASSUME NEW i \in Places(n) PROVE list[i].impact + list[i].fee \in Int
    <3>1. list[i] \in FillRecord
      BY <2>1 DEF Places
    <3>2. list[i].impact \in Int /\ list[i].fee \in Int
      BY <3>1 DEF FillRecord
    <3> QED
      BY <3>2
  <2> QED
    BY <2>1 DEF Frictions
<1> HIDE DEF Iter
<1>5. (CHOOSE h : Iter(h)) = (CHOOSE h : Running(h, w, n))
  BY <1>2
<1> QED
  BY <1>1, <1>3, <1>4, <1>5 DEF RunningSum

LEMMA NothingFilled ==
    /\ \A s, side : Filled(<<>>, s, side) = 0
    /\ Drag(<<>>) = 0
<1>1. <<>> \in Seq(FillRecord) /\ Len(<<>>) = 0
  OBVIOUS
<1>2. Places(Len(<<>>)) = {}
  BY DEF Places
<1>3. \A s, side : FilledParts(<<>>, s, side) = <<>>
  BY <1>2 DEF FilledParts
<1>4. Frictions(<<>>) = <<>>
  BY <1>2 DEF Frictions
<1>5. ASSUME NEW s, NEW side PROVE Filled(<<>>, s, side) = 0
  <2>1. Filled(<<>>, s, side) = RunningSum(FilledParts(<<>>, s, side), Len(<<>>))
    BY <1>1, FilledIsSum
  <2> QED
    BY <1>1, <1>3, <2>1, NoSum, Zenon
<1>6. Drag(<<>>) = RunningSum(Frictions(<<>>), Len(<<>>))
  BY <1>1, DragIsSum
<1> QED
  BY <1>1, <1>4, <1>5, <1>6, NoSum, Zenon

\* One fill more counts for its asset and its side alone;
LEMMA FilledGrows ==
    ASSUME NEW list \in Seq(FillRecord), NEW x \in FillRecord, NEW s, NEW side
    PROVE  /\ Filled(Append(list, x), s, side) =
                Filled(list, s, side) + (IF x.sym = s /\ x.side = side THEN x.qty ELSE 0)
           /\ Filled(list, s, side) \in Int
<1> DEFINE n == Len(list)
           more == Append(list, x)
           w == FilledParts(list, s, side)
           v == FilledParts(more, s, side)
<1>1. more \in Seq(FillRecord) /\ Len(more) = n + 1 /\ n \in Nat
  OBVIOUS
<1>2. w \in [Places(n) -> Int] /\ v \in [Places(n + 1) -> Int]
  BY <1>1, FilledIsSum, Zenon
<1>3. v[n + 1] = IF x.sym = s /\ x.side = side THEN x.qty ELSE 0
  <2>1. more[n + 1] = x /\ n + 1 \in Places(n + 1)
    BY DEF Places
  <2> QED
    BY <1>1, <2>1 DEF FilledParts
<1>4. \A i \in 1 .. n : v[i] = w[i]
  <2>1. ASSUME NEW i \in 1 .. n PROVE more[i] = list[i] /\ i \in Places(n) /\ i \in Places(n + 1)
    BY DEF Places
  <2> QED
    BY <1>1, <2>1 DEF FilledParts
<1>5. Filled(more, s, side) = RunningSum(v, n + 1) /\ Filled(list, s, side) = RunningSum(w, n)
  BY <1>1, FilledIsSum, Zenon
<1> HIDE DEF more, w, v, n
<1>6. /\ RunningSum(v, n + 1) = RunningSum(w, n) + v[n + 1]
      /\ RunningSum(w, n) \in Int
  BY <1>1, <1>2, <1>4, SumGrows
<1>7. /\ Filled(more, s, side) = Filled(list, s, side) + v[n + 1]
      /\ Filled(list, s, side) \in Int
  BY <1>5, <1>6, Zenon
<1> QED
  BY <1>3, <1>7 DEF more

LEMMA DragGrows ==
    ASSUME NEW list \in Seq(FillRecord), NEW x \in FillRecord
    PROVE  /\ Drag(Append(list, x)) = Drag(list) + (x.impact + x.fee)
           /\ Drag(list) \in Int
<1> DEFINE n == Len(list)
           more == Append(list, x)
           w == Frictions(list)
           v == Frictions(more)
<1>1. more \in Seq(FillRecord) /\ Len(more) = n + 1 /\ n \in Nat
  OBVIOUS
<1>2. w \in [Places(n) -> Int] /\ v \in [Places(n + 1) -> Int]
  BY <1>1, DragIsSum, Zenon
<1>3. v[n + 1] = x.impact + x.fee
  <2>1. more[n + 1] = x /\ n + 1 \in Places(n + 1)
    BY DEF Places
  <2> QED
    BY <1>1, <2>1 DEF Frictions
<1>4. \A i \in 1 .. n : v[i] = w[i]
  <2>1. ASSUME NEW i \in 1 .. n PROVE more[i] = list[i] /\ i \in Places(n) /\ i \in Places(n + 1)
    BY DEF Places
  <2> QED
    BY <1>1, <2>1 DEF Frictions
<1>5. Drag(more) = RunningSum(v, n + 1) /\ Drag(list) = RunningSum(w, n)
  BY <1>1, DragIsSum, Zenon
<1> HIDE DEF more, w, v, n
<1>6. /\ RunningSum(v, n + 1) = RunningSum(w, n) + v[n + 1]
      /\ RunningSum(w, n) \in Int
  BY <1>1, <1>2, <1>4, SumGrows
<1>7. Drag(more) = Drag(list) + (x.impact + x.fee) /\ Drag(list) \in Int
  BY <1>3, <1>5, <1>6, Zenon
<1> QED
  BY <1>7 DEF more

LEMMA Extremes ==
    ASSUME NEW x \in Int, NEW y \in Int
    PROVE  /\ Max({x, y}) \in {x, y} /\ Max({x, y}) >= x /\ Max({x, y}) >= y
           /\ Min({x, y}) \in {x, y} /\ Min({x, y}) <= x /\ Min({x, y}) <= y
<1>1. \E m \in {x, y} : \A n \in {x, y} : m >= n
  <2>1. x >= y \/ y >= x
    OBVIOUS
  <2> QED
    BY <2>1
<1>2. \E m \in {x, y} : \A n \in {x, y} : m <= n
  <2>1. x <= y \/ y <= x
    OBVIOUS
  <2> QED
    BY <2>1
<1>3. Max({x, y}) \in {x, y} /\ \A n \in {x, y} : Max({x, y}) >= n
  BY <1>1 DEF Max
<1>4. Min({x, y}) \in {x, y} /\ \A n \in {x, y} : Min({x, y}) <= n
  BY <1>2 DEF Min
<1> QED
  BY <1>3, <1>4

\* The least of three integers is one of them.
LEMMA LeastOfThree ==
    ASSUME NEW x \in Int, NEW y \in Int, NEW z \in Int
    PROVE  Min({x, y, z}) \in {x, y, z}
<1>1. \/ x <= y /\ x <= z
      \/ y <= x /\ y <= z
      \/ z <= x /\ z <= y
  OBVIOUS
<1>2. \E m \in {x, y, z} : \A n \in {x, y, z} : m <= n
  BY <1>1
<1> QED
  BY <1>2 DEF Min

\* A whole square root exists, and its square is not above the number.
LEMMA RootType ==
    ASSUME NEW n \in Nat
    PROVE  Root(n) \in Nat /\ Root(n) * Root(n) <= n
<1> DEFINE B == {m \in Nat : n < (m + 1) * (m + 1)}
<1>1. n \in B
  <2>1. (n + 1) * (n + 1) = n * n + 2 * n + 1 /\ n * n >= 0
    OBVIOUS
  <2> QED
    BY <2>1
<1>2. PICK r \in B : \A m \in B : r <= m
  BY <1>1, LeastNumber
<1>3. r * r <= n
  <2>1. CASE r = 0
    BY <2>1
  <2>2. CASE r # 0
    <3>1. r - 1 \in Nat /\ (r - 1) + 1 = r /\ ~ (r <= r - 1)
      BY <2>2
    <3>2. r - 1 \notin B
      BY <1>2, <3>1
    <3>3. ~ (n < ((r - 1) + 1) * ((r - 1) + 1))
      BY <3>1, <3>2
    <3>4. ~ (n < r * r)
      BY <3>1, <3>3
    <3>5. r * r \in Int
      OBVIOUS
    <3> QED
      BY <3>4, <3>5
  <2> QED
    BY <2>1, <2>2
<1>4. r \in 0 .. n
  <2>1. r <= r * r
    <3>1. r = 0 \/ r >= 1
      OBVIOUS
    <3> QED
      BY <3>1
  <2> QED
    BY <1>3, <2>1
<1>5. \E m \in 0 .. n : m * m <= n /\ n < (m + 1) * (m + 1)
  BY <1>2, <1>3, <1>4
<1>6. Root(n) \in 0 .. n /\ Root(n) * Root(n) <= n
  BY <1>5 DEF Root
<1> QED
  BY <1>6

LEMMA SmallRoot ==
    ASSUME NEW r \in Nat, r * r <= 1000
    PROVE  r <= 31
<1> SUFFICES ASSUME r >= 32 PROVE FALSE
  OBVIOUS
<1>1. r * r >= 32 * r
  OBVIOUS
<1> QED
  BY <1>1

\* The impact of what a bar's volume covers is less than the price.
LEMMA ImpactBelow ==
    ASSUME NEW qty \in Nat, NEW vol \in Nat, qty <= vol, NEW p \in Nat \ {0}
    PROVE  Impact(qty, vol, p) \in Nat /\ Impact(qty, vol, p) < p
<1>1. CASE qty = 0 \/ vol = 0
  BY <1>1 DEF Impact
<1>2. CASE ~ (qty = 0 \/ vol = 0)
  <2>1. PICK n : n = (qty * 1000) \div vol
    OBVIOUS
  <2>2. n \in Nat /\ n <= 1000
    BY <1>2, <2>1
  <2>3. PICK r : r = Root(n)
    OBVIOUS
  <2>4. r \in Nat /\ r <= 31
    <3>1. r \in Nat /\ r * r <= n
      BY <2>2, <2>3, RootType
    <3>2. r * r <= 1000
      BY <2>2, <3>1
    <3> QED
      BY <3>1, <3>2, SmallRoot
  <2>5. Impact(qty, vol, p) = (p * r) \div 10000 + (p * 5) \div 10000
    BY <1>2, <2>1, <2>3 DEF Impact
  <2>6. PICK m : m = p * r
    OBVIOUS
  <2>7. m \in Nat /\ m <= 31 * p
    BY <2>4, <2>6
  <2>8. m \div 10000 \in Nat /\ (p * 5) \div 10000 \in Nat /\ m \div 10000 + (p * 5) \div 10000 < p
    BY <2>7
  <2> QED
    BY <2>5, <2>6, <2>8
<1> QED
  BY <1>1, <1>2

\* What is filled of an order, and at what price.
LEMMA FillTerms ==
    ASSUME IsRebalance, RebalanceType, NEW o \in OrderRecord,
           NEW qty, qty = Fillable(o)
    PROVE  /\ qty \in Nat /\ qty <= o.qty
           /\ Impact(qty, volume[o.sym], price[o.sym]) \in Nat
           /\ FillPrice(o, qty) \in Nat
           /\ o.side = "BUY" => FillPrice(o, qty) =
                 price[o.sym] + Impact(qty, volume[o.sym], price[o.sym])
           /\ o.side = "SELL" => FillPrice(o, qty) =
                 price[o.sym] - Impact(qty, volume[o.sym], price[o.sym])
<1>1. o.sym \in AssetSet /\ o.side \in {"BUY", "SELL"} /\ o.qty \in Nat
  BY DEF OrderRecord
<1>2. PICK vol : vol = volume[o.sym]
  OBVIOUS
<1>3. PICK p : p = price[o.sym]
  OBVIOUS
<1>4. vol \in Nat /\ p \in Nat \ {0}
  BY <1>1, <1>2, <1>3 DEF RebalanceType, Amounts
<1>5. PICK m : m = (vol * ParticipationPct) \div 100
  OBVIOUS
<1>6. m \in Nat /\ m <= vol
  <2>1. ParticipationPct \in 1 .. 100
    BY DEF IsRebalance
  <2>2. PICK x : x = vol * ParticipationPct
    OBVIOUS
  <2>3. x \in Nat /\ x <= 100 * vol
    BY <1>4, <2>1, <2>2
  <2> QED
    BY <1>4, <1>5, <2>2, <2>3
<1>7. qty \in Nat /\ qty <= o.qty /\ qty <= vol
  <2>1. PICK q \in Nat : q = o.qty
    BY <1>1
  <2>2. Min({q, m}) \in {q, m} /\ Min({q, m}) <= q /\ Min({q, m}) <= m
    BY <1>6, Extremes
  <2>3. qty = Min({q, m})
    BY <1>2, <1>5, <2>1 DEF Fillable
  <2> QED
    BY <1>4, <1>6, <2>1, <2>2, <2>3
<1>8. PICK d : d = Impact(qty, vol, p)
  OBVIOUS
<1>9. d \in Nat /\ d < p
  BY <1>4, <1>7, <1>8, ImpactBelow
<1>10. FillPrice(o, qty) = IF o.side = "BUY" THEN p + d ELSE Max({1, p - d})
  BY <1>2, <1>3, <1>8 DEF FillPrice
<1>11. Max({1, p - d}) = p - d
  <2>1. PICK x : x = p - d
    OBVIOUS
  <2>2. x \in Int /\ x >= 1
    BY <1>4, <1>9, <2>1
  <2>3. Max({1, x}) = x
    BY <2>2, Extremes
  <2> QED
    BY <2>1, <2>3
<1>12. p + d \in Nat /\ p - d \in Nat
  BY <1>4, <1>9
<1>13. /\ FillPrice(o, qty) \in Nat
       /\ o.side = "BUY" => FillPrice(o, qty) = p + d
       /\ o.side = "SELL" => FillPrice(o, qty) = p - d
  BY <1>1, <1>10, <1>11, <1>12
<1> QED
  BY <1>2, <1>3, <1>7, <1>8, <1>9, <1>13

\* The fee of a sale does not exceed what it brings.
LEMMA FeeBelow ==
    ASSUME NEW m \in Nat, FeePermille \in 0 .. 1000
    PROVE  (m * FeePermille) \div 1000 \in Nat /\ (m * FeePermille) \div 1000 <= m
<1>1. PICK x : x = m * FeePermille
  OBVIOUS
<1>2. x \in Nat /\ x <= 1000 * m
  BY <1>1
<1> QED
  BY <1>1, <1>2

LEMMA TotalPool ==
    ASSUME IsRebalance, NEW w \in [StrategyIds -> Nat]
    PROVE  FitPool(w) \in [StrategyIds -> Nat]
<1>1. Pool \in Nat /\ Total(w) \in Nat
  BY TotalIsSum DEF IsRebalance, Pool
<1>2. CASE ~ (Total(w) > Pool)
  BY <1>2 DEF FitPool
<1>3. CASE Total(w) > Pool
  <2>1. PICK total, pool : total = Total(w) /\ pool = Pool
    OBVIOUS
  <2>2. total \in Nat \ {0} /\ pool \in Nat
    BY <1>1, <1>3, <2>1
  <2>3. FitPool(w) = [s \in StrategyIds |-> (w[s] * pool) \div total]
    BY <1>3, <2>1 DEF FitPool
  <2>4. ASSUME NEW s \in StrategyIds PROVE (w[s] * pool) \div total \in Nat
    <3>1. PICK x : x = w[s] * pool
      OBVIOUS
    <3>2. x \in Nat
      BY <2>2, <3>1
    <3>3. x \div total \in Nat
      BY <2>2, <3>2
    <3> QED
      BY <3>1, <3>3
  <2> QED
    BY <2>3, <2>4
<1> QED
  BY <1>2, <1>3

LEMMA FactorType ==
    ASSUME NEW macro \in Int, NEW stale
    PROVE  MacroFactor(macro, stale) \in Nat
<1>1. PICK bearish : bearish = IF macro < 0 THEN Max({200, 1000 + macro \div 2}) ELSE 1000
  OBVIOUS
<1>2. bearish \in Nat
  <2>1. PICK x \in Int : x = 1000 + macro \div 2
    OBVIOUS
  <2>2. Max({200, x}) \in {200, x} /\ Max({200, x}) >= 200
    BY Extremes
  <2> QED
    BY <1>1, <2>1, <2>2
<1>3. Min({bearish, 500}) \in Nat
  <2>1. PICK half \in Nat : half = 500
    OBVIOUS
  <2>2. bearish \in Int /\ half \in Int
    BY <1>2, <2>1
  <2>3. Min({bearish, half}) \in {bearish, half}
    BY ONLY <2>2, Extremes
  <2> QED
    BY <1>2, <2>1, <2>3
<1>4. MacroFactor(macro, stale) = IF stale THEN Min({bearish, 500}) ELSE bearish
  BY <1>1 DEF MacroFactor
<1> QED
  BY <1>2, <1>3, <1>4

LEMMA PermilleType ==
    ASSUME NEW x \in Nat, NEW y \in Nat
    PROVE  (x * y) \div 1000 \in Nat
<1>1. PICK m : m = x * y
  OBVIOUS
<1>2. m \in Nat
  BY <1>1
<1> QED
  BY <1>1, <1>2

LEMMA AtLeast ==
    ASSUME NEW c \in Nat, NEW x \in Int
    PROVE  Max({c, x}) \in Nat
<1>1. Max({c, x}) \in {c, x} /\ Max({c, x}) >= c
  BY Extremes
<1> QED
  BY <1>1

LEMMA RawWeightType ==
    ASSUME NEW cfg, cfg.base \in Nat, cfg.cap \in Nat, NEW degradation \in Nat, NEW scheme,
           NEW macro \in Int, NEW stale
    PROVE  RawWeight(cfg, degradation, scheme, macro, stale) \in Nat
<1> DEFINE factor == MacroFactor(macro, stale)
           left == Max({0, 1000 - degradation})
           schemed == CASE scheme = "DEGRADATION_ADJUSTED" -> (cfg.base * left) \div 1000
                        [] scheme = "MACRO_ALIGNED" -> (cfg.base * factor) \div 1000
                        [] OTHER -> cfg.base
           scaled == IF macro < 0 \/ stale THEN (schemed * factor) \div 1000 ELSE schemed
<1>1. RawWeight(cfg, degradation, scheme, macro, stale) =
         IF degradation > cfg.threshold THEN 0 ELSE Min({scaled, cfg.cap})
  BY DEF RawWeight
<1>2. factor \in Nat
  BY FactorType
<1>3. left \in Nat
  <2>1. 1000 - degradation \in Int
    OBVIOUS
  <2> QED
    BY <2>1, AtLeast
<1> HIDE DEF factor, left
<1>4. schemed \in Nat
  <2>1. (cfg.base * left) \div 1000 \in Nat
    BY <1>3, PermilleType
  <2>2. (cfg.base * factor) \div 1000 \in Nat
    BY <1>2, PermilleType
  <2> QED
    BY <2>1, <2>2
<1> HIDE DEF schemed
<1>5. scaled \in Nat
  <2>1. (schemed * factor) \div 1000 \in Nat
    BY <1>2, <1>4, PermilleType
  <2> QED
    BY <1>4, <2>1
<1> HIDE DEF scaled
<1>6. Min({scaled, cfg.cap}) \in {scaled, cfg.cap}
  <2>1. PICK cap \in Nat : cap = cfg.cap
    OBVIOUS
  <2>2. scaled \in Int /\ cap \in Int
    BY <1>5, <2>1
  <2>3. Min({scaled, cap}) \in {scaled, cap}
    BY ONLY <2>2, Extremes
  <2> QED
    BY <2>1, <2>3
<1> QED
  BY <1>1, <1>5, <1>6

\* The limits the weights are computed from are permilles and whole numbers.
LEMMA LimitsAre ==
    ASSUME IsRebalance
    PROVE  /\ MaxSingleWeight \in 0 .. 1000
           /\ Degradations \subseteq Nat /\ \A macro \in Macros : macro \in Int
BY DEF IsRebalance

LEMMA BudgetType ==
    ASSUME IsRebalance, RebalanceType, NEW deg \in [StrategyIds -> Degradations],
           NEW macro \in Macros, NEW stale, NEW scheme, NEW drawdown, NEW volatility
    PROVE  Budget(cfgs, drawdown, volatility,
                            Allocate(cfgs, deg, scheme, macro, stale))
             \in [StrategyIds -> Nat]
<1>1. \A s \in StrategyIds : cfgs[s].base \in Nat /\ cfgs[s].cap \in Nat
  BY DEF RebalanceType, IsRebalance
<1>2. macro \in Int /\ \A s \in StrategyIds : deg[s] \in Nat
  <2>1. Degradations \subseteq Nat /\ \A m \in Macros : m \in Int
    BY LimitsAre
  <2> QED
    BY ONLY <2>1, deg \in [StrategyIds -> Degradations], macro \in Macros
<1>3. PICK w : w = Allocate(cfgs, deg, scheme, macro, stale)
  OBVIOUS
<1>4. w \in [StrategyIds -> Nat]
  <2>1. ASSUME NEW s \in StrategyIds
        PROVE  RawWeight(cfgs[s], deg[s], scheme, macro, stale) \in Nat
    BY <1>1, <1>2, RawWeightType
  <2>2. PICK raw : raw = [s \in StrategyIds |->
                            RawWeight(cfgs[s], deg[s], scheme, macro, stale)]
    OBVIOUS
  <2>3. raw \in [StrategyIds -> Nat]
    BY <2>1, <2>2
  <2>4. w = FitPool(raw)
    BY <1>3, <2>2 DEF Allocate
  <2> QED
    BY <2>3, <2>4, TotalPool
<1>5. PICK capped : capped = [s \in StrategyIds |-> Capped(cfgs[s], w[s])]
  OBVIOUS
<1>6. capped \in [StrategyIds -> Nat]
  <2>1. ASSUME NEW s \in StrategyIds PROVE Capped(cfgs[s], w[s]) \in Nat
    <3>1. PICK x \in Nat : x = w[s]
      BY <1>4
    <3>2. PICK c \in Nat : c = cfgs[s].cap
      BY <1>1
    <3>3. MaxSingleWeight \in Nat
      <4>1. MaxSingleWeight \in 0 .. 1000
        BY LimitsAre
      <4> QED
        BY ONLY <4>1
    <3>4. x \in Int /\ MaxSingleWeight \in Int /\ c \in Int
      BY <3>3
    <3>5. Min({x, MaxSingleWeight, c}) \in {x, MaxSingleWeight, c}
      BY ONLY <3>4, LeastOfThree
    <3> QED
      BY <3>1, <3>2, <3>3, <3>5 DEF Capped
  <2> QED
    BY <1>5, <2>1
<1>7. FitPool(capped) \in [StrategyIds -> Nat]
  BY <1>6, TotalPool
<1>8. Budget(cfgs, drawdown, volatility, w) =
        IF Breached(drawdown, volatility) THEN [s \in StrategyIds |-> 0]
        ELSE FitPool(capped)
  BY <1>5 DEF Budget
<1>9. [s \in StrategyIds |-> 0] \in [StrategyIds -> Nat]
  OBVIOUS
<1> QED
  BY <1>3, <1>7, <1>8, <1>9, Zenon

\* What the router may be given: one order an asset, and no sale of more than is held.
Matchable(list) ==
    /\ list \in Seq(OrderRecord)
    /\ \A i, j \in 1 .. Len(list) : i # j => list[i].sym # list[j].sym
    /\ \A i \in 1 .. Len(list) : list[i].side = "SELL" => list[i].qty <= bookPositions[list[i].sym]

LEMMA ValueType ==
    ASSUME IsRebalance, RebalanceType
    PROVE  PortfolioValue \in Nat
<1>1. Holdings(bookPositions) \in Nat
  <2>1. bookPositions \in Amounts /\ bookPositions \in [AssetSet -> Int] /\ price \in [AssetSet -> Nat \ {0}]
    BY DEF RebalanceType, Amounts
  <2> QED
    BY <2>1, HoldingsIsValue, WorthType
<1> QED
  BY <1>1 DEF PortfolioValue, RebalanceType

LEMMA OrderType ==
    ASSUME IsRebalance, RebalanceType, NEW s \in AssetSet
    PROVE  /\ Order(s) \in OrderRecord /\ Order(s).sym = s
           /\ Order(s).side = "SELL" => Order(s).qty <= bookPositions[s]
<1>1. PICK n : n = Len(Assets)
  OBVIOUS
<1>2. n \in Nat \ {0}
  <2>1. \E i \in DOMAIN Assets : Assets[i] = s
    BY DEF AssetSet, Range
  <2> QED
    BY <1>1, <2>1, AssetsAre
<1>3. PICK m : m = PortfolioValue * Total(weights)
  OBVIOUS
<1>4. m \in Nat
  <2>1. PortfolioValue \in Nat
    BY ValueType
  <2>2. Total(weights) \in Nat
    BY TotalIsSum DEF RebalanceType
  <2> QED
    BY <1>3, <2>1, <2>2
<1>5. PICK p, x : p = price[s] /\ x = bookPositions[s]
  OBVIOUS
<1>6. p \in Nat \ {0} /\ x \in Nat
  BY <1>5 DEF RebalanceType, Amounts
<1>7. PICK target : target = (m \div (1000 * n)) \div p
  OBVIOUS
<1>8. target \in Nat
  <2>1. m \div (1000 * n) \in Nat
    BY <1>2, <1>4
  <2> QED
    BY <1>6, <1>7, <2>1
<1>9. Delta(s) = target - x
  BY <1>1, <1>3, <1>5, <1>7 DEF Delta, TargetQty
<1>10. AbsVal(target - x) \in Nat
       /\ (~ (target - x > 0) => AbsVal(target - x) <= x)
  BY <1>6, <1>8 DEF AbsVal
<1>11. Order(s) = [sym |-> s, side |-> IF target - x > 0 THEN "BUY" ELSE "SELL",
                             qty |-> AbsVal(target - x)]
  BY <1>9 DEF Order
<1> QED
  BY <1>5, <1>10, <1>11 DEF OrderRecord

LEMMA ProposedMatchable ==
    ASSUME IsRebalance, RebalanceType
    PROVE  Matchable(Proposed)
<1> DEFINE moved == {i \in DOMAIN Assets : Order(Assets[i]).qty > 0}
           R == {ij \in moved \X moved : ij[1] < ij[2]}
           N == Cardinality(moved)
           Place(i) == Cardinality({j \in moved : j < i}) + 1
<1>1. Assets \in Seq(AssetSet) /\ DOMAIN Assets = 1 .. Len(Assets) /\ Len(Assets) \in Nat
  BY AssetsAre
<1>2. moved \subseteq 1 .. Len(Assets) /\ \A i \in moved : i \in Int
  BY <1>1
<1>3. IsFiniteSet(moved) /\ N \in Nat
  <2> HIDE DEF moved
  <2>1. IsFiniteSet(1 .. Len(Assets))
    BY <1>1, FS_Interval
  <2> QED
    BY <1>2, <2>1, FS_Subset, FS_CardinalityType
<1>4. StrictOrder(R, moved)
  BY <1>2 DEF StrictOrder
<1>5. \A i \in moved : PlaceIn(R, moved, i) = Place(i)
  <2> SUFFICES ASSUME NEW i \in moved PROVE PlaceIn(R, moved, i) = Place(i)
    OBVIOUS
  <2>1. {j \in moved : <<j, i>> \in R} = {j \in moved : j < i}
    OBVIOUS
  <2> QED
    BY <2>1 DEF PlaceIn
<1>6. PICK q \in [1 .. N -> moved] :
         /\ \A n \in 1 .. N : \A i \in moved : PlaceIn(R, moved, i) = n <=> i = q[n]
         /\ \A m, n \in 1 .. N : m < n => <<q[m], q[n]>> \in R
  <2> HIDE DEF moved, R, Place
  <2> QED
    BY <1>3, <1>4, Enumerated
<1>7. ASSUME NEW n \in 1 .. N PROVE (CHOOSE i \in moved : Place(i) = n) = q[n]
  <2>1. q[n] \in moved /\ \A i \in moved : Place(i) = n <=> i = q[n]
    BY <1>5, <1>6
  <2> HIDE DEF moved, Place
  <2> QED
    BY <2>1
<1>8. Proposed = [n \in 1 .. N |-> Order(Assets[CHOOSE i \in moved : Place(i) = n])]
  BY Zenon DEF Proposed
<1>9. Proposed = [n \in 1 .. N |-> Order(Assets[q[n]])]
  <2> DEFINE Chosen(n) == CHOOSE i \in moved : Place(i) = n
  <2>1. \A n \in 1 .. N : Chosen(n) = q[n]
    BY <1>7
  <2>2. Proposed = [n \in 1 .. N |-> Order(Assets[Chosen(n)])]
    BY <1>8, Zenon
  <2> HIDE DEF moved, Place, N, Chosen
  <2>3. \A n \in 1 .. N : Order(Assets[Chosen(n)]) = Order(Assets[q[n]])
    BY ONLY <2>1, Zenon
  <2> QED
    BY ONLY <2>2, <2>3
<1>10. ASSUME NEW n \in 1 .. N PROVE Assets[q[n]] \in AssetSet
  <2>1. q[n] \in DOMAIN Assets
    BY <1>6
  <2> QED
    BY <1>1, <2>1
<1>11. ASSUME NEW m \in 1 .. N, NEW n \in 1 .. N, m # n PROVE Assets[q[m]] # Assets[q[n]]
  <2>1. m < n \/ n < m
    BY <1>3, <1>11
  <2>2. q[m] # q[n]
    <3>1. <<q[m], q[n]>> \in R \/ <<q[n], q[m]>> \in R
      BY <1>6, <2>1
    <3>2. q[m] \in Int /\ q[n] \in Int
      BY <1>2, <1>6
    <3> QED
      BY <3>1, <3>2
  <2>3. q[m] \in DOMAIN Assets /\ q[n] \in DOMAIN Assets
    BY <1>6
  <2> QED
    BY <2>2, <2>3 DEF IsRebalance
<1> HIDE DEF moved, R, Place, N
<1>12. Proposed \in Seq(OrderRecord) /\ Len(Proposed) = N
  <2>1. \A n \in 1 .. N : Order(Assets[q[n]]) \in OrderRecord
    BY <1>10, OrderType
  <2>2. Proposed \in [1 .. N -> OrderRecord]
    BY <1>9, <2>1
  <2> QED
    BY <1>3, <2>2
<1>13. ASSUME NEW n \in 1 .. N
       PROVE  /\ Proposed[n].sym = Assets[q[n]]
              /\ Proposed[n].side = "SELL" =>
                   Proposed[n].qty <= bookPositions[Proposed[n].sym]
  <2>1. Proposed[n] = Order(Assets[q[n]])
    BY <1>9
  <2>2. PICK s \in AssetSet : s = Assets[q[n]]
    BY <1>10
  <2> QED
    BY <2>1, <2>2, OrderType
<1>14. \A m, n \in 1 .. N : m # n => Proposed[m].sym # Proposed[n].sym
  BY <1>11, <1>13
<1> QED
  BY <1>12, <1>13, <1>14 DEF Matchable

\* An order scaled down to its part of the cap keeps no more than it had.
LEMMA ScaledDown ==
    ASSUME NEW qty \in Nat, NEW value \in Nat, NEW cap \in Nat, NEW total \in Nat,
           total * 1000 > value * cap
    PROVE  /\ (qty * ((value * cap) \div 1000)) \div total \in Nat
           /\ (qty * ((value * cap) \div 1000)) \div total <= qty
<1>1. PICK m : m = value * cap
  OBVIOUS
<1>2. m \in Nat /\ total * 1000 > m
  BY <1>1
<1>3. PICK c : c = m \div 1000
  OBVIOUS
<1>4. c \in Nat /\ c <= total /\ total > 0
  BY <1>2, <1>3
<1>5. PICK x : x = qty * c
  OBVIOUS
<1>6. x \in Nat /\ x <= qty * total
  BY <1>4, <1>5
<1>7. x \div total \in Nat /\ x \div total <= qty
  BY <1>4, <1>6
<1> QED
  BY <1>1, <1>3, <1>5, <1>7

LEMMA PlanMatchable ==
    ASSUME IsRebalance, RebalanceType
    PROVE  Matchable(Limited(Proposed))
<1>1. PICK ords : ords = Proposed
  OBVIOUS
<1>2. Matchable(ords) /\ ords \in Seq(OrderRecord) /\ Len(ords) \in Nat /\ DOMAIN ords = 1 .. Len(ords)
  <2>1. Matchable(ords)
    BY <1>1, ProposedMatchable
  <2> QED
    BY <2>1 DEF Matchable
<1>3. CASE ~ (Turnover(ords) * 1000 > PortfolioValue * MaxTurnover)
  BY <1>1, <1>2, <1>3 DEF Limited
<1>4. CASE Turnover(ords) * 1000 > PortfolioValue * MaxTurnover
  <2>1. PICK total : total = Turnover(ords)
    OBVIOUS
  <2>2. PICK value : value = PortfolioValue
    OBVIOUS
  <2>3. total \in Nat /\ value \in Nat /\ MaxTurnover \in Nat
    <3>1. Traded(ords, "BUY") \in Nat /\ Traded(ords, "SELL") \in Nat
      BY <1>2, TradedNotNegative
    <3>2. total \in Nat
      BY <2>1, <3>1 DEF Turnover
    <3> QED
      BY <2>2, <3>2, ValueType DEF IsRebalance
  <2>4. PICK plan : plan = [i \in 1 .. Len(ords) |-> ScaleOrder(ords[i], total)]
    OBVIOUS
  <2>5. Limited(ords) = plan
    BY <1>2, <1>4, <2>1, <2>4 DEF Limited
  <2>6. ASSUME NEW i \in 1 .. Len(ords)
        PROVE  /\ plan[i] \in OrderRecord /\ plan[i].sym = ords[i].sym /\ plan[i].side = ords[i].side
               /\ plan[i].qty <= ords[i].qty
    <3>1. PICK o : o = ords[i]
      OBVIOUS
    <3>2. o \in OrderRecord
      BY <1>2, <3>1
    <3>3. o = [sym |-> o.sym, side |-> o.side, qty |-> o.qty] /\ o.qty \in Nat
          /\ o.sym \in AssetSet /\ o.side \in {"BUY", "SELL"}
      BY <3>2 DEF OrderRecord
    <3>4. PICK n : n = (o.qty * ((value * MaxTurnover) \div 1000)) \div total
      OBVIOUS
    <3>5. n \in Nat /\ n <= o.qty
      <4>1. PICK y \in Nat : y = o.qty
        BY <3>3
      <4>2. total * 1000 > value * MaxTurnover
        BY <1>4, <2>1, <2>2
      <4>3. /\ (y * ((value * MaxTurnover) \div 1000)) \div total \in Nat
            /\ (y * ((value * MaxTurnover) \div 1000)) \div total <= y
        BY <2>3, <4>2, ScaledDown
      <4>4. n = (y * ((value * MaxTurnover) \div 1000)) \div total
        BY ONLY <3>4, <4>1
      <4>5. n \in Nat /\ n <= y
        BY ONLY <4>3, <4>4
      <4> QED
        BY ONLY <4>1, <4>5
    <3>6. plan[i] = [o EXCEPT !.qty = n]
      BY <2>2, <2>4, <3>1, <3>4 DEF ScaleOrder
    <3>7. plan[i] = [sym |-> o.sym, side |-> o.side, qty |-> n]
      BY <3>3, <3>6
    <3> QED
      BY <3>1, <3>3, <3>5, <3>7 DEF OrderRecord
  <2>7. plan \in Seq(OrderRecord) /\ Len(plan) = Len(ords)
    <3>1. plan \in [1 .. Len(ords) -> OrderRecord]
      BY <2>4, <2>6
    <3> QED
      BY <1>2, <3>1
  <2>8. \A i, j \in 1 .. Len(plan) : i # j => plan[i].sym # plan[j].sym
    BY <1>2, <2>6, <2>7 DEF Matchable
  <2>9. ASSUME NEW i \in 1 .. Len(plan), plan[i].side = "SELL"
        PROVE  plan[i].qty <= bookPositions[plan[i].sym]
    <3>1. i \in 1 .. Len(ords) /\ ords[i].side = "SELL" /\ plan[i].sym = ords[i].sym
          /\ plan[i].qty <= ords[i].qty
      BY <2>6, <2>7, <2>9
    <3>2. ords[i].qty <= bookPositions[ords[i].sym]
      BY <1>2, <3>1 DEF Matchable
    <3>3. plan[i].qty \in Nat /\ ords[i].qty \in Nat /\ bookPositions[ords[i].sym] \in Nat
      <4>1. plan[i] \in OrderRecord /\ ords[i] \in OrderRecord
        BY <1>2, <2>6, <3>1
      <4> QED
        BY <4>1 DEF OrderRecord, RebalanceType, Amounts
    <3> QED
      BY <3>1, <3>2, <3>3
  <2> QED
    BY <1>1, <2>5, <2>7, <2>8, <2>9 DEF Matchable
<1> QED
  BY <1>3, <1>4

\* The positions once the fills are booked.
Books(list, pos) ==
    [s \in AssetSet |-> pos[s] + Filled(list, s, "BUY") - Filled(list, s, "SELL")]

LEMMA AfterIsBooked == \A s \in AssetSet : After(s) = Books(fills, bookPositions)[s]
  BY DEF After, FilledQty, Books, Filled

LEMMA NothingBooked ==
    ASSUME NEW pos \in Amounts
    PROVE  Books(<<>>, pos) = pos
<1>1. \A s \in AssetSet : pos[s] + 0 - 0 = pos[s]
  BY DEF Amounts
<1>2. \A s \in AssetSet : Books(<<>>, pos)[s] = pos[s] + 0 - 0
  BY NothingFilled, Zenon DEF Books
<1> QED
  BY <1>1, <1>2 DEF Books, Amounts

\* The plan the router has can be matched; a fill is of the order in its place; an
\* asset without a fill is as it was, and the books would hold nothing negative.
FillsInv ==
    /\ stage \in {"bar", "route"} => Matchable(orders)
    /\ stage # "route" => fills = <<>>
    /\ Len(fills) <= Len(orders)
    /\ \A i \in 1 .. Len(fills) : fills[i].sym = orders[i].sym
    /\ Books(fills, bookPositions) \in Amounts
    /\ \A s \in AssetSet : (\A i \in 1 .. Len(fills) : fills[i].sym # s) =>
                              Books(fills, bookPositions)[s] = bookPositions[s]

\* What the match has taken so far, at the prices of its bar, is the friction of its fills.
DragInv ==
    stage = "route" =>
        (bookCash + Value(price, bookPositions)) - (routerCash + Value(price, Books(fills, bookPositions)))
          = Drag(fills)

RebalanceInv == RebalanceType /\ FillsInv /\ DragInv

\* Without fills there is nothing to show.
LEMMA NothingMatched ==
    ASSUME bookPositions \in Amounts, fills = <<>>, stage \in {"bar", "route"} => Matchable(orders),
           orders \in Seq(OrderRecord)
    PROVE  FillsInv
<1>1. Books(fills, bookPositions) = bookPositions
  BY NothingBooked
<1>2. Len(fills) = 0 /\ Len(orders) \in Nat
  OBVIOUS
<1> QED
  BY <1>1, <1>2 DEF FillsInv

LEMMA RebalanceStarts == IsRebalance /\ RebalanceInit => RebalanceInv
<1> SUFFICES ASSUME IsRebalance, RebalanceInit PROVE RebalanceInv
  OBVIOUS
<1>1. /\ stage = "idle" /\ cfgs \in StrategyConfigs /\ weights = [s \in StrategyIds |-> 0]
      /\ price \in [AssetSet -> Prices] /\ volume = [s \in AssetSet |-> 0]
      /\ bookCash = InitialCash /\ bookPositions = InitialPositions
      /\ orders = <<>> /\ fills = <<>> /\ routerCash = InitialCash
  BY DEF RebalanceInit, AssetSet
<1>2. InitialCash \in Nat /\ InitialPositions \in Amounts /\ Prices \subseteq Nat \ {0}
  BY DEF IsRebalance, Amounts, AssetSet
<1>3. RebalanceType
  <2>1. /\ price \in [AssetSet -> Nat \ {0}] /\ volume \in Amounts
        /\ weights \in [StrategyIds -> Nat]
    BY <1>1, <1>2 DEF Amounts
  <2>2. orders \in Seq(OrderRecord) /\ fills \in Seq(FillRecord)
    BY <1>1
  <2> QED
    BY <1>1, <1>2, <2>1, <2>2 DEF RebalanceType
<1>4. FillsInv
  <2>1. bookPositions \in Amounts /\ orders \in Seq(OrderRecord)
    BY <1>1, <1>2
  <2> QED
    BY <1>1, <2>1, NothingMatched
<1>5. DragInv
  BY <1>1 DEF DragInv
<1> QED
  BY <1>3, <1>4, <1>5 DEF RebalanceInv

LEMMA RebalanceWaits ==
    RebalanceInv /\ UNCHANGED rebalanceVars => RebalanceInv'
<1> SUFFICES ASSUME RebalanceInv, UNCHANGED rebalanceVars PROVE RebalanceInv'
  OBVIOUS
<1>1. UNCHANGED <<stage, round, cfgs, weights, price, volume, bookCash, bookPositions, orders, fills, routerCash>>
  BY DEF rebalanceVars
<1>2. RebalanceType'
  BY <1>1 DEF RebalanceInv, RebalanceType
<1>3. FillsInv'
  BY <1>1 DEF RebalanceInv, FillsInv, Matchable
<1>4. DragInv'
  BY <1>1 DEF RebalanceInv, DragInv
<1> QED
  BY <1>2, <1>3, <1>4 DEF RebalanceInv

LEMMA RunAllocationKeeps ==
    ASSUME IsRebalance, RebalanceInv, RunAllocation
    PROVE  RebalanceInv'
<1>1. /\ stage = "idle" /\ stage' = "plan"
      /\ UNCHANGED <<cfgs, price, volume, bookCash, bookPositions, orders, fills, routerCash>>
  BY DEF RunAllocation
<1>2. PICK deg \in [StrategyIds -> Degradations], macro \in Macros, stale \in BOOLEAN,
           scheme \in Schemes, risk \in RiskStates :
        weights' = Budget(cfgs, risk.drawdown, risk.volatility,
                                    Allocate(cfgs, deg, scheme, macro, stale))
  BY DEF RunAllocation
<1>3. weights' \in [StrategyIds -> Nat]
  BY <1>2, BudgetType DEF RebalanceInv
<1>4. RebalanceType'
  BY <1>1, <1>3 DEF RebalanceInv, RebalanceType
<1>5. FillsInv'
  <2>1. bookPositions' \in Amounts /\ orders' \in Seq(OrderRecord) /\ fills' = <<>>
    BY <1>1 DEF RebalanceInv, RebalanceType, FillsInv
  <2>2. stage' \notin {"bar", "route"}
    BY <1>1
  <2> QED
    BY <1>1 DEF RebalanceInv, FillsInv
<1>6. DragInv'
  BY <1>1 DEF DragInv
<1> QED
  BY <1>4, <1>5, <1>6 DEF RebalanceInv

LEMMA GeneratePlanKeeps ==
    ASSUME IsRebalance, RebalanceInv, GeneratePlan
    PROVE  RebalanceInv'
<1>1. /\ stage = "plan"
      /\ UNCHANGED <<round, cfgs, weights, price, volume, bookCash, bookPositions, fills, routerCash>>
      /\ \/ orders' = Limited(Proposed) /\ stage' = "bar"
         \/ orders' = <<>> /\ stage' = "idle"
  BY DEF GeneratePlan
<1>2. /\ orders' \in Seq(OrderRecord)
      /\ stage' = "bar" => /\ \A i, j \in 1 .. Len(orders') : i # j => orders'[i].sym # orders'[j].sym
                           /\ \A i \in 1 .. Len(orders') : orders'[i].side = "SELL" =>
                                 orders'[i].qty <= bookPositions[orders'[i].sym]
  <2>1. Matchable(Limited(Proposed))
    BY PlanMatchable DEF RebalanceInv
  <2>2. CASE orders' = Limited(Proposed) /\ stage' = "bar"
    BY <2>1, <2>2 DEF Matchable
  <2>3. CASE orders' = <<>> /\ stage' = "idle"
    BY <2>3
  <2> QED
    BY <1>1, <2>2, <2>3
<1>3. RebalanceType'
  BY <1>1, <1>2 DEF RebalanceInv, RebalanceType
<1>4. fills' = <<>> /\ bookPositions' = bookPositions /\ bookPositions \in Amounts
  BY <1>1 DEF RebalanceInv, FillsInv, RebalanceType
<1>5. FillsInv'
  <2>1. Books(fills', bookPositions') = bookPositions'
    BY <1>4, NothingBooked
  <2>2. Len(fills') = 0 /\ Len(orders') \in Nat
    BY <1>2, <1>4
  <2>3. stage' \in {"bar", "route"} => Matchable(orders)'
    BY <1>1, <1>2 DEF Matchable
  <2> QED
    BY <1>4, <2>1, <2>2, <2>3 DEF FillsInv
<1>6. DragInv'
  BY <1>1 DEF DragInv
<1> QED
  BY <1>3, <1>5, <1>6 DEF RebalanceInv

LEMMA NextPricesKeep ==
    ASSUME IsRebalance, RebalanceInv, ExecutionBar
    PROVE  RebalanceInv'
<1>1. /\ stage = "bar" /\ stage' = "route" /\ fills' = <<>> /\ routerCash' = bookCash
      /\ price' \in [AssetSet -> Prices] /\ volume' \in [AssetSet -> Volumes]
      /\ UNCHANGED <<round, cfgs, weights, bookCash, bookPositions, orders>>
  BY DEF ExecutionBar, AssetSet
<1>2. Prices \subseteq Nat \ {0} /\ Volumes \subseteq Nat
  BY DEF IsRebalance
<1>3. price' \in [AssetSet -> Nat \ {0}] /\ volume' \in Amounts
  BY <1>1, <1>2 DEF Amounts
<1>4. RebalanceType'
  BY <1>1, <1>3 DEF RebalanceInv, RebalanceType
<1>5. bookPositions \in Amounts /\ bookPositions \in [AssetSet -> Int] /\ bookCash \in Int /\ orders \in Seq(OrderRecord)
  BY DEF RebalanceInv, RebalanceType, Amounts
<1>6. Books(fills', bookPositions') = bookPositions
  BY <1>1, <1>5, NothingBooked
<1>7. FillsInv'
  <2>1. Len(fills') = 0 /\ Len(orders') \in Nat
    BY <1>1, <1>5
  <2>2. Matchable(orders)'
    BY <1>1 DEF RebalanceInv, FillsInv, Matchable
  <2> QED
    BY <1>1, <1>5, <1>6, <2>1, <2>2 DEF FillsInv
<1>8. DragInv'
  <2>1. Value(price', bookPositions) \in Int
    BY <1>3, <1>5, WorthType
  <2>2. (bookCash + Value(price', bookPositions)) - (bookCash + Value(price', bookPositions)) = 0
    BY <1>5, <2>1
  <2>3. Drag(fills') = 0
    BY <1>1, NothingFilled
  <2> QED
    BY <1>1, <1>6, <2>2, <2>3 DEF DragInv
<1> QED
  BY <1>4, <1>7, <1>8 DEF RebalanceInv

LEMMA AbortMatchKeeps ==
    ASSUME IsRebalance, RebalanceInv, AbortMatch
    PROVE  RebalanceInv'
<1>1. /\ stage' = "idle" /\ orders' = <<>> /\ fills' = <<>> /\ routerCash' = bookCash
      /\ UNCHANGED <<round, cfgs, weights, price, volume, bookCash, bookPositions>>
  BY DEF AbortMatch
<1>2. RebalanceType'
  BY <1>1 DEF RebalanceInv, RebalanceType
<1>3. bookPositions \in Amounts
  BY DEF RebalanceInv, RebalanceType
<1>4. FillsInv'
  <2>1. Books(fills', bookPositions') = bookPositions' /\ Len(fills') = 0 /\ Len(orders') = 0
    BY <1>1, <1>3, NothingBooked
  <2> QED
    BY <1>1, <1>3, <2>1 DEF FillsInv
<1>5. DragInv'
  BY <1>1 DEF DragInv
<1> QED
  BY <1>2, <1>4, <1>5 DEF RebalanceInv

LEMMA BookFillsKeeps ==
    ASSUME IsRebalance, RebalanceInv, BookFills
    PROVE  RebalanceInv' /\ bookPositions' = Books(fills, bookPositions)
<1>1. /\ stage' = "idle" /\ orders' = <<>> /\ fills' = <<>> /\ bookCash' = routerCash
      /\ bookPositions' = [s \in AssetSet |-> After(s)]
      /\ UNCHANGED <<round, cfgs, weights, price, volume, routerCash>>
  BY DEF BookFills, AssetSet
<1>2. bookPositions' = Books(fills, bookPositions)
  <2>1. \A s \in AssetSet : After(s) = Books(fills, bookPositions)[s]
    BY AfterIsBooked
  <2> QED
    BY <1>1, <2>1 DEF Books
<1>3. bookPositions' \in Amounts
  BY <1>2 DEF RebalanceInv, FillsInv
<1>4. RebalanceType'
  BY <1>1, <1>3 DEF RebalanceInv, RebalanceType
<1>5. FillsInv'
  <2>1. Books(fills', bookPositions') = bookPositions' /\ Len(fills') = 0 /\ Len(orders') = 0
    BY <1>1, <1>3, NothingBooked
  <2> QED
    BY <1>1, <1>3, <2>1 DEF FillsInv
<1>6. DragInv'
  BY <1>1 DEF DragInv
<1> QED
  BY <1>2, <1>4, <1>5, <1>6 DEF RebalanceInv

LEMMA Distribute ==
    ASSUME NEW a \in Int, NEW b \in Int, NEW c \in Int
    PROVE  /\ (a + b) * c = a * c + b * c /\ c * (a + b) = c * a + c * b
           /\ (a - b) * c = a * c - b * c /\ c * (a - b) = c * a - c * b
OBVIOUS

\* What a fill of an order is: x is the fill, m what its shares pay or bring.
FillOf(o, x, m) ==
    /\ x.qty \in Nat /\ x.qty <= o.qty
    /\ x \in FillRecord /\ x.sym = o.sym /\ x.side = o.side

FillPays(x, m) ==
    m \in Nat /\ x.fee \in Nat /\ x.fee <= m /\ (x.qty = 0 => m = 0) /\ x.impact \in Nat

\* Its shares at the close and its impact; u is the shares at the close.
FillCosts(o, x, m, u) ==
    /\ u \in Nat
    /\ o.side = "BUY" => m = u + x.impact
    /\ o.side = "SELL" => m = u - x.impact

\* What a fill pays or brings, its fee and its friction.
LEMMA FillBalance ==
    ASSUME IsRebalance, RebalanceType, NEW o, o \in OrderRecord,
           NEW qty, qty = Fillable(o),
           NEW x, x = Fill(o, qty),
           NEW m, m = qty * FillPrice(o, qty)
    PROVE  /\ x.qty = qty /\ x.fee = TradeFee(o, qty)
           /\ FillOf(o, x, m) /\ FillPays(x, m) /\ FillCosts(o, x, m, qty * price[o.sym])
<1>1. o.sym \in AssetSet /\ o.side \in {"BUY", "SELL"} /\ o.qty \in Nat
  BY DEF OrderRecord
<1>2. PICK d : d = Impact(qty, volume[o.sym], price[o.sym])
  OBVIOUS
<1>3. PICK p : p = price[o.sym]
  OBVIOUS
<1>4. PICK f : f = FillPrice(o, qty)
  OBVIOUS
<1>5. /\ qty \in Nat /\ qty <= o.qty /\ d \in Nat /\ f \in Nat
      /\ o.side = "BUY" => f = p + d
      /\ o.side = "SELL" => f = p - d
  BY <1>2, <1>3, <1>4, FillTerms
<1>6. p \in Nat
  BY <1>1, <1>3 DEF RebalanceType
<1>7. m = qty * f /\ m \in Nat /\ (qty = 0 => m = 0)
  BY <1>4, <1>5
<1>8. PICK fee : fee = TradeFee(o, qty)
  OBVIOUS
<1>9. fee \in Nat /\ fee <= m
  <2>1. fee = (m * FeePermille) \div 1000
    BY <1>8 DEF TradeFee
  <2>2. FeePermille \in 0 .. 1000
    BY DEF IsRebalance
  <2>3. m \in Nat
    BY <1>7
  <2>4. (m * FeePermille) \div 1000 \in Nat /\ (m * FeePermille) \div 1000 <= m
    BY <2>2, <2>3, FeeBelow
  <2> QED
    BY <2>1, <2>4, Zenon
<1>10. x = [sym |-> o.sym, side |-> o.side, qty |-> qty, left |-> o.qty - qty,
            impact |-> d * qty, fee |-> fee]
  BY <1>2, <1>8 DEF Fill
<1>11. d * qty \in Nat /\ qty * p \in Nat /\ o.qty - qty \in Int
  BY <1>1, <1>5, <1>6
<1>12. x \in FillRecord
  BY <1>1, <1>5, <1>9, <1>10, <1>11 DEF FillRecord
<1>13. qty * (p + d) = qty * p + d * qty /\ qty * (p - d) = qty * p - d * qty
  BY <1>5, <1>6
<1>14. /\ o.side = "BUY" => m = qty * p + d * qty
       /\ o.side = "SELL" => m = qty * p - d * qty
  BY <1>5, <1>7, <1>13, Zenon
<1>15. /\ x.qty = qty /\ x.fee = fee /\ x.sym = o.sym /\ x.side = o.side /\ x.impact = d * qty
  BY <1>10
<1>16. FillOf(o, x, m)
  BY <1>5, <1>12, <1>15, Zenon DEF FillOf
<1>17. FillPays(x, m)
  BY <1>7, <1>9, <1>11, <1>15, Zenon DEF FillPays
<1>18. FillCosts(o, x, m, qty * price[o.sym])
  BY <1>3, <1>11, <1>14, <1>15, Zenon DEF FillCosts
<1> QED
  BY <1>8, <1>15, <1>16, <1>17, <1>18, Zenon

LEMMA MatchOrderKeeps ==
    ASSUME IsRebalance, RebalanceInv, MatchOrder
    PROVE  RebalanceInv'
<1>a. PICK o : o = orders[Len(fills) + 1]
  OBVIOUS
<1>b. PICK qty : qty = Fillable(o)
  OBVIOUS
<1>c. PICK x : x = Fill(o, qty)
  OBVIOUS
<1>d. PICK m : m = qty * FillPrice(o, qty)
  OBVIOUS
<1>1. /\ stage = "route" /\ Len(fills) < Len(orders)
      /\ UNCHANGED <<stage, round, cfgs, weights, price, volume, bookCash, bookPositions, orders>>
      /\ fills' = Append(fills, x)
      /\ qty # 0 /\ o.side = "BUY" => m + TradeFee(o, qty) <= routerCash
      /\ routerCash' = IF o.side = "SELL" THEN routerCash + (m - TradeFee(o, qty))
                       ELSE routerCash - m - TradeFee(o, qty)
  BY <1>a, <1>b, <1>c, <1>d
     DEF MatchOrder, Current, CanPay, SaleProceeds
<1>2. RebalanceType /\ FillsInv /\ DragInv /\ Matchable(orders)
  BY <1>1 DEF RebalanceInv, FillsInv
<1>3. /\ orders \in Seq(OrderRecord) /\ fills \in Seq(FillRecord)
      /\ Len(orders) \in Nat /\ Len(fills) \in Nat
      /\ Len(fills) + 1 \in 1 .. Len(orders) /\ o \in OrderRecord
  BY <1>a, <1>1, <1>2 DEF RebalanceType
<1>e. PICK u : u = qty * price[o.sym]
  OBVIOUS
<1>f. /\ x.qty = qty /\ x.fee = TradeFee(o, qty)
      /\ FillOf(o, x, m) /\ FillPays(x, m) /\ FillCosts(o, x, m, u)
  <2>1. RebalanceType /\ o \in OrderRecord
    BY <1>2, <1>3
  <2>2. /\ x.qty = qty /\ x.fee = TradeFee(o, qty)
        /\ FillOf(o, x, m) /\ FillPays(x, m) /\ FillCosts(o, x, m, qty * price[o.sym])
    BY <2>1, <1>b, <1>c, <1>d, FillBalance, Zenon
  <2> QED
    BY <1>e, <2>2, Zenon
<1>4. /\ qty \in Nat /\ qty <= o.qty
      /\ x \in FillRecord /\ x.sym = o.sym /\ x.side = o.side /\ x.qty = qty
      /\ x.fee = TradeFee(o, qty)
      /\ m \in Nat /\ x.fee \in Nat /\ x.fee <= m /\ (qty = 0 => m = 0) /\ x.impact \in Nat
  BY <1>f, Zenon DEF FillOf, FillPays
<1>g. /\ u \in Nat
      /\ o.side = "BUY" => m = u + x.impact
      /\ o.side = "SELL" => m = u - x.impact
  BY <1>f, Zenon DEF FillCosts
<1>5. o.sym \in AssetSet /\ o.side \in {"BUY", "SELL"}
  BY <1>3 DEF OrderRecord
<1>6. PICK old, new : old = Books(fills, bookPositions) /\ new = Books(fills', bookPositions)
  OBVIOUS
<1>7. old \in Amounts /\ bookPositions \in Amounts
  BY <1>2, <1>6 DEF FillsInv, RebalanceType
<1>8. ASSUME NEW s \in AssetSet
      PROVE  new[s] = old[s] + (IF x.sym = s /\ x.side = "BUY" THEN qty ELSE 0)
                             - (IF x.sym = s /\ x.side = "SELL" THEN qty ELSE 0)
  <2>1. PICK b : b = Filled(fills, s, "BUY")
    OBVIOUS
  <2>2. PICK c : c = Filled(fills, s, "SELL")
    OBVIOUS
  <2>3. /\ Filled(fills', s, "BUY") = b + (IF x.sym = s /\ x.side = "BUY" THEN qty ELSE 0)
        /\ b \in Int
    BY <1>1, <1>3, <1>4, <2>1, FilledGrows
  <2>4. /\ Filled(fills', s, "SELL") = c + (IF x.sym = s /\ x.side = "SELL" THEN qty ELSE 0)
        /\ c \in Int
    BY <1>1, <1>3, <1>4, <2>2, FilledGrows
  <2>5. old[s] = bookPositions[s] + b - c
    BY <1>6, <2>1, <2>2 DEF Books
  <2>6. new[s] = bookPositions[s] + Filled(fills', s, "BUY") - Filled(fills', s, "SELL")
    BY <1>6 DEF Books
  <2>7. bookPositions[s] \in Int
    BY <1>7 DEF Amounts
  <2> QED
    BY <1>4, <2>3, <2>4, <2>5, <2>6, <2>7
<1>9. \A s \in AssetSet \ {o.sym} : new[s] = old[s]
  <2>1. ASSUME NEW s \in AssetSet, s # o.sym PROVE new[s] = old[s]
    <3>1. old[s] \in Int /\ x.sym # s
      BY <1>4, <1>7, <2>1 DEF Amounts
    <3> QED
      BY <1>8, <3>1
  <2> QED
    BY <2>1
<1>10. old[o.sym] = bookPositions[o.sym]
  <2>1. \A i \in 1 .. Len(fills) : fills[i].sym # o.sym
    <3>1. ASSUME NEW i \in 1 .. Len(fills) PROVE fills[i].sym # o.sym
      <4>1. fills[i].sym = orders[i].sym
        BY <1>2 DEF FillsInv
      <4>2. i \in 1 .. Len(orders) /\ i # Len(fills) + 1
        BY <1>3
      <4>3. orders[i].sym # orders[Len(fills) + 1].sym
        BY <1>2, <1>3, <4>2 DEF Matchable
      <4> QED
        BY <1>a, <4>1, <4>3
    <3> QED
      BY <3>1
  <2> QED
    BY <1>2, <1>5, <1>6, <2>1 DEF FillsInv
<1>11. /\ o.side = "BUY" => new[o.sym] = old[o.sym] + qty
       /\ o.side = "SELL" => new[o.sym] = old[o.sym] - qty /\ qty <= old[o.sym]
       /\ new[o.sym] \in Nat /\ old[o.sym] \in Nat
  <2>1. old[o.sym] \in Nat
    BY <1>5, <1>7 DEF Amounts
  <2>2. o.side = "SELL" => o.qty <= bookPositions[o.sym]
    BY <1>a, <1>2, <1>3 DEF Matchable
  <2>3. o.qty \in Nat
    BY <1>3 DEF OrderRecord
  <2>4. /\ o.side = "BUY" => new[o.sym] = old[o.sym] + qty - 0
        /\ o.side = "SELL" => new[o.sym] = old[o.sym] + 0 - qty
    BY <1>4, <1>5, <1>8
  <2> QED
    BY <1>4, <1>5, <1>10, <2>1, <2>2, <2>3, <2>4
<1>12. new \in Amounts
  <2>1. \A s \in AssetSet : new[s] \in Nat
    BY <1>7, <1>9, <1>11 DEF Amounts
  <2> QED
    BY <1>6, <2>1 DEF Amounts, Books
<1>13. /\ routerCash' \in Nat
       /\ o.side = "SELL" => routerCash' = routerCash + (m - x.fee)
       /\ o.side = "BUY" => routerCash' = routerCash - m - x.fee
  <2>1. routerCash \in Nat
    BY <1>2 DEF RebalanceType
  <2>2. CASE o.side = "SELL"
    BY <1>1, <1>4, <2>1, <2>2
  <2>3. CASE o.side = "BUY"
    <3>1. routerCash' = routerCash - m - x.fee
      BY <1>1, <1>4, <2>3
    <3>2. qty # 0 => m + x.fee <= routerCash
      BY <1>1, <1>4, <2>3
    <3>3. qty = 0 => m = 0 /\ x.fee = 0
      BY <1>4
    <3>4. routerCash - m - x.fee \in Nat
      BY <1>4, <2>1, <3>2, <3>3
    <3> QED
      BY <2>3, <3>1, <3>4
  <2> QED
    BY <1>5, <2>2, <2>3
<1>14. /\ fills' \in Seq(FillRecord) /\ Len(fills') = Len(fills) + 1
       /\ \A i \in 1 .. Len(fills) : fills'[i] = fills[i]
       /\ fills'[Len(fills) + 1] = x
  BY <1>1, <1>3, <1>4
<1>15. RebalanceType'
  <2>1. routerCash' \in Nat /\ fills' \in Seq(FillRecord)
    BY <1>13, <1>14
  <2>2. UNCHANGED <<stage, weights, cfgs, price, volume, bookCash, bookPositions, orders>>
    BY <1>1
  <2> QED
    BY <1>2, <2>1, <2>2 DEF RebalanceType
<1>16. FillsInv'
  <2>1. Len(fills') <= Len(orders')
    BY <1>1, <1>3, <1>14
  <2>2. \A i \in 1 .. Len(fills') : fills'[i].sym = orders'[i].sym
    <3>1. ASSUME NEW i \in 1 .. Len(fills') PROVE fills'[i].sym = orders[i].sym
      <4>1. i \in 1 .. Len(fills) \/ i = Len(fills) + 1
        BY <1>3, <1>14
      <4>2. CASE i \in 1 .. Len(fills)
        BY <1>2, <1>14, <4>2 DEF FillsInv
      <4>3. CASE i = Len(fills) + 1
        <5>1. fills'[i] = x /\ orders[i] = o /\ x.sym = o.sym
          BY <1>a, <1>4, <1>14, <4>3, Zenon
        <5> QED
          BY <5>1
      <4> QED
        BY <4>1, <4>2, <4>3
    <3> QED
      BY <1>1, <3>1
  <2>3. ASSUME NEW s \in AssetSet, \A i \in 1 .. Len(fills') : fills'[i].sym # s
        PROVE  new[s] = bookPositions[s]
    <3>1. Len(fills) + 1 \in 1 .. Len(fills')
      BY <1>3, <1>14
    <3>2. s # o.sym
      <4>1. fills'[Len(fills) + 1] = x /\ x.sym = o.sym
        BY <1>4, <1>14
      <4>2. fills'[Len(fills) + 1].sym # s
        BY <2>3, <3>1
      <4> QED
        BY <4>1, <4>2
    <3>3. \A i \in 1 .. Len(fills) : fills[i].sym # s
      BY <1>3, <1>14, <2>3
    <3>4. old[s] = bookPositions[s]
      BY <1>2, <1>6, <3>3 DEF FillsInv
    <3> QED
      BY <1>9, <3>2, <3>4
  <2>4. Matchable(orders)'
    BY <1>1, <1>2 DEF Matchable
  <2> QED
    BY <1>1, <1>6, <1>12, <2>1, <2>2, <2>3, <2>4 DEF FillsInv
<1>17. DragInv'
  <2>1. PICK p : p = price[o.sym]
    OBVIOUS
  <2>2. price \in [AssetSet -> Nat \ {0}] /\ p \in Nat
    BY <1>2, <1>5, <2>1 DEF RebalanceType
  <2>3. old \in [AssetSet -> Int] /\ new \in [AssetSet -> Int] /\ bookPositions \in [AssetSet -> Int]
    BY <1>7, <1>12 DEF Amounts
  <2>4. PICK before : before = Value(price, old)
    OBVIOUS
  <2>5. PICK after : after = Value(price, new)
    OBVIOUS
  <2>6. PICK start : start = Value(price, bookPositions)
    OBVIOUS
  <2>7. before \in Int /\ after \in Int /\ start \in Int
    BY <2>2, <2>3, <2>4, <2>5, <2>6, WorthType
  <2>8. after = before + (new[o.sym] * p - old[o.sym] * p)
    BY <1>5, <1>9, <2>1, <2>2, <2>3, <2>4, <2>5, ValueChanges
  <2>9. u = qty * p
    BY <1>e, <2>1
  <2>10. u \in Nat
    BY <1>g
  <2>11. /\ o.side = "BUY" => after = before + u
         /\ o.side = "SELL" => after = before - u
    <3>1. PICK y, z : y = old[o.sym] /\ z = new[o.sym]
      OBVIOUS
    <3>2. y \in Int /\ z \in Int /\ (o.side = "BUY" => z = y + qty) /\ (o.side = "SELL" => z = y - qty)
      BY <1>11, <3>1
    <3>3. after = before + (z * p - y * p)
      BY <2>8, <3>1
    <3>4. (y + qty) * p = y * p + qty * p /\ (y - qty) * p = y * p - qty * p /\ y * p \in Int
      BY <1>4, <2>2, <3>2, Distribute
    <3>5. PICK v : v = y * p
      OBVIOUS
    <3>6. /\ o.side = "BUY" => z * p = v + u
          /\ o.side = "SELL" => z * p = v - u
      BY <2>9, <3>2, <3>4, <3>5, Zenon
    <3>7. v \in Int
      BY <3>4, <3>5
    <3>8. /\ o.side = "BUY" => after = before + ((v + u) - v)
          /\ o.side = "SELL" => after = before + ((v - u) - v)
      BY <3>3, <3>5, <3>6, Zenon
    <3> QED
      BY <2>7, <2>10, <3>7, <3>8
  <2>12. Drag(fills') = Drag(fills) + (x.impact + x.fee) /\ Drag(fills) \in Int
    BY <1>1, <1>3, <1>4, DragGrows
  <2>13. (bookCash + start) - (routerCash + before) = Drag(fills)
    BY <1>1, <1>2, <1>6, <2>4, <2>6 DEF DragInv
  <2>14. bookCash \in Int /\ routerCash \in Int
    BY <1>2 DEF RebalanceType
  <2>a. PICK fee, imp : fee = x.fee /\ imp = x.impact
    OBVIOUS
  <2>b. fee \in Nat /\ imp \in Nat /\ m \in Nat
    BY <1>4, <2>a
  <2>c. PICK drag : drag = Drag(fills)
    OBVIOUS
  <2>d. drag \in Int /\ Drag(fills') = drag + (imp + fee)
    BY <2>12, <2>a, <2>c
  <2>15. (bookCash + start) - (routerCash' + after) = Drag(fills')
    <3>1. CASE o.side = "BUY"
      <4>1. routerCash' = routerCash - m - fee
        BY <1>13, <2>a, <3>1
      <4>2. after = before + u
        BY <2>11, <3>1
      <4>3. m = u + imp
        BY <1>g, <2>a, <3>1
      <4> QED
        BY <2>7, <2>10, <2>13, <2>14, <2>b, <2>c, <2>d, <4>1, <4>2, <4>3
    <3>2. CASE o.side = "SELL"
      <4>1. routerCash' = routerCash + (m - fee)
        BY <1>13, <2>a, <3>2
      <4>2. after = before - u
        BY <2>11, <3>2
      <4>3. m = u - imp
        BY <1>g, <2>a, <3>2
      <4> QED
        BY <2>7, <2>10, <2>13, <2>14, <2>b, <2>c, <2>d, <4>1, <4>2, <4>3
    <3> QED
      BY <1>5, <3>1, <3>2
  <2> QED
    BY <1>1, <1>6, <2>5, <2>6, <2>15 DEF DragInv
<1> QED
  BY <1>15, <1>16, <1>17 DEF RebalanceInv

LEMMA RebalanceInvariant ==
    ASSUME IsRebalance
    PROVE  RebalanceSpec => []RebalanceInv
<1>1. RebalanceInit => RebalanceInv
  BY RebalanceStarts
<1>2. RebalanceInv /\ [RebalanceNext]_rebalanceVars => RebalanceInv'
  BY RebalanceWaits, RunAllocationKeeps, GeneratePlanKeeps, NextPricesKeep, MatchOrderKeeps,
     AbortMatchKeeps, BookFillsKeeps DEF RebalanceNext
<1> QED
  BY <1>1, <1>2, PTL DEF RebalanceSpec

\* INV-32: neither the cash of the books and of the match nor a position ever falls
\* below zero (match_bar_orders, generate_rebalance_plan), for any number of assets
\* and strategies, whatever the prices and volumes of the bar after the plan.
THEOREM RebalancesStaySolvent == RebalanceSpec => []StaysSolvent
<1> USE RebalanceAssumption
<1>1. RebalanceInv => StaysSolvent
  <2> SUFFICES ASSUME RebalanceInv PROVE StaysSolvent
    OBVIOUS
  <2>1. bookCash >= 0 /\ routerCash >= 0 /\ bookPositions \in Amounts /\ Books(fills, bookPositions) \in Amounts
    BY DEF RebalanceInv, RebalanceType, FillsInv
  <2>2. ASSUME NEW s \in AssetSet PROVE bookPositions[s] >= 0 /\ After(s) >= 0
    <3>1. After(s) = Books(fills, bookPositions)[s]
      BY AfterIsBooked
    <3> QED
      BY <2>1, <3>1 DEF Amounts
  <2> QED
    BY <2>1, <2>2 DEF StaysSolvent, AssetSet
<1> QED
  BY <1>1, RebalanceInvariant, PTL

\* What a match takes from the portfolio, at the closes of its bar, is the friction
\* compute_brinson_attribution reports for its fills, for every plan, bar and fee.
THEOREM DragIsTheLoss == RebalanceSpec => DragExplainsLoss
<1> USE RebalanceAssumption
<1> DEFINE Explained == BookFills =>
              PortfolioValue - (bookCash' + Holdings(bookPositions')) = FrictionDrag
<1>1. RebalanceInv /\ [RebalanceNext]_rebalanceVars => [Explained]_rebalanceVars
  <2> SUFFICES ASSUME RebalanceInv, BookFills
               PROVE  PortfolioValue - (bookCash' + Holdings(bookPositions'))
                        = FrictionDrag
    OBVIOUS
  <2>1. stage = "route" /\ bookCash' = routerCash
    BY DEF BookFills
  <2>2. bookPositions' = Books(fills, bookPositions)
    BY BookFillsKeeps
  <2>3. (bookCash + Value(price, bookPositions)) - (routerCash + Value(price, Books(fills, bookPositions))) = Drag(fills)
    BY <2>1 DEF RebalanceInv, DragInv
  <2>4. PortfolioValue = bookCash + Value(price, bookPositions)
    BY HoldingsIsValue DEF PortfolioValue
  <2>5. PICK books : books = Books(fills, bookPositions)
    OBVIOUS
  <2>6. Holdings(books) = Value(price, books)
    BY HoldingsIsValue
  <2>7. Holdings(bookPositions') = Value(price, Books(fills, bookPositions))
    BY <2>2, <2>5, <2>6
  <2>8. FrictionDrag = Drag(fills)
    BY DEF FrictionDrag, Drag
  <2> QED
    BY <2>1, <2>3, <2>4, <2>7, <2>8, Zenon
<1> QED
  BY <1>1, RebalanceInvariant, PTL DEF RebalanceSpec, DragExplainsLoss

=============================================================================
