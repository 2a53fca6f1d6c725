-------------------------- MODULE PaperSessionProofs --------------------------
(***************************************************************************)
(* Proofs about the paper engine, for any sessions, symbols, quantities,    *)
(* prices, fees and limits, a crash, a lost commit or a move of the breaker  *)
(* between any two steps of a call.                                         *)
(***************************************************************************)
EXTENDS PaperSession, FiniteSetTheorems, TLAPS

(***************************************************************************)
(* Sums over the symbols of a portfolio.  MapThenSumSet is a recursive      *)
(* function on subsets: the lemmas show that it is defined, that it does    *)
(* not depend on the order, and what one changed summand does to it.        *)
(***************************************************************************)

Pick(s) == CHOOSE x \in s : TRUE

\* g adds up w over the subsets of S.
Adds(g, w, S) ==
    g = [s \in SUBSET S |-> IF s = {} THEN 0 ELSE w[Pick(s)] + g[s \ {Pick(s)}]]

Total(w, S) == (CHOOSE g : Adds(g, w, S))[S]

\* What holds of a set when it holds of its strict subsets, holds of every subset.
LEMMA SubsetInduction ==
    ASSUME NEW S, IsFiniteSet(S), NEW G \in SUBSET SUBSET S,
           \A T \in SUBSET S : (\A U \in SUBSET T : U # T => U \in G) => T \in G
    PROVE  \A T \in SUBSET S : T \in G
<1> SUFFICES ASSUME (SUBSET S) \ G # {} PROVE FALSE
  OBVIOUS
<1> PICK B : B = (SUBSET S) \ G
  OBVIOUS
<1> PICK R : R = StrictSubsetOrdering(S)
  OBVIOUS
<1>1. IsWellFoundedOn(R, SUBSET S)
  <2>1. FiniteSubsetsOf(S) = SUBSET S
    BY FS_FiniteSubsetsOfFinite
  <2>2. IsWellFoundedOn(StrictSubsetOrdering(S), FiniteSubsetsOf(S))
    BY FS_StrictSubsetOrderingWellFounded
  <2> QED
    BY <2>1, <2>2
<1>2. \E T \in B : \A U \in B : ~ (<<U, T>> \in R)
  <2>1. B \subseteq SUBSET S /\ B # {}
    OBVIOUS
  <2> QED
    BY <1>1, <2>1, WFMin
<1>3. PICK T \in B : \A U \in B : ~ (<<U, T>> \in R)
  BY <1>2
<1>4. \A U \in SUBSET T : U # T => U \in G
  BY <1>3 DEF StrictSubsetOrdering
<1> QED
  BY <1>3, <1>4

\* A set of numbers with zero in it and the successor of each of its members.
LEMMA CountingUp ==
    ASSUME NEW G \in SUBSET Nat, 0 \in G, \A n \in G : n + 1 \in G
    PROVE  G = Nat
<1> SUFFICES ASSUME Nat \ G # {} PROVE FALSE
  OBVIOUS
<1> PICK B : B = Nat \ G
  OBVIOUS
<1> PICK R : R = {ss \in Nat \X Nat : ss[1] < ss[2]}
  OBVIOUS
<1>1. IsWellFoundedOn(R, Nat)
  BY NatLessThanWellFounded DEF OpToRel
<1>2. \E m \in B : \A k \in B : ~ (<<k, m>> \in R)
  <2>1. B \subseteq Nat /\ B # {}
    OBVIOUS
  <2> QED
    BY <1>1, <2>1, WFMin
<1>3. PICK m \in B : \A k \in B : ~ (<<k, m>> \in R)
  BY <1>2
<1>4. m # 0 /\ m - 1 \in Nat /\ m - 1 < m
  OBVIOUS
<1>5. m - 1 \in G
  BY <1>3, <1>4
<1> QED
  BY <1>4, <1>5

\* What is taken away in either order is the same.
LEMMA TakenTwice ==
    ASSUME NEW a \in Int, NEW c \in Int, NEW x \in Int, NEW p, NEW q, NEW r \in Int,
           a = c + p, p = x + r, q = c + r
    PROVE  a = x + q
OBVIOUS

\* The sum is defined, for subsets of any size.
LEMMA AddsExists ==
    ASSUME NEW S, IsFiniteSet(S), NEW w \in [S -> Int]
    PROVE  \E g : Adds(g, w, S)
<1> DEFINE Small(n) == {s \in SUBSET S : Cardinality(s) <= n}
           Step(g, n) == [s \in Small(n) |-> IF s = {} THEN 0 ELSE w[Pick(s)] + g[s \ {Pick(s)}]]
           Good == {n \in Nat : \E g : g = Step(g, n)}
<1>1. \A s \in SUBSET S : IsFiniteSet(s) /\ Cardinality(s) \in Nat
  BY FS_Subset, FS_CardinalityType
<1>2. \A s \in SUBSET S : s # {} =>
         s \ {Pick(s)} \in SUBSET S /\ Cardinality(s \ {Pick(s)}) = Cardinality(s) - 1
  BY <1>1, FS_RemoveElement DEF Pick
<1>3. 0 \in Good
  <2>1. \A s \in Small(0) : s = {}
    BY <1>1, FS_EmptySet
  <2>2. [s \in Small(0) |-> 0] = Step([s \in Small(0) |-> 0], 0)
    BY <2>1
  <2> QED
    BY <2>2
<1>4. ASSUME NEW n \in Good PROVE n + 1 \in Good
  <2>1. PICK g : g = Step(g, n)
    BY <1>4
  <2> DEFINE h == Step(g, n + 1)
  <2>2. ASSUME NEW s \in Small(n + 1), s # {} PROVE h[s \ {Pick(s)}] = g[s \ {Pick(s)}]
    <3> DEFINE r == s \ {Pick(s)}
    <3>1. r \in Small(n) /\ r \in Small(n + 1)
      BY <1>1, <1>2, <2>2
    <3> QED
      BY <2>1, <3>1
  <2>3. h = Step(h, n + 1)
    BY <2>2
  <2>4. \E k : k = Step(k, n + 1)
    <3> HIDE DEF h, Step
    <3> QED
      BY <2>3
  <2> HIDE DEF h, Step
  <2> QED
    BY <1>4, <2>4
<1>5. Good = Nat
  <2> HIDE DEF Good
  <2>1. Good \in SUBSET Nat
    BY DEF Good
  <2> QED
    BY <1>3, <1>4, <2>1, CountingUp
<1>6. PICK g : g = Step(g, Cardinality(S))
  BY <1>1, <1>5
<1>7. Small(Cardinality(S)) = SUBSET S
  BY FS_Subset
<1> QED
  BY <1>6, <1>7 DEF Adds

\* Sums of integers are integers.
LEMMA AddsType ==
    ASSUME NEW S, IsFiniteSet(S), NEW w \in [S -> Int], NEW g, Adds(g, w, S)
    PROVE  \A T \in SUBSET S : g[T] \in Int
<1> DEFINE G == {T \in SUBSET S : g[T] \in Int}
<1>1. ASSUME NEW T \in SUBSET S, \A U \in SUBSET T : U # T => U \in G PROVE T \in G
  <2>1. CASE T = {}
    BY <2>1 DEF Adds
  <2>2. CASE T # {}
    <3>1. Pick(T) \in T /\ T \ {Pick(T)} \in SUBSET T /\ T \ {Pick(T)} # T
      BY <2>2 DEF Pick
    <3>2. g[T \ {Pick(T)}] \in Int
      BY <1>1, <3>1
    <3>3. g[T] = w[Pick(T)] + g[T \ {Pick(T)}]
      BY <2>2 DEF Adds
    <3> QED
      BY <3>1, <3>2, <3>3
  <2> QED
    BY <2>1, <2>2
<1>2. \A T \in SUBSET S : T \in G
  <2> HIDE DEF G
  <2>1. G \in SUBSET SUBSET S
    BY DEF G
  <2> QED
    BY <1>1, <2>1, SubsetInduction
<1> QED
  BY <1>2

\* Any summand may be the one that is added last.
LEMMA AddsAny ==
    ASSUME NEW S, IsFiniteSet(S), NEW w \in [S -> Int], NEW g, Adds(g, w, S)
    PROVE  \A T \in SUBSET S : \A x \in T : g[T] = w[x] + g[T \ {x}]
<1> DEFINE G == {T \in SUBSET S : \A x \in T : g[T] = w[x] + g[T \ {x}]}
<1>1. ASSUME NEW T \in SUBSET S, \A U \in SUBSET T : U # T => U \in G PROVE T \in G
  <2> SUFFICES ASSUME NEW x \in T PROVE g[T] = w[x] + g[T \ {x}]
    OBVIOUS
  <2> DEFINE c == Pick(T)
  <2>1. c \in T
    BY DEF Pick
  <2>2. g[T] = w[c] + g[T \ {c}]
    BY DEF Adds
  <2>3. CASE c = x
    BY <2>2, <2>3
  <2>4. CASE c # x
    <3> HIDE DEF c
    <3>1. g[T \ {c}] = w[x] + g[(T \ {c}) \ {x}]
      <4>1. T \ {c} \in G
        BY <1>1, <2>1
      <4> QED
        BY <2>4, <4>1
    <3>2. g[T \ {x}] = w[c] + g[(T \ {x}) \ {c}]
      <4>1. T \ {x} \in G
        BY <1>1
      <4> QED
        BY <2>1, <2>4, <4>1
    <3>3. (T \ {c}) \ {x} = (T \ {x}) \ {c}
      OBVIOUS
    <3>4. g[T] \in Int /\ w[x] \in Int /\ w[c] \in Int /\ g[(T \ {x}) \ {c}] \in Int
      BY <2>1, AddsType
    <3> HIDE DEF G
    <3> QED
      BY <2>2, <3>1, <3>2, <3>3, <3>4, TakenTwice
  <2> QED
    BY <2>3, <2>4
<1>2. \A T \in SUBSET S : T \in G
  <2> HIDE DEF G
  <2>1. G \in SUBSET SUBSET S
    BY DEF G
  <2> QED
    BY <1>1, <2>1, SubsetInduction
<1> QED
  BY <1>2

\* Equal summands have equal sums.
LEMMA AddsSame ==
    ASSUME NEW S, IsFiniteSet(S), NEW v \in [S -> Int], NEW w \in [S -> Int],
           NEW g, Adds(g, v, S), NEW h, Adds(h, w, S),
           NEW R \in SUBSET S, \A x \in R : v[x] = w[x]
    PROVE  g[R] = h[R]
<1> DEFINE G == {T \in SUBSET S : T \subseteq R => g[T] = h[T]}
<1>1. ASSUME NEW T \in SUBSET S, \A U \in SUBSET T : U # T => U \in G PROVE T \in G
  <2> SUFFICES ASSUME T \subseteq R PROVE g[T] = h[T]
    OBVIOUS
  <2>1. CASE T = {}
    BY <2>1 DEF Adds
  <2>2. CASE T # {}
    <3>1. Pick(T) \in T /\ T \ {Pick(T)} \in SUBSET T /\ T \ {Pick(T)} # T
      BY <2>2 DEF Pick
    <3>2. g[T \ {Pick(T)}] = h[T \ {Pick(T)}]
      BY <1>1, <3>1
    <3>3. g[T] = v[Pick(T)] + g[T \ {Pick(T)}] /\ h[T] = w[Pick(T)] + h[T \ {Pick(T)}]
      BY <2>2 DEF Adds
    <3> QED
      BY <3>1, <3>2, <3>3
  <2> QED
    BY <2>1, <2>2
<1>2. \A T \in SUBSET S : T \in G
  <2> HIDE DEF G
  <2>1. G \in SUBSET SUBSET S
    BY DEF G
  <2> QED
    BY <1>1, <2>1, SubsetInduction
<1> QED
  BY <1>2

\* A total is the value of a sum on the whole set.
LEMMA TotalAdds ==
    ASSUME NEW S, IsFiniteSet(S), NEW w \in [S -> Int]
    PROVE  \E g : Adds(g, w, S) /\ Total(w, S) = g[S]
BY AddsExists DEF Total

\* Changing one summand changes the sum by as much.
LEMMA TotalChanged ==
    ASSUME NEW S, IsFiniteSet(S), NEW v \in [S -> Int], NEW w \in [S -> Int],
           NEW x \in S, \A y \in S \ {x} : v[y] = w[y]
    PROVE  Total(w, S) = Total(v, S) + w[x] - v[x]
<1>1. PICK g : Adds(g, v, S) /\ Total(v, S) = g[S]
  BY TotalAdds
<1>2. PICK h : Adds(h, w, S) /\ Total(w, S) = h[S]
  BY TotalAdds
<1>3. g[S] = v[x] + g[S \ {x}] /\ h[S] = w[x] + h[S \ {x}]
  <2>1. g[S] = v[x] + g[S \ {x}]
    BY <1>1, AddsAny
  <2>2. h[S] = w[x] + h[S \ {x}]
    BY <1>2, AddsAny
  <2> QED
    BY <2>1, <2>2
<1>4. g[S \ {x}] = h[S \ {x}]
  BY <1>1, <1>2, AddsSame
<1>5. g[S \ {x}] \in Int /\ v[x] \in Int /\ w[x] \in Int
  BY <1>1, AddsType
<1> QED
  BY <1>1, <1>2, <1>3, <1>4, <1>5

\* A sum of amounts that are not negative is not negative.
LEMMA TotalNat ==
    ASSUME NEW S, IsFiniteSet(S), NEW w \in [S -> Nat]
    PROVE  Total(w, S) \in Nat
<1>0. w \in [S -> Int]
  OBVIOUS
<1>1. PICK g : Adds(g, w, S) /\ Total(w, S) = g[S]
  BY <1>0, TotalAdds
<1> DEFINE G == {T \in SUBSET S : g[T] \in Nat}
<1>2. ASSUME NEW T \in SUBSET S, \A U \in SUBSET T : U # T => U \in G PROVE T \in G
  <2>1. CASE T = {}
    BY <1>1, <2>1 DEF Adds
  <2>2. CASE T # {}
    <3>1. Pick(T) \in T /\ T \ {Pick(T)} \in SUBSET T /\ T \ {Pick(T)} # T
      BY <2>2 DEF Pick
    <3>2. g[T \ {Pick(T)}] \in Nat
      BY <1>2, <3>1
    <3>3. g[T] = w[Pick(T)] + g[T \ {Pick(T)}]
      BY <1>1, <2>2 DEF Adds
    <3> QED
      BY <3>1, <3>2, <3>3
  <2> QED
    BY <2>1, <2>2
<1>3. \A T \in SUBSET S : T \in G
  <2> HIDE DEF G
  <2>1. G \in SUBSET SUBSET S
    BY DEF G
  <2> QED
    BY <1>2, <2>1, SubsetInduction
<1> QED
  BY <1>1, <1>3

\* The sum of nothing but zeros is zero.
LEMMA TotalZero ==
    ASSUME NEW S, IsFiniteSet(S)
    PROVE  Total([x \in S |-> 0], S) = 0
<1> DEFINE z == [x \in S |-> 0]
           g == [T \in SUBSET S |-> 0]
<1>0. z \in [S -> Int]
  OBVIOUS
<1>1. Adds(g, z, S)
  BY DEF Adds, Pick
<1>2. PICK h : Adds(h, z, S) /\ Total(z, S) = h[S]
  BY <1>0, TotalAdds
<1>3. g[S] = h[S]
  <2> HIDE DEF z, g
  <2> QED
    BY <1>0, <1>1, <1>2, AddsSame
<1> QED
  BY <1>2, <1>3

-----------------------------------------------------------------------------
\* The market value and the cost of a portfolio are such sums.
Values(p) == [s \in Symbols |-> p.pos[s].qty * p.pos[s].price]
Costs(p) == [s \in Symbols |-> p.pos[s].cost]

LEMMA MarketValueIsTotal ==
    ASSUME IsFiniteSet(Symbols), NEW p, Values(p) \in [Symbols -> Int]
    PROVE  MarketValue(p) = Total(Values(p), Symbols)
<1>1. PICK g : Adds(g, Values(p), Symbols) /\ Total(Values(p), Symbols) = g[Symbols]
  BY TotalAdds
<1> DEFINE Iter(h) ==
      h = [s \in SUBSET Symbols |->
             IF s = {} THEN 0
             ELSE p.pos[Pick(s)].qty * p.pos[Pick(s)].price + h[s \ {Pick(s)}]]
<1>2. \A h : Iter(h) <=> Adds(h, Values(p), Symbols)
  BY DEF Adds, Values, Pick
<1>3. MarketValue(p) = (CHOOSE h : Iter(h))[Symbols]
  BY DEF MarketValue, MapThenSumSet, MapThenFoldSet, Pick
<1> HIDE DEF Iter
<1>4. Iter(CHOOSE h : Iter(h))
  BY <1>1, <1>2
<1>5. PICK k : k = CHOOSE h : Iter(h)
  OBVIOUS
<1>6. Adds(k, Values(p), Symbols)
  BY <1>2, <1>4, <1>5
<1>7. k[Symbols] = g[Symbols]
  BY <1>1, <1>6, AddsSame
<1> QED
  BY <1>1, <1>3, <1>5, <1>7

LEMMA CostIsTotal ==
    ASSUME IsFiniteSet(Symbols), NEW p, Costs(p) \in [Symbols -> Int]
    PROVE  MapThenSumSet(LAMBDA s : p.pos[s].cost, Symbols) = Total(Costs(p), Symbols)
<1>1. PICK g : Adds(g, Costs(p), Symbols) /\ Total(Costs(p), Symbols) = g[Symbols]
  BY TotalAdds
<1> DEFINE Iter(h) ==
      h = [s \in SUBSET Symbols |->
             IF s = {} THEN 0 ELSE p.pos[Pick(s)].cost + h[s \ {Pick(s)}]]
<1>2. \A h : Iter(h) <=> Adds(h, Costs(p), Symbols)
  BY DEF Adds, Costs, Pick
<1>3. MapThenSumSet(LAMBDA s : p.pos[s].cost, Symbols) = (CHOOSE h : Iter(h))[Symbols]
  BY DEF MapThenSumSet, MapThenFoldSet, Pick
<1> HIDE DEF Iter
<1>4. Iter(CHOOSE h : Iter(h))
  BY <1>1, <1>2
<1>5. PICK k : k = CHOOSE h : Iter(h)
  OBVIOUS
<1>6. Adds(k, Costs(p), Symbols)
  BY <1>2, <1>4, <1>5
<1>7. k[Symbols] = g[Symbols]
  BY <1>1, <1>6, AddsSame
<1> QED
  BY <1>1, <1>3, <1>5, <1>7

-----------------------------------------------------------------------------
(***************************************************************************)
(* The inductive invariant.                                                 *)
(***************************************************************************)

Statuses == {"NONE", "CREATED", "RUNNING", "PAUSED", "STOPPED"}

Position == [qty : Nat, avg : Nat, cost : Nat, price : Nat]

Portfolio ==
    [cash : Int, pos : [Symbols -> Position], realized : Int, fees : Nat, trades : Nat,
     hwm : Nat \ {0}, dayStart : Int, maxDd : Nat, averaged : Nat]

SavedRow == [status : Statuses \ {"NONE"}, pf : Portfolio]

TypeInv ==
    /\ status \in [Sessions -> Statuses]
    /\ pf \in [Sessions -> Portfolio]
    /\ row \in [Sessions -> SUBSET SavedRow]
    /\ lock \in {"free", "fill", "persist"}
    /\ holder \subseteq Sessions /\ order \subseteq Order
    /\ dirty \subseteq Sessions

\* One call at a time, about a session that was created.
CallInv ==
    /\ Free => holder = {}
    /\ \A m, n \in holder : m = n
    /\ \A n \in holder : status[n] # "NONE"

\* A session has one row, written after it was created; what its call has finished is
\* in it.
DurableInv ==
    /\ \A n \in Sessions : \A r, q \in row[n] : r = q
    /\ \A n \in Sessions : status[n] = "NONE" => row[n] = {}
    /\ \A n \in Sessions \ (dirty \cup holder) :
          status[n] # "NONE" => row[n] = {[status |-> status[n], pf |-> pf[n]]}

\* q has forgotten neither the peak nor the drawdown of p.
Remembers(q, p) == q.hwm >= p.hwm /\ q.maxDd >= p.maxDd

\* A peak and a drawdown in memory are never behind those of the row.
PeakInv == \A n \in Sessions : \A r \in row[n] : Remembers(pf[n], r.pf)

\* What is not held costs nothing.
Settled(p) == \A s \in Symbols : p.pos[s].qty = 0 => p.pos[s] = NoPosition

\* Twice what an average price, times the shares held, is off what they cost.
Roundings(p) == [s \in Symbols |-> 2 * Abs(p.pos[s].qty * p.pos[s].avg - p.pos[s].cost)]

\* What rounding has already moved from the books, and what it will move when the
\* shares now held are sold.
DriftOk(p, capital) ==
    2 * Abs(Imbalance(p, capital)) + Total(Roundings(p), Symbols) <= p.averaged

\* The recorded drawdown is the present one, or more.
DrawdownOk(p) == 20000 * (p.hwm - Equity(p)) <= (2 * p.maxDd + 1) * p.hwm

BooksOk(p, capital) == Settled(p) /\ DriftOk(p, capital) /\ DrawdownOk(p)

BooksInv ==
    \A n \in Sessions :
        BooksOk(pf[n], Capital[n]) /\ \A r \in row[n] : BooksOk(r.pf, Capital[n])

SessionInv == TypeInv /\ CallInv /\ DurableInv /\ PeakInv /\ BooksInv

-----------------------------------------------------------------------------
(***************************************************************************)
(* What each operation does to the books of one portfolio.                  *)
(***************************************************************************)

LEMMA Division ==
    ASSUME NEW n \in Nat, NEW d \in Nat \ {0}
    PROVE  /\ n \div d \in Nat
           /\ d * (n \div d) <= n
           /\ n < d * (n \div d) + d
OBVIOUS

LEMMA LargerProduct ==
    ASSUME NEW a \in Nat, NEW b \in Nat, NEW c \in Nat, a <= b
    PROVE  c * a <= c * b
OBVIOUS

\* The drawdown that is recorded, in basis points, after dd.
Record(peak, eq, dd) ==
    IF (peak - eq) * 10000 > dd * peak
    THEN (2 * (peak - eq) * 10000 + peak) \div (2 * peak) ELSE dd

\* new covers dd and, up to half a basis point, the distance of eq to the peak.
Covers(new, peak, eq, dd) ==
    new \in Nat /\ new >= dd /\ 20000 * (peak - eq) <= (2 * new + 1) * peak

\* Rounding half up to basis points neither loses a drawdown nor lowers the record.
LEMMA DrawdownRecorded ==
    ASSUME NEW eq \in Int, NEW peak \in Nat \ {0}, eq <= peak, NEW dd \in Nat
    PROVE  Covers(Record(peak, eq, dd), peak, eq, dd)
<1>0. PICK new : new = Record(peak, eq, dd)
  OBVIOUS
<1>1. CASE (peak - eq) * 10000 > dd * peak
  <2> DEFINE n == 2 * (peak - eq) * 10000 + peak
             d == 2 * peak
  <2>1. n \in Nat /\ d \in Nat \ {0}
    OBVIOUS
  <2>2. new \in Nat /\ n < d * new + d
    <3> HIDE DEF n, d
    <3>1. n \div d \in Nat /\ n < d * (n \div d) + d
      BY <2>1, Division
    <3> QED
      BY <1>0, <1>1, <3>1 DEF n, d, Record
  <2>3. d * new + d = (2 * new + 1) * peak + peak
    BY <2>2
  <2>4. 20000 * (peak - eq) <= (2 * new + 1) * peak
    BY <2>2, <2>3
  <2>5. new >= dd
    <3> SUFFICES ASSUME new + 1 <= dd PROVE FALSE
      BY <2>2
    <3>1. d * (new + 1) <= d * dd
      BY <2>1, <2>2, LargerProduct
    <3>2. d * dd = 2 * (dd * peak) /\ d * (new + 1) = d * new + d
      BY <2>1, <2>2
    <3> QED
      BY <1>1, <2>2, <3>1, <3>2
  <2> QED
    BY <1>0, <2>2, <2>4, <2>5 DEF Covers
<1>2. CASE ~ ((peak - eq) * 10000 > dd * peak)
  <2>1. new = dd
    BY <1>0, <1>2 DEF Record
  <2>2. (2 * dd + 1) * peak = 2 * (dd * peak) + peak
    OBVIOUS
  <2>3. dd * peak \in Int
    OBVIOUS
  <2> QED
    BY <1>0, <1>2, <2>1, <2>2, <2>3 DEF Covers
<1> QED
  BY <1>0, <1>1, <1>2

LEMMA AbsNat == \A n \in Int : Abs(n) \in Nat
BY DEF Abs

LEMMA SumTypes ==
    ASSUME NEW p \in Portfolio
    PROVE  /\ Values(p) \in [Symbols -> Nat] /\ Costs(p) \in [Symbols -> Nat]
           /\ Roundings(p) \in [Symbols -> Nat]
           /\ Total(Values(p), Symbols) \in Nat /\ Total(Costs(p), Symbols) \in Nat
           /\ Total(Roundings(p), Symbols) \in Nat
<1>1. \A s \in Symbols : p.pos[s] \in Position
  BY DEF Portfolio
<1>2. Values(p) \in [Symbols -> Nat] /\ Costs(p) \in [Symbols -> Nat]
  BY <1>1 DEF Values, Costs, Position
<1>3. \A s \in Symbols : p.pos[s].qty * p.pos[s].avg - p.pos[s].cost \in Int
  BY <1>1 DEF Position
<1>4. Roundings(p) \in [Symbols -> Nat]
  BY <1>3, AbsNat DEF Roundings
<1> QED
  BY <1>2, <1>4, TotalNat, SessionAssumption

LEMMA EquityIs ==
    ASSUME NEW p \in Portfolio
    PROVE  Equity(p) = p.cash + Total(Values(p), Symbols) /\ Equity(p) \in Int
<1>1. MarketValue(p) = Total(Values(p), Symbols)
  <2>1. Values(p) \in [Symbols -> Int]
    BY SumTypes
  <2> QED
    BY <2>1, MarketValueIsTotal, SessionAssumption
<1>2. p.cash \in Int
  BY DEF Portfolio
<1> QED
  BY <1>1, <1>2, SumTypes DEF Equity

LEMMA ImbalanceIs ==
    ASSUME NEW p \in Portfolio, NEW c \in Nat
    PROVE  /\ Imbalance(p, c) = p.cash - (c + p.realized - p.fees - Total(Costs(p), Symbols))
           /\ Imbalance(p, c) \in Int
<1>1. MapThenSumSet(LAMBDA s : p.pos[s].cost, Symbols) = Total(Costs(p), Symbols)
  <2>1. Costs(p) \in [Symbols -> Int]
    BY SumTypes
  <2> QED
    BY <2>1, CostIsTotal, SessionAssumption
<1>2. Imbalance(p, c) = p.cash - (c + p.realized - p.fees - Total(Costs(p), Symbols))
  BY <1>1 DEF Imbalance
<1>3. p.cash \in Int /\ p.realized \in Int /\ p.fees \in Int
  BY DEF Portfolio
<1> QED
  BY <1>2, <1>3, SumTypes

\* Equity and drift look at cash, positions, profit, fees and averages alone.
SameBooks(q, p) ==
    /\ q.cash = p.cash /\ q.pos = p.pos
    /\ q.realized = p.realized /\ q.fees = p.fees /\ q.averaged = p.averaged

LEMMA SameBooksSame ==
    ASSUME NEW p \in Portfolio, NEW q \in Portfolio, NEW c \in Nat, SameBooks(q, p)
    PROVE  /\ Equity(q) = Equity(p)
           /\ DriftOk(p, c) => DriftOk(q, c)
           /\ Settled(p) => Settled(q)
<1>1. Values(q) = Values(p) /\ Costs(q) = Costs(p) /\ Roundings(q) = Roundings(p)
  BY DEF SameBooks, Values, Costs, Roundings
<1>2. Equity(q) = Equity(p) /\ Imbalance(q, c) = Imbalance(p, c)
  BY <1>1, EquityIs, ImbalanceIs DEF SameBooks
<1> QED
  BY <1>1, <1>2 DEF SameBooks, DriftOk, Settled

\* Revaluing changes the peak and the drawdown, and leaves both as they should be.
LEMMA RevaluedBooks ==
    ASSUME NEW p \in Portfolio, NEW c \in Nat
    PROVE  /\ Revalued(p) \in Portfolio
           /\ SameBooks(Revalued(p), p)
           /\ Remembers(Revalued(p), p)
           /\ Settled(p) /\ DriftOk(p, c) => BooksOk(Revalued(p), c)
<1>a. PICK eq : eq = Equity(p)
  OBVIOUS
<1>b. PICK peak : peak = IF eq > p.hwm THEN eq ELSE p.hwm
  OBVIOUS
<1>c. PICK new : new = Record(peak, eq, p.maxDd)
  OBVIOUS
<1>d. PICK q : q = Revalued(p)
  OBVIOUS
<1>1. q = [p EXCEPT !.hwm = peak, !.maxDd = new]
  BY <1>a, <1>b, <1>c, <1>d DEF Revalued, Record
<1>2. p.hwm \in Nat \ {0} /\ p.maxDd \in Nat /\ eq \in Int
  BY <1>a, EquityIs DEF Portfolio
<1>3. peak \in Nat \ {0} /\ eq <= peak /\ p.hwm <= peak
  BY <1>b, <1>2
<1>4. new \in Nat /\ new >= p.maxDd /\ 20000 * (peak - eq) <= (2 * new + 1) * peak
  <2>1. peak \in Nat \ {0} /\ eq \in Int /\ eq <= peak /\ p.maxDd \in Nat
    BY <1>2, <1>3
  <2>2. Covers(new, peak, eq, p.maxDd)
    BY <1>c, <2>1, DrawdownRecorded
  <2> QED
    BY <2>2 DEF Covers
<1>5. q \in Portfolio /\ q.hwm = peak /\ q.maxDd = new /\ SameBooks(q, p)
  <2>1. q = [cash |-> p.cash, pos |-> p.pos, realized |-> p.realized, fees |-> p.fees,
             trades |-> p.trades, hwm |-> peak, dayStart |-> p.dayStart, maxDd |-> new,
             averaged |-> p.averaged]
    BY <1>1 DEF Portfolio
  <2> QED
    BY <1>3, <1>4, <2>1 DEF Portfolio, SameBooks
<1>6. Remembers(q, p)
  BY <1>2, <1>3, <1>4, <1>5 DEF Remembers
<1>7. DrawdownOk(q)
  <2>1. Equity(q) = eq
    BY <1>a, <1>5, SameBooksSame
  <2> QED
    BY <1>4, <1>5, <2>1 DEF DrawdownOk
<1>8. Settled(p) /\ DriftOk(p, c) => BooksOk(q, c)
  BY <1>5, <1>7, SameBooksSame DEF BooksOk
<1> QED
  BY <1>d, <1>5, <1>6, <1>8

-----------------------------------------------------------------------------
\* A portfolio as it was opened.
LEMMA InitializedBooks ==
    ASSUME NEW c \in Nat \ {0}
    PROVE  Initialize(c) \in Portfolio /\ BooksOk(Initialize(c), c)
<1>a. PICK p : p = Initialize(c)
  OBVIOUS
<1>1. p \in Portfolio
  BY <1>a DEF Initialize, Portfolio, Position, NoPosition
<1>2. /\ p.cash = c /\ p.pos = [s \in Symbols |-> NoPosition] /\ p.realized = 0 /\ p.fees = 0
      /\ p.averaged = 0 /\ p.hwm = c /\ p.maxDd = 0
  BY <1>a DEF Initialize
<1>3. /\ Values(p) = [s \in Symbols |-> 0] /\ Costs(p) = [s \in Symbols |-> 0]
      /\ Roundings(p) = [s \in Symbols |-> 0]
  BY <1>2 DEF Values, Costs, Roundings, NoPosition, Abs
<1>4. /\ Total(Values(p), Symbols) = 0 /\ Total(Costs(p), Symbols) = 0
      /\ Total(Roundings(p), Symbols) = 0
  BY <1>3, TotalZero, SessionAssumption
<1>5. Equity(p) = c /\ Imbalance(p, c) = 0
  BY <1>1, <1>2, <1>4, EquityIs, ImbalanceIs
<1>6. Settled(p)
  BY <1>2 DEF Settled
<1>7. DriftOk(p, c)
  BY <1>2, <1>4, <1>5 DEF DriftOk, Abs
<1>8. DrawdownOk(p)
  BY <1>2, <1>5 DEF DrawdownOk
<1> QED
  BY <1>a, <1>1, <1>6, <1>7, <1>8 DEF BooksOk

\* A new day changes what the day is measured from, and nothing else.
LEMMA NewDayBooks ==
    ASSUME NEW p \in Portfolio, NEW c \in Nat, NEW open \in Int
    PROVE  /\ NewDay(p, open) \in Portfolio
           /\ Remembers(NewDay(p, open), p)
           /\ BooksOk(p, c) => BooksOk(NewDay(p, open), c)
<1>a. PICK q : q = NewDay(p, open)
  OBVIOUS
<1>1. q \in Portfolio /\ SameBooks(q, p) /\ q.hwm = p.hwm /\ q.maxDd = p.maxDd
  BY <1>a DEF NewDay, Portfolio, SameBooks
<1>2. Remembers(q, p)
  BY <1>1 DEF Remembers, Portfolio
<1>3. BooksOk(p, c) => BooksOk(q, c)
  <2>1. DrawdownOk(p) => DrawdownOk(q)
    BY <1>1, SameBooksSame DEF DrawdownOk
  <2> QED
    BY <1>1, <2>1, SameBooksSame DEF BooksOk
<1> QED
  BY <1>a, <1>1, <1>2, <1>3

\* A mark changes prices and revalues.
LEMMA MarkedBooks ==
    ASSUME NEW p \in Portfolio, NEW c \in Nat, NEW T, NEW prices \in [T -> Nat]
    PROVE  /\ Marked(p, prices) \in Portfolio
           /\ Remembers(Marked(p, prices), p)
           /\ BooksOk(p, c) => BooksOk(Marked(p, prices), c)
<1>a. PICK z : z = [s \in Symbols |->
        IF s \in Open(p) \cap DOMAIN prices
        THEN [p.pos[s] EXCEPT !.price = prices[s]] ELSE p.pos[s]]
  OBVIOUS
<1>b. PICK m : m = [p EXCEPT !.pos = z]
  OBVIOUS
<1>0. Marked(p, prices) = Revalued(m)
  BY <1>a, <1>b DEF Marked
<1>1. /\ z \in [Symbols -> Position]
      /\ \A s \in Symbols : z[s].qty = p.pos[s].qty /\ z[s].avg = p.pos[s].avg
                            /\ z[s].cost = p.pos[s].cost
      /\ \A s \in Symbols : p.pos[s].qty = 0 => z[s] = p.pos[s]
  <2> SUFFICES ASSUME NEW s \in Symbols
               PROVE  /\ z[s] \in Position
                      /\ z[s].qty = p.pos[s].qty /\ z[s].avg = p.pos[s].avg
                      /\ z[s].cost = p.pos[s].cost
                      /\ p.pos[s].qty = 0 => z[s] = p.pos[s]
    BY <1>a
  <2>1. p.pos[s] \in Position
    BY DEF Portfolio
  <2>2. CASE s \in Open(p) \cap DOMAIN prices
    <3>1. z[s] = [p.pos[s] EXCEPT !.price = prices[s]] /\ prices[s] \in Nat
      BY <1>a, <2>2
    <3>2. p.pos[s].qty > 0
      BY <2>2 DEF Open
    <3> QED
      BY <2>1, <3>1, <3>2 DEF Position
  <2>3. CASE s \notin Open(p) \cap DOMAIN prices
    BY <1>a, <2>1, <2>3
  <2> QED
    BY <2>2, <2>3
<1>2. /\ m \in Portfolio /\ m.pos = z /\ m.cash = p.cash /\ m.realized = p.realized
      /\ m.fees = p.fees /\ m.averaged = p.averaged /\ m.hwm = p.hwm /\ m.maxDd = p.maxDd
  BY <1>b, <1>1 DEF Portfolio
<1>3. Settled(p) => Settled(m)
  BY <1>1, <1>2 DEF Settled
<1>4. Costs(m) = Costs(p) /\ Roundings(m) = Roundings(p)
  BY <1>1, <1>2 DEF Costs, Roundings
<1>5. DriftOk(p, c) => DriftOk(m, c)
  <2>1. Imbalance(m, c) = Imbalance(p, c)
    BY <1>2, <1>4, ImbalanceIs
  <2> QED
    BY <1>2, <1>4, <2>1 DEF DriftOk
<1>6. /\ Revalued(m) \in Portfolio /\ Remembers(Revalued(m), m)
      /\ Settled(m) /\ DriftOk(m, c) => BooksOk(Revalued(m), c)
  BY <1>2, RevaluedBooks
<1> QED
  BY <1>0, <1>2, <1>3, <1>5, <1>6 DEF BooksOk, Remembers

\* The position after a buy: what it costs is added up exactly, and its average is off
\* by no more than half a tick for each share, if it was averaged.
LEMMA BoughtPositionIs ==
    ASSUME NEW old \in Position, old.qty = 0 => old = NoPosition,
           NEW q \in Nat \ {0}, NEW price \in Nat, NEW ref \in Nat,
           NEW z \in BoughtPosition(old, q, price, ref)
    PROVE  /\ z \in Position /\ z.qty = old.qty + q /\ z.cost = old.cost + q * price
           /\ 2 * Abs(z.qty * z.avg - z.cost) <= IF old.qty > 0 THEN old.qty + q ELSE 0
<1>0. old.qty \in Nat /\ old.cost \in Nat /\ q * price \in Nat
  BY DEF Position
<1>1. CASE old.qty = 0
  <2>1. z = [qty |-> q, avg |-> price, cost |-> q * price, price |-> ref]
    BY <1>1 DEF BoughtPosition
  <2>2. old.cost = 0
    BY <1>1 DEF NoPosition
  <2>3. z \in Position /\ z.qty = q /\ z.cost = q * price /\ z.avg = price
    BY <1>0, <2>1 DEF Position
  <2>4. z.qty * z.avg - z.cost = 0
    BY <1>0, <2>3
  <2> QED
    BY <1>0, <1>1, <2>2, <2>3, <2>4 DEF Abs
<1>2. CASE old.qty # 0
  <2>a. PICK n : n = old.cost + q * price
    OBVIOUS
  <2>b. PICK d : d = old.qty + q
    OBVIOUS
  <2>1. PICK a \in Rounded(n, d) :
           z = [old EXCEPT !.qty = @ + q, !.cost = @ + q * price, !.avg = a]
    BY <1>2, <2>a, <2>b DEF BoughtPosition
  <2>2. n \in Nat /\ d \in Nat \ {0}
    BY <1>0, <2>a, <2>b
  <2>3. n \div d \in Nat
    BY <2>2, Division
  <2>4. a \in Nat /\ 2 * Abs(a * d - n) <= d
    BY <2>1, <2>3 DEF Rounded
  <2>5. z = [qty |-> d, avg |-> a, cost |-> n, price |-> old.price] /\ old.price \in Nat
    BY <2>a, <2>b, <2>1 DEF Position
  <2>6. z \in Position /\ z.qty = d /\ z.cost = n /\ z.avg = a
    BY <2>2, <2>4, <2>5 DEF Position
  <2>7. z.qty * z.avg - z.cost = a * d - n
    BY <2>2, <2>4, <2>6
  <2> QED
    BY <1>0, <1>2, <2>a, <2>b, <2>4, <2>6, <2>7
<1> QED
  BY <1>1, <1>2

\* The position after a sale costs what its average price says.
LEMMA SoldPositionIs ==
    ASSUME NEW old \in Position, NEW q \in Nat \ {0}, q <= old.qty
    PROVE  /\ SoldPosition(old, q) \in Position
           /\ SoldPosition(old, q).qty = old.qty - q
           /\ SoldPosition(old, q).cost = old.qty * old.avg - q * old.avg
           /\ 2 * Abs(SoldPosition(old, q).qty * SoldPosition(old, q).avg
                      - SoldPosition(old, q).cost) = 0
           /\ old.qty = q => SoldPosition(old, q) = NoPosition
<1>a. PICK z : z = SoldPosition(old, q)
  OBVIOUS
<1>0. old.qty \in Nat /\ old.avg \in Nat /\ old.price \in Nat
  BY DEF Position
<1>1. CASE q = old.qty
  <2>1. z = NoPosition
    BY <1>a, <1>1 DEF SoldPosition
  <2>2. /\ z \in Position /\ z.qty = 0 /\ z.cost = 0 /\ z.qty * z.avg - z.cost = 0
    BY <2>1 DEF Position, NoPosition
  <2>3. old.qty * old.avg - q * old.avg = 0
    BY <1>0, <1>1
  <2> QED
    BY <1>a, <1>0, <1>1, <2>1, <2>2, <2>3 DEF Abs
<1>2. CASE q # old.qty
  <2>1. z = [qty |-> old.qty - q, avg |-> old.avg, cost |-> (old.qty - q) * old.avg,
             price |-> old.price]
    BY <1>a, <1>2 DEF SoldPosition, Position
  <2>2. old.qty - q \in Nat /\ (old.qty - q) * old.avg \in Nat
    BY <1>0
  <2>3. z \in Position
    BY <1>0, <2>1, <2>2 DEF Position
  <2>4. z.qty * z.avg - z.cost = 0
    BY <2>1, <2>2
  <2>5. (old.qty - q) * old.avg = old.qty * old.avg - q * old.avg
    BY <1>0
  <2> QED
    BY <1>a, <1>2, <2>1, <2>3, <2>4, <2>5 DEF Abs
<1> QED
  BY <1>1, <1>2

\* One position of a portfolio is replaced: what that does to its sums.
LEMMA PositionChanged ==
    ASSUME NEW p \in Portfolio, NEW m \in Portfolio, NEW s \in Symbols,
           NEW z \in Position, m.pos = [p.pos EXCEPT ![s] = z]
    PROVE  /\ Total(Costs(m), Symbols) = Total(Costs(p), Symbols) + z.cost - p.pos[s].cost
           /\ Total(Roundings(m), Symbols) = Total(Roundings(p), Symbols)
                + 2 * Abs(z.qty * z.avg - z.cost)
                - 2 * Abs(p.pos[s].qty * p.pos[s].avg - p.pos[s].cost)
<1>0. p.pos \in [Symbols -> Position]
  BY DEF Portfolio
<1>1. /\ Costs(m) \in [Symbols -> Int] /\ Costs(p) \in [Symbols -> Int]
      /\ Roundings(m) \in [Symbols -> Int] /\ Roundings(p) \in [Symbols -> Int]
  BY SumTypes
<1>2. Costs(m)[s] = z.cost /\ Costs(p)[s] = p.pos[s].cost
  BY <1>0 DEF Costs
<1>3. /\ Roundings(m)[s] = 2 * Abs(z.qty * z.avg - z.cost)
      /\ Roundings(p)[s] = 2 * Abs(p.pos[s].qty * p.pos[s].avg - p.pos[s].cost)
  BY <1>0 DEF Roundings
<1>4. \A t \in Symbols \ {s} : Costs(p)[t] = Costs(m)[t]
  BY <1>0 DEF Costs
<1>5. \A t \in Symbols \ {s} : Roundings(p)[t] = Roundings(m)[t]
  BY <1>0 DEF Roundings
<1>6. Total(Costs(m), Symbols) = Total(Costs(p), Symbols) + Costs(m)[s] - Costs(p)[s]
  BY <1>1, <1>4, TotalChanged, SessionAssumption
<1>7. Total(Roundings(m), Symbols)
        = Total(Roundings(p), Symbols) + Roundings(m)[s] - Roundings(p)[s]
  BY <1>1, <1>5, TotalChanged, SessionAssumption
<1> QED
  BY <1>2, <1>3, <1>6, <1>7

\* What a fill enters, and the record it leaves, field by field.
BuyEntry(p, s, z, k, f, t, a) ==
    [p EXCEPT !.cash = k, !.pos[s] = z, !.fees = f, !.trades = t, !.averaged = a]

SaleEntry(p, s, z, k, e, f, t) ==
    [p EXCEPT !.cash = k, !.pos[s] = z, !.realized = e, !.fees = f, !.trades = t]

LEMMA BuyEntered ==
    ASSUME NEW p \in Portfolio, NEW s, NEW z, NEW k, NEW f, NEW t, NEW a
    PROVE  BuyEntry(p, s, z, k, f, t, a)
           = [cash |-> k, pos |-> [p.pos EXCEPT ![s] = z], realized |-> p.realized,
              fees |-> f, trades |-> t, hwm |-> p.hwm, dayStart |-> p.dayStart,
              maxDd |-> p.maxDd, averaged |-> a]
<1> DEFINE y == [p.pos EXCEPT ![s] = z]
<1>1. PICK q : q = [p EXCEPT !.cash = k, !.pos[s] = z]
  OBVIOUS
<1>2. q = [cash |-> k, pos |-> y, realized |-> p.realized, fees |-> p.fees,
           trades |-> p.trades, hwm |-> p.hwm, dayStart |-> p.dayStart, maxDd |-> p.maxDd,
           averaged |-> p.averaged]
  BY <1>1 DEF Portfolio
<1>3. PICK r : r = [q EXCEPT !.fees = f, !.trades = t]
  OBVIOUS
<1>4. r = [cash |-> k, pos |-> y, realized |-> p.realized, fees |-> f,
           trades |-> t, hwm |-> p.hwm, dayStart |-> p.dayStart, maxDd |-> p.maxDd,
           averaged |-> p.averaged]
  BY <1>2, <1>3
<1>5. [r EXCEPT !.averaged = a]
        = [cash |-> k, pos |-> y, realized |-> p.realized, fees |-> f,
           trades |-> t, hwm |-> p.hwm, dayStart |-> p.dayStart, maxDd |-> p.maxDd,
           averaged |-> a]
  BY <1>4
<1>6. BuyEntry(p, s, z, k, f, t, a) = [r EXCEPT !.averaged = a]
  BY <1>1, <1>3 DEF BuyEntry
<1> QED
  BY <1>5, <1>6

LEMMA SaleEntered ==
    ASSUME NEW p \in Portfolio, NEW s, NEW z, NEW k, NEW e, NEW f, NEW t
    PROVE  SaleEntry(p, s, z, k, e, f, t)
           = [cash |-> k, pos |-> [p.pos EXCEPT ![s] = z], realized |-> e,
              fees |-> f, trades |-> t, hwm |-> p.hwm, dayStart |-> p.dayStart,
              maxDd |-> p.maxDd, averaged |-> p.averaged]
<1> DEFINE y == [p.pos EXCEPT ![s] = z]
<1>1. PICK q : q = [p EXCEPT !.cash = k, !.pos[s] = z]
  OBVIOUS
<1>2. q = [cash |-> k, pos |-> y, realized |-> p.realized, fees |-> p.fees,
           trades |-> p.trades, hwm |-> p.hwm, dayStart |-> p.dayStart, maxDd |-> p.maxDd,
           averaged |-> p.averaged]
  BY <1>1 DEF Portfolio
<1>3. PICK r : r = [q EXCEPT !.realized = e, !.fees = f]
  OBVIOUS
<1>4. r = [cash |-> k, pos |-> y, realized |-> e, fees |-> f,
           trades |-> p.trades, hwm |-> p.hwm, dayStart |-> p.dayStart, maxDd |-> p.maxDd,
           averaged |-> p.averaged]
  BY <1>2, <1>3
<1>5. [r EXCEPT !.trades = t]
        = [cash |-> k, pos |-> y, realized |-> e, fees |-> f,
           trades |-> t, hwm |-> p.hwm, dayStart |-> p.dayStart, maxDd |-> p.maxDd,
           averaged |-> p.averaged]
  BY <1>4
<1>6. SaleEntry(p, s, z, k, e, f, t) = [r EXCEPT !.trades = t]
  BY <1>1, <1>3 DEF SaleEntry
<1> QED
  BY <1>5, <1>6

\* A buy moves money into a position; an average may round.
LEMMA BoughtBooks ==
    ASSUME NEW p \in Portfolio, NEW c \in Nat, BooksOk(p, c), NEW s \in Symbols,
           NEW q \in Nat \ {0}, NEW price \in Nat, NEW ref \in Nat, NEW fee \in Nat,
           NEW r \in Bought(p, s, q, price, ref, fee)
    PROVE  r \in Portfolio /\ Remembers(r, p) /\ BooksOk(r, c)
<1>a. PICK old : old = p.pos[s]
  OBVIOUS
<1>b. PICK more : more = IF old.qty > 0 THEN old.qty + q ELSE 0
  OBVIOUS
<1>0. old \in Position /\ old.qty \in Nat /\ old.cost \in Nat /\ (old.qty = 0 => old = NoPosition)
  BY <1>a DEF Portfolio, Position, BooksOk, Settled
<1>1. PICK z \in BoughtPosition(old, q, price, ref) :
         r = Revalued([p EXCEPT !.cash = @ - Outflow(q, price, fee),
                                !.pos[s] = z,
                                !.fees = @ + fee,
                                !.trades = @ + 1,
                                !.averaged = @ + more])
  BY <1>a, <1>b DEF Bought
<1>2. /\ z \in Position /\ z.qty = old.qty + q /\ z.cost = old.cost + q * price
      /\ 2 * Abs(z.qty * z.avg - z.cost) <= more
  BY <1>b, <1>0, BoughtPositionIs
<1>3. more \in Nat /\ q * price \in Nat /\ z.qty * z.avg - z.cost \in Int
  BY <1>b, <1>0, <1>2 DEF Position
<1>c. PICK m : m = [cash |-> p.cash - (q * price + fee), pos |-> [p.pos EXCEPT ![s] = z],
                    realized |-> p.realized, fees |-> p.fees + fee, trades |-> p.trades + 1,
                    hwm |-> p.hwm, dayStart |-> p.dayStart, maxDd |-> p.maxDd,
                    averaged |-> p.averaged + more]
  OBVIOUS
<1>4. r = Revalued(m)
  <2>1. PICK k : k = p.cash - (q * price + fee)
    OBVIOUS
  <2>2. PICK f : f = p.fees + fee
    OBVIOUS
  <2>3. PICK t : t = p.trades + 1
    OBVIOUS
  <2>4. PICK a : a = p.averaged + more
    OBVIOUS
  <2>5. r = Revalued(BuyEntry(p, s, z, k, f, t, a))
    BY <1>1, <2>1, <2>2, <2>3, <2>4, Zenon DEF Outflow, BuyEntry
  <2>6. m = [cash |-> k, pos |-> [p.pos EXCEPT ![s] = z], realized |-> p.realized,
              fees |-> f, trades |-> t, hwm |-> p.hwm, dayStart |-> p.dayStart,
              maxDd |-> p.maxDd, averaged |-> a]
    BY <1>c, <2>1, <2>2, <2>3, <2>4, Zenon
  <2>7. BuyEntry(p, s, z, k, f, t, a) = m
    BY <2>6, BuyEntered
  <2> QED
    BY <2>5, <2>7, Zenon
<1>5. /\ m \in Portfolio /\ m.cash = p.cash - (q * price + fee) /\ m.realized = p.realized
      /\ m.fees = p.fees + fee /\ m.averaged = p.averaged + more
      /\ m.pos = [p.pos EXCEPT ![s] = z] /\ m.hwm = p.hwm /\ m.maxDd = p.maxDd
  BY <1>c, <1>2, <1>3 DEF Portfolio
<1>6. Settled(m)
  BY <1>0, <1>2, <1>5 DEF Settled, BooksOk, Portfolio
<1>7. /\ Total(Costs(m), Symbols) = Total(Costs(p), Symbols) + q * price
      /\ Total(Roundings(m), Symbols) <= Total(Roundings(p), Symbols) + more
  <2>1. /\ Total(Costs(m), Symbols) = Total(Costs(p), Symbols) + z.cost - old.cost
        /\ Total(Roundings(m), Symbols) = Total(Roundings(p), Symbols)
             + 2 * Abs(z.qty * z.avg - z.cost) - 2 * Abs(old.qty * old.avg - old.cost)
    BY <1>a, <1>2, <1>5, PositionChanged
  <2>2. Abs(old.qty * old.avg - old.cost) \in Nat /\ Abs(z.qty * z.avg - z.cost) \in Nat
    <3>1. old.qty * old.avg - old.cost \in Int
      BY <1>0 DEF Position
    <3> QED
      BY <1>3, <3>1, AbsNat
  <2>3. Total(Costs(p), Symbols) \in Nat /\ Total(Roundings(p), Symbols) \in Nat
    BY SumTypes
  <2> QED
    BY <1>0, <1>2, <1>3, <2>1, <2>2, <2>3
<1>8. Imbalance(m, c) = Imbalance(p, c) /\ Imbalance(p, c) \in Int
  <2>1. /\ Imbalance(p, c) = p.cash - (c + p.realized - p.fees - Total(Costs(p), Symbols))
        /\ Imbalance(m, c) = m.cash - (c + m.realized - m.fees - Total(Costs(m), Symbols))
        /\ Imbalance(p, c) \in Int
    BY <1>5, ImbalanceIs
  <2>2. p.cash \in Int /\ p.realized \in Int /\ p.fees \in Int /\ Total(Costs(p), Symbols) \in Int
    BY SumTypes DEF Portfolio
  <2> QED
    BY <1>3, <1>5, <1>7, <2>1, <2>2
<1>9. DriftOk(m, c)
  <2>1. 2 * Abs(Imbalance(p, c)) + Total(Roundings(p), Symbols) <= p.averaged
    BY DEF BooksOk, DriftOk
  <2>2. /\ Abs(Imbalance(p, c)) \in Nat /\ Total(Roundings(p), Symbols) \in Nat
        /\ Total(Roundings(m), Symbols) \in Nat /\ p.averaged \in Nat
    BY <1>5, <1>8, AbsNat, SumTypes DEF Portfolio
  <2>3. 2 * Abs(Imbalance(p, c)) + Total(Roundings(m), Symbols) <= m.averaged
    BY <1>3, <1>5, <1>7, <2>1, <2>2
  <2> QED
    BY <1>8, <2>3 DEF DriftOk
<1>10. Revalued(m) \in Portfolio /\ Remembers(Revalued(m), m) /\ BooksOk(Revalued(m), c)
  BY <1>5, <1>6, <1>9, RevaluedBooks
<1> QED
  BY <1>4, <1>5, <1>10 DEF Remembers

\* A sale realizes what its average says, and so moves into the books what rounding that
\* average had put off.
LEMMA SoldBooks ==
    ASSUME NEW p \in Portfolio, NEW c \in Nat, BooksOk(p, c), NEW s \in Symbols,
           NEW q \in Nat \ {0}, q <= p.pos[s].qty, NEW price \in Nat, NEW fee \in Nat
    PROVE  /\ Sold(p, s, q, price, fee) \in Portfolio
           /\ Remembers(Sold(p, s, q, price, fee), p)
           /\ BooksOk(Sold(p, s, q, price, fee), c)
<1>a. PICK old : old = p.pos[s]
  OBVIOUS
<1>b. PICK z : z = SoldPosition(old, q)
  OBVIOUS
<1>c. PICK e : e = old.qty * old.avg - old.cost
  OBVIOUS
<1>0. old \in Position /\ old.qty \in Nat /\ old.cost \in Nat /\ old.avg \in Nat /\ e \in Int
  BY <1>a, <1>c DEF Portfolio, Position
<1>1. /\ z \in Position /\ z.qty = old.qty - q
      /\ z.cost = old.qty * old.avg - q * old.avg
      /\ 2 * Abs(z.qty * z.avg - z.cost) = 0
      /\ old.qty = q => z = NoPosition
  BY <1>a, <1>b, <1>0, SoldPositionIs
<1>2. q * price \in Nat /\ q * old.avg \in Nat /\ old.qty * old.avg \in Nat
  BY <1>0
<1>d. PICK m : m = [cash |-> p.cash + q * price - fee, pos |-> [p.pos EXCEPT ![s] = z],
                    realized |-> p.realized + q * price - q * old.avg,
                    fees |-> p.fees + fee, trades |-> p.trades + 1,
                    hwm |-> p.hwm, dayStart |-> p.dayStart, maxDd |-> p.maxDd,
                    averaged |-> p.averaged]
  OBVIOUS
<1>3. Sold(p, s, q, price, fee) = Revalued(m)
  <2>1. PICK k : k = p.cash + q * price - fee
    OBVIOUS
  <2>2. PICK g : g = p.realized + q * price - q * old.avg
    OBVIOUS
  <2>3. PICK f : f = p.fees + fee
    OBVIOUS
  <2>4. PICK t : t = p.trades + 1
    OBVIOUS
  <2>5. Sold(p, s, q, price, fee) = Revalued(SaleEntry(p, s, z, k, g, f, t))
    BY <1>a, <1>b, <2>1, <2>2, <2>3, <2>4, Zenon DEF Sold, SaleEntry
  <2>6. m = [cash |-> k, pos |-> [p.pos EXCEPT ![s] = z], realized |-> g,
              fees |-> f, trades |-> t, hwm |-> p.hwm, dayStart |-> p.dayStart,
              maxDd |-> p.maxDd, averaged |-> p.averaged]
    BY <1>d, <2>1, <2>2, <2>3, <2>4, Zenon
  <2>7. SaleEntry(p, s, z, k, g, f, t) = m
    BY <2>6, SaleEntered
  <2> QED
    BY <2>5, <2>7, Zenon
<1>4. /\ m \in Portfolio /\ m.cash = p.cash + q * price - fee
      /\ m.realized = p.realized + q * price - q * old.avg
      /\ m.fees = p.fees + fee /\ m.averaged = p.averaged
      /\ m.pos = [p.pos EXCEPT ![s] = z] /\ m.hwm = p.hwm /\ m.maxDd = p.maxDd
  BY <1>d, <1>1, <1>2 DEF Portfolio
<1>5. Settled(m)
  <2> SUFFICES ASSUME NEW t \in Symbols, m.pos[t].qty = 0 PROVE m.pos[t] = NoPosition
    BY DEF Settled
  <2>1. CASE t = s
    <3>1. m.pos[t] = z
      BY <1>4, <2>1 DEF Portfolio
    <3>2. z.qty = 0
      BY <3>1
    <3>3. z.qty = old.qty - q /\ (old.qty = q => z = NoPosition)
      BY <1>1, Zenon
    <3>4. old.qty = q
      BY <1>0, <3>2, <3>3
    <3> QED
      BY <3>1, <3>3, <3>4, Zenon
  <2>2. CASE t # s
    BY <1>4, <2>2 DEF Portfolio, BooksOk, Settled
  <2> QED
    BY <2>1, <2>2
<1>6. /\ Total(Costs(m), Symbols) = Total(Costs(p), Symbols) + e - q * old.avg
      /\ Total(Roundings(m), Symbols) = Total(Roundings(p), Symbols) - 2 * Abs(e)
  <2>1. /\ Total(Costs(m), Symbols) = Total(Costs(p), Symbols) + z.cost - old.cost
        /\ Total(Roundings(m), Symbols) = Total(Roundings(p), Symbols)
             + 2 * Abs(z.qty * z.avg - z.cost) - 2 * Abs(old.qty * old.avg - old.cost)
    BY <1>a, <1>1, <1>4, PositionChanged
  <2>2. Total(Costs(p), Symbols) \in Nat /\ Total(Roundings(p), Symbols) \in Nat
    BY SumTypes
  <2>3. Abs(e) \in Nat
    BY <1>0, AbsNat
  <2> QED
    BY <1>c, <1>0, <1>1, <1>2, <2>1, <2>2, <2>3
<1>7. Imbalance(m, c) = Imbalance(p, c) + e /\ Imbalance(p, c) \in Int
  <2>1. /\ Imbalance(p, c) = p.cash - (c + p.realized - p.fees - Total(Costs(p), Symbols))
        /\ Imbalance(m, c) = m.cash - (c + m.realized - m.fees - Total(Costs(m), Symbols))
        /\ Imbalance(p, c) \in Int
    BY <1>4, ImbalanceIs
  <2>2. p.cash \in Int /\ p.realized \in Int /\ p.fees \in Int /\ Total(Costs(p), Symbols) \in Int
    BY SumTypes DEF Portfolio
  <2> QED
    BY <1>0, <1>2, <1>4, <1>6, <2>1, <2>2
<1>8. DriftOk(m, c)
  <2>1. 2 * Abs(Imbalance(p, c)) + Total(Roundings(p), Symbols) <= p.averaged
    BY DEF BooksOk, DriftOk
  <2>2. /\ Abs(Imbalance(p, c)) \in Nat /\ Total(Roundings(p), Symbols) \in Nat
        /\ p.averaged \in Nat /\ Abs(e) \in Nat
    BY <1>0, <1>7, AbsNat, SumTypes DEF Portfolio
  <2>3. Abs(Imbalance(m, c)) <= Abs(Imbalance(p, c)) + Abs(e) /\ Abs(Imbalance(m, c)) \in Nat
    BY <1>0, <1>7 DEF Abs
  <2>4. 2 * Abs(Imbalance(m, c)) + Total(Roundings(m), Symbols) <= m.averaged
    BY <1>4, <1>6, <2>1, <2>2, <2>3
  <2> QED
    BY <2>4 DEF DriftOk
<1>9. Revalued(m) \in Portfolio /\ Remembers(Revalued(m), m) /\ BooksOk(Revalued(m), c)
  BY <1>4, <1>5, <1>8, RevaluedBooks
<1> QED
  BY <1>3, <1>4, <1>9 DEF Remembers

-----------------------------------------------------------------------------
(***************************************************************************)
(* The invariant is inductive.                                              *)
(***************************************************************************)

LEMMA SessionInvInit == Init => SessionInv
<1> SUFFICES ASSUME Init PROVE SessionInv
  OBVIOUS
<1>1. \A n \in Sessions : Initialize(Capital[n]) \in Portfolio
                          /\ BooksOk(Initialize(Capital[n]), Capital[n])
  BY InitializedBooks, SessionAssumption
<1>2. TypeInv
  BY <1>1 DEF Init, TypeInv, Statuses
<1>3. CallInv /\ DurableInv /\ PeakInv
  BY DEF Init, CallInv, DurableInv, PeakInv, Free
<1>4. BooksInv
  BY <1>1 DEF Init, BooksInv
<1> QED
  BY <1>2, <1>3, <1>4 DEF SessionInv

\* The step of a call about n: its status and its books may change, and it has yet to be
\* committed.
CallStep(n, s, p) ==
    /\ status' = [status EXCEPT ![n] = s] /\ pf' = [pf EXCEPT ![n] = p]
    /\ row' = row /\ dirty' = dirty
    /\ holder' = {n} /\ lock' \in {"fill", "persist"} /\ order' \subseteq Order

LEMMA CallStepInv ==
    ASSUME SessionInv, NEW n \in Sessions, holder \subseteq {n},
           NEW s \in Statuses \ {"NONE"}, NEW p \in Portfolio,
           BooksOk(p, Capital[n]), \A r \in row[n] : Remembers(p, r.pf),
           CallStep(n, s, p)
    PROVE  SessionInv'
<1>0. TypeInv /\ CallInv /\ DurableInv /\ PeakInv /\ BooksInv
  BY DEF SessionInv
<1>1. /\ status'[n] = s /\ pf'[n] = p /\ row' = row /\ dirty' = dirty /\ holder' = {n}
      /\ \A m \in Sessions \ {n} : status'[m] = status[m] /\ pf'[m] = pf[m]
  BY <1>0 DEF TypeInv, CallStep
<1>2. TypeInv'
  BY <1>0 DEF TypeInv, CallStep
<1>3. CallInv'
  BY <1>1 DEF CallInv, Free, CallStep
<1>4. DurableInv'
  <2>1. \A m \in Sessions : \A r, q \in row'[m] : r = q
    BY <1>0, <1>1 DEF DurableInv
  <2>2. \A m \in Sessions : status'[m] = "NONE" => row'[m] = {}
    BY <1>0, <1>1 DEF DurableInv
  <2>3. ASSUME NEW m \in Sessions \ (dirty' \cup holder'), status'[m] # "NONE"
        PROVE  row'[m] = {[status |-> status'[m], pf |-> pf'[m]]}
    <3>1. m \in Sessions \ (dirty \cup holder) /\ status'[m] = status[m] /\ pf'[m] = pf[m]
      BY <1>1, <2>3
    <3> QED
      BY <1>0, <1>1, <2>3, <3>1 DEF DurableInv
  <2> QED
    BY <2>1, <2>2, <2>3 DEF DurableInv
<1>5. PeakInv'
  BY <1>0, <1>1 DEF PeakInv
<1>6. BooksInv'
  BY <1>0, <1>1 DEF BooksInv
<1> QED
  BY <1>2, <1>3, <1>4, <1>5, <1>6 DEF SessionInv

\* What is remembered of what remembers a row remembers the row.
LEMMA StillRemembers ==
    ASSUME SessionInv, NEW n \in Sessions, NEW p \in Portfolio, Remembers(p, pf[n])
    PROVE  \A r \in row[n] : Remembers(p, r.pf)
<1> SUFFICES ASSUME NEW r \in row[n] PROVE Remembers(p, r.pf)
  OBVIOUS
<1>1. /\ pf[n].hwm \in Nat /\ pf[n].maxDd \in Nat /\ p.hwm \in Nat /\ p.maxDd \in Nat
      /\ r.pf.hwm \in Nat /\ r.pf.maxDd \in Nat
  BY DEF SessionInv, TypeInv, Portfolio, SavedRow
<1>2. Remembers(pf[n], r.pf)
  BY DEF SessionInv, PeakInv
<1> QED
  BY <1>1, <1>2 DEF Remembers

\* A call that leaves the books alone.
LEMMA BooksAlone ==
    ASSUME SessionInv, NEW n \in Sessions
    PROVE  /\ pf[n] \in Portfolio /\ BooksOk(pf[n], Capital[n])
           /\ \A r \in row[n] : Remembers(pf[n], r.pf)
           /\ status = [status EXCEPT ![n] = status[n]] /\ pf = [pf EXCEPT ![n] = pf[n]]
           /\ status[n] \in Statuses /\ Capital[n] \in Nat \ {0}
BY SessionAssumption DEF SessionInv, TypeInv, BooksInv, PeakInv

LEMMA CreateSessionStep ==
    ASSUME SessionInv, NEW n \in Sessions, CreateSession(n) PROVE SessionInv'
<1>1. holder = {} /\ row[n] = {}
  BY DEF CreateSession, SessionInv, CallInv, DurableInv
<1>2. Initialize(Capital[n]) \in Portfolio /\ BooksOk(Initialize(Capital[n]), Capital[n])
  BY InitializedBooks, SessionAssumption
<1>3. CallStep(n, "CREATED", Initialize(Capital[n]))
  BY DEF CreateSession, ThenPersist, CallStep
<1> QED
  BY <1>1, <1>2, <1>3, CallStepInv DEF Statuses

LEMMA SetStatusStep ==
    ASSUME SessionInv, NEW n \in Sessions, NEW s \in {"RUNNING", "PAUSED", "STOPPED"},
           SetStatus(n, s)
    PROVE  SessionInv'
<1>1. holder = {}
  BY DEF SetStatus, SessionInv, CallInv
<1>2. CallStep(n, s, pf[n])
  BY BooksAlone DEF SetStatus, ThenPersist, CallStep
<1> QED
  BY <1>1, <1>2, BooksAlone, CallStepInv DEF Statuses

LEMMA ResetDailyMetricsStep ==
    ASSUME SessionInv, NEW n \in Sessions, ResetDailyMetrics(n) PROVE SessionInv'
<1>a. PICK p : p = NewDay(pf[n], Equity(pf[n]))
  OBVIOUS
<1>1. holder = {} /\ status[n] # "NONE"
  BY DEF ResetDailyMetrics, SessionInv, CallInv
<1>2. p \in Portfolio /\ Remembers(p, pf[n]) /\ BooksOk(p, Capital[n])
  BY <1>a, BooksAlone, EquityIs, NewDayBooks
<1>3. CallStep(n, status[n], p)
  BY <1>a, BooksAlone DEF ResetDailyMetrics, ThenPersist, CallStep
<1> QED
  BY <1>1, <1>2, <1>3, BooksAlone, StillRemembers, CallStepInv

LEMMA ProcessBarStep ==
    ASSUME SessionInv, NEW n \in Sessions, NEW s \in Symbols, NEW price \in Prices,
           ProcessBar(n, s, price)
    PROVE  SessionInv'
<1>a. PICK bar : bar = [t \in {s} |-> price]
  OBVIOUS
<1>b. PICK p : p = Marked(pf[n], bar)
  OBVIOUS
<1>1. holder = {} /\ status[n] # "NONE"
  BY DEF ProcessBar, SessionInv, CallInv
<1>2. bar \in [{s} -> Nat]
  BY <1>a, SessionAssumption
<1>3. p \in Portfolio /\ Remembers(p, pf[n]) /\ BooksOk(p, Capital[n])
  BY <1>b, <1>2, BooksAlone, MarkedBooks
<1>4. CallStep(n, status[n], p)
  BY <1>a, <1>b, BooksAlone DEF ProcessBar, ThenPersist, CallStep
<1> QED
  BY <1>1, <1>3, <1>4, BooksAlone, StillRemembers, CallStepInv

LEMMA RejectOrderStep ==
    ASSUME SessionInv, NEW n \in Sessions, RejectOrder(n) PROVE SessionInv'
<1>1. holder = {} /\ status[n] # "NONE"
  BY DEF RejectOrder, StatusAdmits, SessionInv, CallInv
<1>2. CallStep(n, status[n], pf[n])
  BY BooksAlone DEF RejectOrder, ThenPersist, CallStep
<1> QED
  BY <1>1, <1>2, BooksAlone, CallStepInv

LEMMA AdmitOrderStep ==
    ASSUME SessionInv, NEW n \in Sessions, NEW o \in Order, AdmitOrder(n, o)
    PROVE  SessionInv'
<1>1. holder = {} /\ status[n] # "NONE"
  BY DEF AdmitOrder, StatusAdmits, SessionInv, CallInv
<1>2. CallStep(n, status[n], pf[n])
  BY BooksAlone DEF AdmitOrder, CallStep
<1> QED
  BY <1>1, <1>2, BooksAlone, CallStepInv

LEMMA OrderTypes ==
    ASSUME NEW o \in Order
    PROVE  /\ o.symbol \in Symbols /\ o.qty \in Nat \ {0} /\ o.price \in Nat \ {0}
           /\ FillPrice(o.side, o.price) \in Nat /\ Fee \in Nat
           /\ o.side = "BUY" \/ o.side = "SELL"
<1>1. /\ o.symbol \in Symbols /\ o.qty \in Nat \ {0} /\ o.price \in Nat \ {0}
      /\ o.side = "BUY" \/ o.side = "SELL"
  BY SessionAssumption DEF Order
<1>2. Slippage \in Nat /\ MinSellPrice \in Nat /\ Fee \in Nat
  BY SessionAssumption
<1> QED
  BY <1>1, <1>2 DEF FillPrice

\* A fill, of either side.
LEMMA FilledBooks ==
    ASSUME NEW b \in Portfolio, NEW c \in Nat, BooksOk(b, c), NEW o \in Order,
           Fills(b, o), NEW p \in AfterFill(b, o)
    PROVE  p \in Portfolio /\ Remembers(p, b) /\ BooksOk(p, c)
<1>a. PICK price : price = FillPrice(o.side, o.price)
  OBVIOUS
<1>1. /\ o.symbol \in Symbols /\ o.qty \in Nat \ {0} /\ o.price \in Nat
      /\ price \in Nat /\ Fee \in Nat
  BY <1>a, OrderTypes
<1>2. CASE o.side = "BUY"
  <2>1. p \in Bought(b, o.symbol, o.qty, price, o.price, Fee)
    BY <1>a, <1>2 DEF AfterFill
  <2> QED
    BY <1>1, <2>1, BoughtBooks
<1>3. CASE o.side # "BUY"
  <2>1. p = Sold(b, o.symbol, o.qty, price, Fee)
    BY <1>a, <1>3 DEF AfterFill
  <2>2. o.qty <= b.pos[o.symbol].qty
    BY <1>3 DEF Fills, FillAccepted
  <2> QED
    BY <1>1, <2>1, <2>2, SoldBooks
<1> QED
  BY <1>2, <1>3

LEMMA FillOrderStep ==
    ASSUME SessionInv, FillOrder PROVE SessionInv'
<1>1. PICK n \in holder : \E o \in order :
         /\ \/ /\ Fills(pf[n], o)
               /\ \E p \in AfterFill(pf[n], o) : pf' = [pf EXCEPT ![n] = p]
            \/ pf' = pf
         /\ ThenPersist(n)
  BY DEF FillOrder
<1>2. PICK o \in order :
         /\ \/ /\ Fills(pf[n], o)
               /\ \E p \in AfterFill(pf[n], o) : pf' = [pf EXCEPT ![n] = p]
            \/ pf' = pf
         /\ ThenPersist(n)
  BY <1>1
<1>3. n \in Sessions /\ o \in Order /\ holder \subseteq {n} /\ status[n] # "NONE"
  BY DEF SessionInv, TypeInv, CallInv
<1>4. PICK p \in Portfolio : Remembers(p, pf[n]) /\ BooksOk(p, Capital[n])
                             /\ pf' = [pf EXCEPT ![n] = p]
  <2>1. CASE Fills(pf[n], o) /\ \E p \in AfterFill(pf[n], o) : pf' = [pf EXCEPT ![n] = p]
    BY <1>3, <2>1, BooksAlone, FilledBooks
  <2>2. CASE pf' = pf
    <3>1. Remembers(pf[n], pf[n])
      BY <1>3, BooksAlone DEF Remembers, Portfolio
    <3> QED
      BY <1>3, <2>2, <3>1, BooksAlone
  <2> QED
    BY <1>2, <2>1, <2>2
<1>5. CallStep(n, status[n], p)
  BY <1>2, <1>3, <1>4, BooksAlone DEF FillOrder, ThenPersist, CallStep
<1> QED
  BY <1>3, <1>4, <1>5, BooksAlone, StillRemembers, CallStepInv

LEMMA PersistSessionStep ==
    ASSUME SessionInv, PersistSession PROVE SessionInv'
<1>0. TypeInv /\ CallInv /\ DurableInv /\ PeakInv /\ BooksInv
  BY DEF SessionInv
<1>1. PICK n \in holder :
         \/ /\ row' = [row EXCEPT ![n] = {[status |-> status[n], pf |-> pf[n]]}]
            /\ dirty' = dirty \ {n}
         \/ dirty' = dirty \cup {n} /\ row' = row
  BY DEF PersistSession
<1>2. /\ n \in Sessions /\ holder = {n} /\ status[n] # "NONE"
      /\ lock' = "free" /\ holder' = {} /\ order' = {} /\ status' = status /\ pf' = pf
  BY <1>0 DEF TypeInv, CallInv, PersistSession, Return
<1>3. CASE row' = [row EXCEPT ![n] = {[status |-> status[n], pf |-> pf[n]]}]
           /\ dirty' = dirty \ {n}
  <2>1. [status |-> status[n], pf |-> pf[n]] \in SavedRow
    BY <1>0, <1>2 DEF TypeInv, SavedRow
  <2>2. /\ row'[n] = {[status |-> status[n], pf |-> pf[n]]}
        /\ \A m \in Sessions \ {n} : row'[m] = row[m]
    BY <1>0, <1>2, <1>3 DEF TypeInv
  <2>3. TypeInv'
    BY <1>0, <1>2, <1>3, <2>1 DEF TypeInv
  <2>4. CallInv'
    BY <1>2 DEF CallInv
  <2>5. DurableInv'
    <3>1. \A m \in Sessions : \A r, q \in row'[m] : r = q
      BY <1>0, <2>2 DEF DurableInv
    <3>2. \A m \in Sessions : status'[m] = "NONE" => row'[m] = {}
      BY <1>0, <1>2, <2>2 DEF DurableInv
    <3>3. ASSUME NEW m \in Sessions \ (dirty' \cup holder'), status'[m] # "NONE"
          PROVE  row'[m] = {[status |-> status'[m], pf |-> pf'[m]]}
      BY <1>0, <1>2, <1>3, <2>2, <3>3 DEF DurableInv
    <3> QED
      BY <3>1, <3>2, <3>3 DEF DurableInv
  <2>6. PeakInv'
    <3>1. Remembers(pf[n], pf[n])
      BY <1>2, BooksAlone DEF Remembers, Portfolio
    <3> QED
      BY <1>0, <1>2, <2>2, <3>1 DEF PeakInv
  <2>7. BooksInv'
    BY <1>0, <1>2, <2>2 DEF BooksInv
  <2> QED
    BY <2>3, <2>4, <2>5, <2>6, <2>7 DEF SessionInv
<1>4. CASE dirty' = dirty \cup {n} /\ row' = row
  <2>1. TypeInv'
    BY <1>0, <1>2, <1>4 DEF TypeInv
  <2>2. CallInv'
    BY <1>2 DEF CallInv
  <2>3. DurableInv'
    BY <1>0, <1>2, <1>4 DEF DurableInv
  <2>4. PeakInv' /\ BooksInv'
    BY <1>0, <1>2, <1>4 DEF PeakInv, BooksInv
  <2> QED
    BY <2>1, <2>2, <2>3, <2>4 DEF SessionInv
<1> QED
  BY <1>1, <1>3, <1>4

\* Every session comes back as its row has it, and one without a row as if it had never
\* been created.
LEMMA CrashStep ==
    ASSUME SessionInv, Crash PROVE SessionInv'
<1>0. TypeInv /\ DurableInv /\ BooksInv
  BY DEF SessionInv
<1>1. /\ row' = row /\ lock' = "free" /\ holder' = {} /\ order' = {} /\ dirty' = {}
  BY DEF Crash, Return
<1>2. \A n \in Sessions : row[n] = {} =>
         status'[n] = "NONE" /\ pf'[n] = Initialize(Capital[n])
  BY DEF Crash
<1>3. ASSUME NEW n \in Sessions, NEW r \in row[n]
      PROVE  row[n] = {r} /\ status'[n] = r.status /\ pf'[n] = r.pf
  <2>1. row[n] = {r}
    BY <1>0, <1>3 DEF DurableInv
  <2>2. (CHOOSE q \in row[n] : TRUE) = r
    BY <2>1
  <2> QED
    BY <1>3, <2>1, <2>2 DEF Crash
<1>4. \A n \in Sessions : Initialize(Capital[n]) \in Portfolio
                          /\ BooksOk(Initialize(Capital[n]), Capital[n])
  BY InitializedBooks, SessionAssumption
<1>5. \A n \in Sessions : \A r \in row[n] :
         r \in SavedRow /\ r.status \in Statuses \ {"NONE"} /\ r.pf \in Portfolio
         /\ BooksOk(r.pf, Capital[n]) /\ r = [status |-> r.status, pf |-> r.pf]
  BY <1>0 DEF TypeInv, BooksInv, SavedRow
<1>6. \A n \in Sessions : /\ status'[n] \in Statuses /\ pf'[n] \in Portfolio
                          /\ BooksOk(pf'[n], Capital[n])
  <2> SUFFICES ASSUME NEW n \in Sessions
               PROVE  /\ status'[n] \in Statuses /\ pf'[n] \in Portfolio
                      /\ BooksOk(pf'[n], Capital[n])
    OBVIOUS
  <2>1. CASE row[n] = {}
    BY <1>2, <1>4, <2>1 DEF Statuses
  <2>2. CASE row[n] # {}
    <3>1. PICK r : r \in row[n]
      BY <2>2
    <3> QED
      BY <1>3, <1>5, <3>1
  <2> QED
    BY <2>1, <2>2
<1>7. TypeInv'
  <2>1. status' \in [Sessions -> Statuses] /\ pf' \in [Sessions -> Portfolio]
    BY <1>6 DEF Crash
  <2> QED
    BY <1>0, <1>1, <2>1 DEF TypeInv
<1>8. CallInv'
  BY <1>1 DEF CallInv
<1>9. DurableInv'
  <2>1. \A n \in Sessions : \A r, q \in row'[n] : r = q
    BY <1>0, <1>1 DEF DurableInv
  <2>2. \A n \in Sessions : status'[n] = "NONE" => row'[n] = {}
    BY <1>1, <1>3, <1>5
  <2>3. ASSUME NEW n \in Sessions, status'[n] # "NONE"
        PROVE  row'[n] = {[status |-> status'[n], pf |-> pf'[n]]}
    <3>1. PICK r : r \in row[n]
      BY <1>2, <2>3
    <3> QED
      BY <1>1, <1>3, <1>5, <3>1
  <2> QED
    BY <2>1, <2>2, <2>3 DEF DurableInv
<1>10. PeakInv'
  <2> SUFFICES ASSUME NEW n \in Sessions, NEW r \in row[n] PROVE Remembers(pf'[n], r.pf)
    BY <1>1 DEF PeakInv
  <2>1. pf'[n] = r.pf /\ r.pf.hwm \in Nat /\ r.pf.maxDd \in Nat
    BY <1>3, <1>5 DEF Portfolio
  <2> QED
    BY <2>1 DEF Remembers
<1>11. BooksInv'
  BY <1>1, <1>5, <1>6 DEF BooksInv
<1> QED
  BY <1>7, <1>8, <1>9, <1>10, <1>11 DEF SessionInv

LEMMA SessionsAloneStep ==
    ASSUME SessionInv, UNCHANGED sessionVars PROVE SessionInv'
<1>1. /\ status' = status /\ pf' = pf /\ row' = row /\ lock' = lock /\ holder' = holder
      /\ order' = order /\ dirty' = dirty
  BY DEF sessionVars, callVars
<1> QED
  BY <1>1 DEF SessionInv, TypeInv, CallInv, Free, DurableInv, PeakInv, BooksInv

LEMMA SessionInvStep == SessionInv /\ [Next]_vars => SessionInv'
<1> SUFFICES ASSUME SessionInv, [Next]_vars PROVE SessionInv'
  OBVIOUS
<1>1. ASSUME NEW n \in Sessions, Call(n) PROVE SessionInv'
  BY <1>1, CreateSessionStep, SetStatusStep, ResetDailyMetricsStep, ProcessBarStep,
     RejectOrderStep, AdmitOrderStep DEF Call
<1>2. CASE FillOrder
  BY <1>2, FillOrderStep
<1>3. CASE PersistSession
  BY <1>3, PersistSessionStep
<1>4. CASE Halt \/ Rearm
  BY <1>4, SessionsAloneStep DEF Halt, Rearm
<1>5. CASE Crash
  BY <1>5, CrashStep
<1>6. CASE UNCHANGED vars
  BY <1>6, SessionsAloneStep DEF vars
<1> QED
  BY <1>1, <1>2, <1>3, <1>4, <1>5, <1>6 DEF Next

-----------------------------------------------------------------------------
\* Whatever is called, committed, lost or restarted, every session keeps its invariant.
THEOREM SessionsStayConsistent == Spec => []SessionInv
BY SessionInvInit, SessionInvStep, PTL DEF Spec

\* What a session shows between calls is what its row says, unless its last call raised
\* (_persist_session commits before the engine's lock is released).
THEOREM AnswersAreDurable == Spec => []AnsweredMeansDurable
<1>1. SessionInv => AnsweredMeansDurable
  BY DEF SessionInv, CallInv, DurableInv, AnsweredMeansDurable
<1> QED
  BY <1>1, SessionsStayConsistent, PTL

\* The books lose or invent no more than half a tick for each share held when an
\* average price was rounded (on_fill).
THEOREM BooksDriftByRoundingAlone == Spec => []LedgerDriftBounded
<1>1. SessionInv => LedgerDriftBounded
  <2> SUFFICES ASSUME SessionInv, NEW n \in Sessions
               PROVE  2 * Abs(Imbalance(pf[n], Capital[n])) <= pf[n].averaged
    BY DEF LedgerDriftBounded
  <2>1. pf[n] \in Portfolio /\ BooksOk(pf[n], Capital[n]) /\ Capital[n] \in Nat
    BY BooksAlone
  <2>2. /\ Imbalance(pf[n], Capital[n]) \in Int /\ Total(Roundings(pf[n]), Symbols) \in Nat
        /\ pf[n].averaged \in Nat
    BY <2>1, ImbalanceIs, SumTypes DEF Portfolio
  <2>3. Abs(Imbalance(pf[n], Capital[n])) \in Nat
    BY <2>2, AbsNat
  <2> QED
    BY <2>1, <2>2, <2>3 DEF BooksOk, DriftOk
<1> QED
  BY <1>1, SessionsStayConsistent, PTL

\* What a commit writes has the peak and the drawdown of the row it replaces, or more.
RowsRemember ==
    \A n \in Sessions : \A old \in row[n], new \in row'[n] :
        new.pf.hwm >= old.pf.hwm /\ new.pf.maxDd >= old.pf.maxDd

LEMMA CommitsRemember == SessionInv /\ [Next]_vars => RowsRemember
<1> SUFFICES ASSUME SessionInv, [Next]_vars, NEW n \in Sessions,
                    NEW old \in row[n], NEW new \in row'[n]
             PROVE  Remembers(new.pf, old.pf)
  BY DEF RowsRemember, Remembers
<1>1. CASE row'[n] = row[n]
  <2>1. new = old /\ old.pf.hwm \in Nat /\ old.pf.maxDd \in Nat
    BY <1>1 DEF SessionInv, DurableInv, TypeInv, SavedRow, Portfolio
  <2> QED
    BY <2>1 DEF Remembers
<1>2. CASE row'[n] = {[status |-> status[n], pf |-> pf[n]]}
  <2>1. new.pf = pf[n]
    BY <1>2
  <2> QED
    BY <2>1 DEF SessionInv, PeakInv
<1>3. CASE PersistSession
  <2>1. PICK m \in holder :
           \/ row' = [row EXCEPT ![m] = {[status |-> status[m], pf |-> pf[m]]}]
           \/ row' = row
    BY <1>3 DEF PersistSession
  <2>2. row \in [Sessions -> SUBSET SavedRow]
    BY DEF SessionInv, TypeInv
  <2>3. row'[n] = row[n] \/ row'[n] = {[status |-> status[n], pf |-> pf[n]]}
    BY <2>1, <2>2
  <2> QED
    BY <1>1, <1>2, <2>3
<1>4. CASE ~ PersistSession
  <2>1. row' = row
    BY <1>4 DEF Next, Call, CreateSession, SetStatus, ResetDailyMetrics, ProcessBar,
       RejectOrder, AdmitOrder, FillOrder, Halt, Rearm, Crash, vars, sessionVars
  <2> QED
    BY <1>1, <2>1
<1> QED
  BY <1>3, <1>4

\* No recovery, new day, restart or lost commit forgives a drawdown that was committed.
THEOREM DrawdownsAreNeverForgiven == Spec => DrawdownNeverForgiven
<1>1. SessionInv /\ [Next]_vars => [RowsRemember]_vars
  BY CommitsRemember
<1> QED
  BY <1>1, SessionsStayConsistent, PTL DEF Spec, DrawdownNeverForgiven, RowsRemember

\* A step that fills is a fill, and one that adds to a position has passed the risk
\* engine, which looks at the recorded drawdown.
BuysInTime ==
    \A n \in Sessions, s \in Symbols :
        Filling /\ pf'[n].pos[s].qty > pf[n].pos[s].qty =>
            20000 * (pf[n].hwm - Equity(pf[n])) < (180 * MaxDrawdownPct + 1) * pf[n].hwm

\* A sale adds to no position.
LEMMA SalesReduce ==
    ASSUME NEW b \in Portfolio, NEW o \in Order, o.side = "SELL", Fills(b, o),
           NEW p \in AfterFill(b, o), NEW s \in Symbols
    PROVE  p.pos[s].qty <= b.pos[s].qty
<1>a. PICK price : price = FillPrice(o.side, o.price)
  OBVIOUS
<1>b. PICK z : z = SoldPosition(b.pos[o.symbol], o.qty)
  OBVIOUS
<1>1. o.symbol \in Symbols /\ o.qty \in Nat \ {0} /\ o.qty <= b.pos[o.symbol].qty
  BY OrderTypes DEF Fills, FillAccepted
<1>2. \A t \in Symbols : b.pos[t] \in Position /\ b.pos[t].qty \in Nat
  BY DEF Portfolio, Position
<1>3. z.qty = b.pos[o.symbol].qty - o.qty
  BY <1>b, <1>1, <1>2, SoldPositionIs
<1>4. p.pos = [b.pos EXCEPT ![o.symbol] = z]
  <2>1. p = Sold(b, o.symbol, o.qty, price, Fee)
    BY <1>a DEF AfterFill
  <2>2. PICK k : k = b.cash + o.qty * price - Fee
    OBVIOUS
  <2>3. PICK g : g = b.realized + o.qty * price - o.qty * b.pos[o.symbol].avg
    OBVIOUS
  <2>4. PICK m : m = SaleEntry(b, o.symbol, z, k, g, b.fees + Fee, b.trades + 1)
    OBVIOUS
  <2>5. p = Revalued(m)
    BY <1>b, <2>1, <2>2, <2>3, <2>4, Zenon DEF Sold, SaleEntry
  <2>6. m.pos = [b.pos EXCEPT ![o.symbol] = z]
    BY <2>4, SaleEntered
  <2>7. DOMAIN m = DOMAIN b /\ Revalued(m).pos = m.pos
    BY <2>4, SaleEntered DEF Revalued, Portfolio
  <2> QED
    BY <2>5, <2>6, <2>7
<1>5. CASE s = o.symbol
  BY <1>1, <1>2, <1>3, <1>4, <1>5 DEF Portfolio
<1>6. CASE s # o.symbol
  BY <1>2, <1>4, <1>6 DEF Portfolio
<1> QED
  BY <1>5, <1>6

LEMMA FillsInTime == SessionInv /\ [Next]_vars => BuysInTime
<1> SUFFICES ASSUME SessionInv, [Next]_vars, NEW n \in Sessions, NEW s \in Symbols,
                    Filling, pf'[n].pos[s].qty > pf[n].pos[s].qty
             PROVE  20000 * (pf[n].hwm - Equity(pf[n])) < (180 * MaxDrawdownPct + 1) * pf[n].hwm
  BY DEF BuysInTime
<1>1. pf[n] \in Portfolio /\ BooksOk(pf[n], Capital[n])
  BY BooksAlone
<1>2. FillOrder
  BY DEF Next, Call, CreateSession, SetStatus, ResetDailyMetrics, ProcessBar, RejectOrder,
     AdmitOrder, PersistSession, Halt, Rearm, Crash, vars, sessionVars, callVars,
     Filling, Free, Return
<1>3. pf[n].pos[s].qty \in Nat /\ pf \in [Sessions -> Portfolio]
  BY <1>1 DEF Portfolio, Position, SessionInv, TypeInv
<1>4. pf' # pf
  BY <1>3
<1>5. PICK m \in holder : \E o \in order : Fills(pf[m], o)
         /\ \E p \in AfterFill(pf[m], o) : pf' = [pf EXCEPT ![m] = p]
  BY <1>2, <1>4 DEF FillOrder
<1>6. PICK o \in order : Fills(pf[m], o)
         /\ \E p \in AfterFill(pf[m], o) : pf' = [pf EXCEPT ![m] = p]
  BY <1>5
<1>7. PICK p \in AfterFill(pf[m], o) : pf' = [pf EXCEPT ![m] = p]
  BY <1>6
<1>8. m = n /\ pf'[n] = p /\ o \in Order
  BY <1>3, <1>7 DEF SessionInv, TypeInv
<1>9. o.side = "BUY"
  <2> SUFFICES ASSUME o.side = "SELL" PROVE FALSE
    BY <1>8, OrderTypes
  <2>1. p.pos[s].qty <= pf[n].pos[s].qty
    BY <1>1, <1>6, <1>7, <1>8, SalesReduce
  <2>2. p.pos[s].qty > pf[n].pos[s].qty
    BY <1>8
  <2>3. p \in Portfolio
    BY <1>1, <1>6, <1>7, <1>8, FilledBooks, BooksAlone
  <2>4. p.pos[s].qty \in Nat
    BY <2>3 DEF Portfolio, Position
  <2> QED
    BY <1>3, <2>1, <2>2, <2>4
<1>10. pf[n].maxDd < 90 * MaxDrawdownPct
  BY <1>6, <1>8, <1>9 DEF Fills, RiskApproves
<1>11. PICK hwm : hwm = pf[n].hwm
  OBVIOUS
<1>12. PICK dd : dd = pf[n].maxDd
  OBVIOUS
<1>13. PICK eq : eq = Equity(pf[n])
  OBVIOUS
<1>14. hwm \in Nat \ {0} /\ dd \in Nat /\ eq \in Int /\ MaxDrawdownPct \in Nat
  BY <1>1, <1>11, <1>12, <1>13, EquityIs, SessionAssumption DEF Portfolio
<1>15. 20000 * (hwm - eq) <= (2 * dd + 1) * hwm
  BY <1>1, <1>11, <1>12, <1>13 DEF BooksOk, DrawdownOk
<1>16. (2 * dd + 1) * hwm < (180 * MaxDrawdownPct + 1) * hwm
  <2>1. 2 * dd + 2 <= 180 * MaxDrawdownPct + 1
    BY <1>10, <1>12, <1>14
  <2>2. hwm * (2 * dd + 2) <= hwm * (180 * MaxDrawdownPct + 1)
    BY <1>14, <2>1, LargerProduct
  <2>3. hwm * (2 * dd + 2) = (2 * dd + 1) * hwm + hwm
    BY <1>14
  <2>4. hwm * (180 * MaxDrawdownPct + 1) = (180 * MaxDrawdownPct + 1) * hwm
    BY <1>14
  <2>5. (2 * dd + 1) * hwm \in Int /\ (180 * MaxDrawdownPct + 1) * hwm \in Int
    BY <1>14
  <2> QED
    BY <1>14, <2>2, <2>3, <2>4, <2>5
<1>17. 20000 * (hwm - eq) < (180 * MaxDrawdownPct + 1) * hwm
  <2>1. (2 * dd + 1) * hwm \in Int /\ (180 * MaxDrawdownPct + 1) * hwm \in Int
    BY <1>14
  <2> QED
    BY <1>14, <1>15, <1>16, <2>1
<1> QED
  BY <1>11, <1>13, <1>17

\* No session buys while its equity is nine tenths of the drawdown limit under its peak
\* (RiskEngine.evaluate on a portfolio that _update_pnl_and_hwm keeps).
THEOREM DrawdownLimitsBuying == Spec => DrawdownStopsBuying
<1>1. SessionInv /\ [Next]_vars => [BuysInTime]_vars
  BY FillsInTime
<1> QED
  BY <1>1, SessionsStayConsistent, PTL DEF Spec, DrawdownStopsBuying, BuysInTime

=============================================================================
