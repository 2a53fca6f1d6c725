------------------------ MODULE ExperimentRunsProofs ------------------------
(***************************************************************************)
(* Proofs about the life of an experiment, for any experiments, datasets,   *)
(* callers, workers and number of jobs, trades and bars: requests, jobs,    *)
(* failing writes and crashes in any order.                                 *)
(***************************************************************************)
EXTENDS ExperimentRuns, WellFoundedInduction, SequenceTheorems, FiniteSetTheorems,
        TLAPS

ResultRows == [job : Jobs, n : Nat, bars : Contents]

\* The events of a trail; the quiet ones are neither a start nor a completion.
QuietEvents ==
    {"JOB_ERROR", "SIGNAL_GENERATED", "ORDER_PROPOSED",
     "RISK_CHECK_EVALUATED", "ORDER_FILLED", "PORTFOLIO_STATE_UPDATED", "UNSUPPORTED_STRATEGY",
     "DATA_UNAVAILABLE", "DATASET_REJECTED", "TIMEFRAME_MISMATCH", "BAR_COUNT_MISMATCH",
     "DATA_DRIFT", "CHECKSUM_MISMATCH", "DATA_INTEGRITY_VIOLATION", "MISSING_SYMBOL",
     "RISK_REJECTED"}
EventTypes == {"JOB_STARTED", "JOB_COMPLETED"} \cup QuietEvents

AuditOps == [op : {"audit"}, events : Seq(EventTypes)]
TradeOps == [op : {"trade"}, row : ResultRows]
EquityOps == [op : {"equity"}, row : ResultRows]
StatusOps == [op : {"status"}, status : Statuses, metrics : Metrics \cup {None}]
ExperimentOps == [op : {"experiment"}, row : ExperimentRows, status : Statuses]
Ops == AuditOps \cup TradeOps \cup EquityOps \cup StatusOps \cup ExperimentOps

CallerSteps == {"check", "savePending", "resolve", "ensure", "saveRun", "dispatch"}
CallerStates ==
    {IdleCaller} \cup [pc : CallerSteps, exp : Experiments, row : ExperimentRows \cup {None},
                       idempotent : BOOLEAN]

WorkSteps == {"idle", "opening", "load", "marking", "registry", "bars", "closing", "rescue",
              "reload", "rescued"}
WorkStates ==
    [pc : WorkSteps, exp : Experiments \cup {None}, row : ExperimentRows \cup {None},
     record : Records \cup {None}, script : Seq(Ops)]

-----------------------------------------------------------------------------
(***************************************************************************)
(* The inductive invariant.                                                 *)
(***************************************************************************)

RegistryTypes ==
    /\ registry \in [Versions -> Records \cup {None}]
    /\ latest \in Versions \cup {None}
    /\ bars \in [Versions \cup {None} -> Contents \cup {None}]

StoreTypes ==
    /\ exps \in [Experiments -> ExperimentRows \cup {None}]
    /\ runs \in [Experiments -> RunRows \cup {None}]
    /\ audit \in [Experiments -> Seq(EventTypes)]
    /\ trades \in [Experiments -> Seq(ResultRows)]
    /\ equity \in [Experiments -> Seq(ResultRows)]

ProcessTypes ==
    /\ queue \in Seq(Nat \X Experiments)
    /\ caller \in [Callers -> CallerStates]
    /\ work \in [Jobs -> WorkStates]
    /\ jobs \in Nat

TypeInv == RegistryTypes /\ StoreTypes /\ ProcessTypes

\* What a request that has come to its step knows.
Knows(c) ==
    LET s == caller[c] IN
    /\ s.pc \in {"check", "savePending"} =>
          /\ exps[s.exp] # None /\ s.row # None
          /\ s.row.checksum = exps[s.exp].checksum
    /\ s.pc = "ensure" => s.row # None
    /\ s.pc \in {"saveRun", "dispatch"} => exps[s.exp] # None
    /\ s.pc = "dispatch" => runs[s.exp] # None

CallerInv == \A c \in Callers : Knows(c)

\* A job has a number of its own and an experiment with a run.
Waits(i) ==
    /\ queue[i][1] <= jobs
    /\ queue[i][1] \in Jobs => work[queue[i][1]].pc = "idle"
    /\ exps[queue[i][2]] # None /\ runs[queue[i][2]] # None

QueueInv ==
    /\ \A i \in 1..Len(queue) : Waits(i)
    /\ \A i, k \in 1..Len(queue) : queue[i][1] = queue[k][1] => i = k
    /\ \A j \in Jobs : j > jobs => work[j].pc = "idle"

HoldsRow(j) == work[j].pc \in {"marking", "registry", "bars", "closing", "rescued"}

\* The row that a job read and writes back has the checksum of the definition.
JobOk(j) ==
    /\ work[j].pc # "idle" =>
          LET e == work[j].exp IN e # None /\ exps[e] # None /\ runs[e] # None
    /\ work[j].pc = "idle" => work[j] = NoWork
    /\ HoldsRow(j) => /\ work[j].row # None
                      /\ work[j].row.checksum = exps[work[j].exp].checksum
    /\ work[j].pc \in {"load", "reload", "registry", "bars"} => work[j].script = <<>>
    /\ work[j].pc = "marking" => work[j].script = <<Experiment(work[j].row, "RUNNING")>>
    /\ work[j].pc = "rescued" => work[j].script = <<Experiment(work[j].row, "FAILED")>>

JobInv == \A j \in Jobs : JobOk(j)

\* Writes that touch neither the results nor the metrics of a run, and do not
\* complete it.
Harmless(w, j) ==
    \/ w.op = "audit"
    \/ w.op = "status" /\ w.status # "COMPLETED" /\ w.metrics = None
    \/ w.op = "experiment" /\ w.row = work[j].row /\ HoldsRow(j)

Plain(j) == \A i \in 1..Len(work[j].script) : Harmless(work[j].script[i], j)

\* A job that completes has written the first d of its script, t of its trades and
\* q of its equity points among them, and still has to write the status.
Written(j, c, d, t, q) ==
    /\ work[j].script
          = SubSeq(CompleteScript(j, work[j].row, c), d + 1, TradesOf[c] + CountOf[c] + 4)
    /\ t <= TradesOf[c] /\ q <= CountOf[c]
    /\ \/ d = 0 /\ t = 0 /\ q = 0
       \/ d = 1 + t + q /\ (q > 0 => t = TradesOf[c])
    /\ Recorded(trades[work[j].exp], j, c, t)
    /\ Recorded(equity[work[j].exp], j, c, q)

Completing(j) ==
    /\ work[j].pc = "closing"
    /\ \E c \in Contents :
          /\ c = work[j].row.checksum
          /\ \E t \in 0..TradesOf[c], q \in 0..CountOf[c] :
                \E d \in {0, 1 + t + q} : Written(j, c, d, t, q)

ScriptInv == \A j \in Jobs : Plain(j) \/ Completing(j)

\* A job that has not come to its results has none in the tables.
Queued(j) == \E i \in 1..Len(queue) : queue[i][1] = j
Ahead(j) ==
    \/ j > jobs \/ Queued(j)
    \/ work[j].pc \in {"opening", "load", "marking", "registry", "bars"}

HasRows(j, rows) == \E i \in 1..Len(rows) : rows[i].job = j

AheadInv ==
    \A j \in Jobs : Ahead(j) =>
        \A e \in Experiments : ~HasRows(j, trades[e]) /\ ~HasRows(j, equity[e])

\* A run with metrics has all of the results they were computed from, and its job
\* adds nothing to them; a completed one has metrics.
Backed(e, m) ==
    /\ Recorded(trades[e], m.job, m.bars, TradesOf[m.bars])
    /\ Recorded(equity[e], m.job, m.bars, CountOf[m.bars])
    /\ ~Ahead(m.job) /\ Plain(m.job)

MetricsOk(e) ==
    runs[e] # None =>
        /\ runs[e].status = "COMPLETED" => runs[e].metrics # None
        /\ runs[e].metrics # None =>
              /\ exps[e] # None /\ runs[e].metrics.bars = exps[e].checksum
              /\ Backed(e, runs[e].metrics)

MetricsInv == \A e \in Experiments : MetricsOk(e)

RunsInv ==
    TypeInv /\ CallerInv /\ QueueInv /\ JobInv /\ ScriptInv /\ AheadInv /\ MetricsInv

-----------------------------------------------------------------------------
(***************************************************************************)
(* Lemmas about the data: rows, refusals, scripts, results.                 *)
(***************************************************************************)

\* A row written back with another status is a row with the same checksum.
LEMMA RowWrittenBack ==
    ASSUME NEW row \in ExperimentRows, NEW status \in Statuses
    PROVE  /\ [row EXCEPT !.status = status] \in ExperimentRows
           /\ [row EXCEPT !.status = status].checksum = row.checksum
           /\ [row EXCEPT !.status = status] # None
<1>1. [row EXCEPT !.status = status] \in ExperimentRows
  BY DEF ExperimentRows
<1> QED
  BY <1>1, RowAssumption DEF ExperimentRows

\* No event is written exactly if no refusal applies.
LEMMA NothingToRefuse ==
    ASSUME NEW S, \A r \in S : r[2] \in Seq(QuietEvents) /\ r[2] # <<>>, NEW rs \in Seq(S)
    PROVE  /\ FirstEvents(rs) \in Seq(QuietEvents)
           /\ FirstEvents(rs) = <<>> => \A i \in 1..Len(rs) : ~rs[i][1]
<1> DEFINE applying == {i \in DOMAIN rs : rs[i][1]}
<1>1. CASE applying = {}
  <2>1. DOMAIN rs = 1..Len(rs)
    BY LenProperties
  <2>2. FirstEvents(rs) = <<>>
    BY <1>1 DEF FirstEvents
  <2>3. <<>> \in Seq(QuietEvents)
    OBVIOUS
  <2> QED
    BY <1>1, <2>1, <2>2, <2>3
<1> SUFFICES ASSUME applying # {}
             PROVE  FirstEvents(rs) \in Seq(QuietEvents) /\ FirstEvents(rs) # <<>>
  BY <1>1
<1>2. DOMAIN rs = 1..Len(rs) /\ applying \subseteq Nat
  BY LenProperties
<1>3. \E x \in applying : \A y \in applying : x <= y
  <2>1. PICK x \in applying : \A y \in applying : <<y, x>> \notin OpToRel(<, Nat)
    BY <1>2, WFMin, NatLessThanWellFounded
  <2>2. \A y \in applying : y \in Nat /\ x \in Nat => ~(y < x)
    BY <2>1, Zenon DEF OpToRel
  <2> QED
    BY <1>2, <2>2
<1>4. Min(applying) \in applying
  BY <1>3 DEF Min
<1>5. rs[Min(applying)] \in S
  BY <1>2, <1>4, ElementOfSeq
<1>6. FirstEvents(rs) = rs[Min(applying)][2]
  BY DEF FirstEvents
<1> QED
  BY <1>5, <1>6

\* What none of two lists refuses, neither of them does.
LEMMA NoneOfBoth ==
    ASSUME NEW S, NEW s \in Seq(S), NEW t \in Seq(S)
    PROVE  /\ s \o t \in Seq(S)
           /\ (\A i \in 1..Len(s \o t) : ~(s \o t)[i][1]) =>
                  /\ \A i \in 1..Len(s) : ~s[i][1]
                  /\ \A i \in 1..Len(t) : ~t[i][1]
<1>1. s \o t \in Seq(S) /\ Len(s \o t) = Len(s) + Len(t)
      /\ Len(s) \in Nat /\ Len(t) \in Nat
  BY ConcatProperties, LenProperties
<1>2. ASSUME \A i \in 1..Len(s \o t) : ~(s \o t)[i][1], NEW i \in 1..Len(s)
      PROVE  ~s[i][1]
  <2>1. i \in 1..Len(s) + Len(t) /\ i <= Len(s)
    BY <1>1
  <2>2. (s \o t)[i] = s[i]
    BY <2>1, ConcatProperties
  <2> QED
    BY <1>1, <1>2, <2>1, <2>2
<1>3. ASSUME \A i \in 1..Len(s \o t) : ~(s \o t)[i][1], NEW i \in 1..Len(t)
      PROVE  ~t[i][1]
  <2>1. i + Len(s) \in 1..Len(s) + Len(t) /\ ~(i + Len(s) <= Len(s))
        /\ (i + Len(s)) - Len(s) = i
    BY <1>1
  <2>2. (s \o t)[i + Len(s)] = t[i]
    BY <2>1, ConcatProperties
  <2> QED
    BY <1>1, <1>3, <2>1, <2>2
<1> QED
  BY <1>1, <1>2, <1>3

\* Lists of one, two, three and five members.
LEMMA ShortSequences ==
    ASSUME NEW S, NEW x \in S, NEW y \in S, NEW z \in S, NEW v \in S, NEW w \in S
    PROVE  /\ <<x>> \in Seq(S) /\ <<x, y>> \in Seq(S) /\ <<x, y, z>> \in Seq(S)
           /\ <<x, y, z, v, w>> \in Seq(S)
OBVIOUS

\* A list of two.
LEMMA PairIs ==
    ASSUME NEW S, NEW s \in Seq(S), Len(s) = 2
    PROVE  s = <<s[1], s[2]>>
<1>1. /\ 1 \in 1..Len(s) /\ 2 \in 1..Len(s)
      /\ \A i \in 1..Len(s) : i = 1 \/ i = 2
  OBVIOUS
<1>2. s[1] \in S /\ s[2] \in S
  BY <1>1, ElementOfSeq
<1>3. PICK x, y : x = s[1] /\ y = s[2]
  OBVIOUS
<1>4. /\ <<x, y>> \in Seq(S) /\ Len(<<x, y>>) = 2 /\ <<x, y>>[1] = x /\ <<x, y>>[2] = y
  BY <1>2, <1>3
<1>5. \A i \in 1..Len(s) : s[i] = <<x, y>>[i]
  BY <1>1, <1>3, <1>4
<1> QED
  BY <1>3, <1>4, <1>5, SeqEqual

\* A job that may run has found bars, and they have the checksum of the definition.
LEMMA AcceptedBars ==
    ASSUME NEW e \in Experiments, NEW row, NEW record, NEW c,
           NEW events, events = FirstEvents(Refusals(e, row, record, c))
    PROVE  /\ events \in Seq(QuietEvents)
           /\ events = <<>> => c # None /\ c = row.checksum
<1> DEFINE d == Definition[e]
           r1 == DefinitionRefusals(d)
           r2 == RegistryRefusals(d, record)
           r3 == BarRefusals(d, row, record, c)
           r4 == <<IntegrityRefusal(c)>>
           r5 == CoverageRefusals(d, record, c)
           r6 == <<RiskRefusal(d)>>
           S == {r1[1], r1[2],
                 r2[1], r2[2], r2[3],
                 r3[1], r3[2], r3[3], r3[4], r3[5],
                 r4[1],
                 r5[1], r5[2],
                 r6[1]}
           Quiet(rs) == \A i \in 1..Len(rs) : ~rs[i][1]
<1>1. Refusals(e, row, record, c) = r1 \o r2 \o r3 \o r4 \o r5 \o r6
  BY DEF Refusals
<1>2. Len(r3) = 5 /\ r3[1][1] = (c = None) /\ r3[5][1] = (c # None /\ c # row.checksum)
  BY DEF BarRefusals
<1>3. \A r \in S : r[2] \in Seq(QuietEvents) /\ r[2] # <<>>
  <2>1. /\ r1[1][2] \in Seq(QuietEvents) /\ r1[1][2] # <<>>
        /\ r1[2][2] \in Seq(QuietEvents) /\ r1[2][2] # <<>>
    BY DEF QuietEvents, DefinitionRefusals
  <2>2. /\ r2[1][2] \in Seq(QuietEvents) /\ r2[1][2] # <<>>
        /\ r2[2][2] \in Seq(QuietEvents) /\ r2[2][2] # <<>>
        /\ r2[3][2] \in Seq(QuietEvents) /\ r2[3][2] # <<>>
    BY DEF QuietEvents, RegistryRefusals
  <2>3. /\ r3[1][2] \in Seq(QuietEvents) /\ r3[1][2] # <<>>
        /\ r3[2][2] \in Seq(QuietEvents) /\ r3[2][2] # <<>>
        /\ r3[3][2] \in Seq(QuietEvents) /\ r3[3][2] # <<>>
        /\ r3[4][2] \in Seq(QuietEvents) /\ r3[4][2] # <<>>
        /\ r3[5][2] \in Seq(QuietEvents) /\ r3[5][2] # <<>>
    BY DEF QuietEvents, BarRefusals
  <2>4. /\ r4[1][2] \in Seq(QuietEvents) /\ r4[1][2] # <<>>
    BY DEF QuietEvents, IntegrityRefusal
  <2>5. /\ r5[1][2] \in Seq(QuietEvents) /\ r5[1][2] # <<>>
        /\ r5[2][2] \in Seq(QuietEvents) /\ r5[2][2] # <<>>
    BY DEF QuietEvents, CoverageRefusals
  <2>6. /\ r6[1][2] \in Seq(QuietEvents) /\ r6[1][2] # <<>>
    BY DEF QuietEvents, RiskRefusal
  <2> HIDE DEF r1, r2, r3, r4, r5, r6
  <2> QED
    BY <2>1, <2>2, <2>3, <2>4, <2>5, <2>6
<1>4. r1 = <<r1[1], r1[2]>>
  BY DEF DefinitionRefusals
<1>5. r2 = <<r2[1], r2[2], r2[3]>>
  BY DEF RegistryRefusals
<1>6. r3 = <<r3[1], r3[2], r3[3], r3[4], r3[5]>>
  BY DEF BarRefusals
<1>7. r4 = <<r4[1]>>
  BY DEF IntegrityRefusal
<1>8. r5 = <<r5[1], r5[2]>>
  BY DEF CoverageRefusals
<1>9. r6 = <<r6[1]>>
  BY DEF RiskRefusal
<1> HIDE DEF r1, r2, r3, r4, r5, r6
<1>10. /\ r1 \in Seq(S) /\ r2 \in Seq(S) /\ r3 \in Seq(S)
       /\ r4 \in Seq(S) /\ r5 \in Seq(S) /\ r6 \in Seq(S)
  <2>1. r1 \in Seq(S)
    <3>1. r1[1] \in S /\ r1[2] \in S
      OBVIOUS
    <3> HIDE DEF S
    <3>2. <<r1[1], r1[2]>> \in Seq(S)
      BY <3>1, ShortSequences
    <3> QED
      BY <1>4, <3>2
  <2>2. r2 \in Seq(S)
    <3>1. r2[1] \in S /\ r2[2] \in S /\ r2[3] \in S
      OBVIOUS
    <3> HIDE DEF S
    <3>2. <<r2[1], r2[2], r2[3]>> \in Seq(S)
      BY <3>1, ShortSequences
    <3> QED
      BY <1>5, <3>2
  <2>3. r3 \in Seq(S)
    <3>1. r3[1] \in S /\ r3[2] \in S /\ r3[3] \in S /\ r3[4] \in S /\ r3[5] \in S
      OBVIOUS
    <3> HIDE DEF S
    <3>2. <<r3[1], r3[2], r3[3], r3[4], r3[5]>> \in Seq(S)
      BY <3>1, ShortSequences
    <3> QED
      BY <1>6, <3>2
  <2>4. r4 \in Seq(S)
    <3>1. r4[1] \in S
      OBVIOUS
    <3> HIDE DEF S
    <3>2. <<r4[1]>> \in Seq(S)
      BY <3>1, ShortSequences
    <3> QED
      BY <1>7, <3>2
  <2>5. r5 \in Seq(S)
    <3>1. r5[1] \in S /\ r5[2] \in S
      OBVIOUS
    <3> HIDE DEF S
    <3>2. <<r5[1], r5[2]>> \in Seq(S)
      BY <3>1, ShortSequences
    <3> QED
      BY <1>8, <3>2
  <2>6. r6 \in Seq(S)
    <3>1. r6[1] \in S
      OBVIOUS
    <3> HIDE DEF S
    <3>2. <<r6[1]>> \in Seq(S)
      BY <3>1, ShortSequences
    <3> QED
      BY <1>9, <3>2
  <2> QED
    BY <2>1, <2>2, <2>3, <2>4, <2>5, <2>6
<1> HIDE DEF S
<1>11. events \in Seq(QuietEvents) /\ (events = <<>> => Quiet(r3))
  <2>1. r1 \o r2 \in Seq(S)
    BY <1>10, NoneOfBoth
  <2>2. r1 \o r2 \o r3 \in Seq(S)
    BY <1>10, <2>1, NoneOfBoth
  <2>3. r1 \o r2 \o r3 \o r4 \in Seq(S)
    BY <1>10, <2>2, NoneOfBoth
  <2>4. r1 \o r2 \o r3 \o r4 \o r5 \in Seq(S)
    BY <1>10, <2>3, NoneOfBoth
  <2>5. r1 \o r2 \o r3 \o r4 \o r5 \o r6 \in Seq(S)
    BY <1>10, <2>4, NoneOfBoth
  <2>6. /\ events \in Seq(QuietEvents)
        /\ events = <<>> => Quiet(r1 \o r2 \o r3 \o r4 \o r5 \o r6)
    BY <1>1, <1>3, <2>5, NothingToRefuse
  <2> SUFFICES ASSUME events = <<>> PROVE Quiet(r3)
    BY <2>6
  <2>7. Quiet(r1 \o r2 \o r3 \o r4 \o r5)
    BY <1>10, <2>4, <2>6, NoneOfBoth
  <2>8. Quiet(r1 \o r2 \o r3 \o r4)
    BY <1>10, <2>3, <2>7, NoneOfBoth
  <2>9. Quiet(r1 \o r2 \o r3)
    BY <1>10, <2>2, <2>8, NoneOfBoth
  <2> QED
    BY <1>10, <2>1, <2>9, NoneOfBoth
<1>12. events = <<>> => ~r3[1][1] /\ ~r3[5][1]
  BY <1>2, <1>11
<1> QED
  BY <1>2, <1>11, <1>12

\* The writes of a job have their types.
LEMMA WritesTyped ==
    /\ \A events \in Seq(EventTypes) : Audit(events) \in Ops
    /\ \A status \in Statuses, metrics \in Metrics \cup {None} : Status(status, metrics) \in Ops
    /\ \A row \in ExperimentRows, status \in Statuses : Experiment(row, status) \in Ops
BY DEF Audit, Status, Experiment, Ops, AuditOps, StatusOps, ExperimentOps

\* Quiet events are events.
LEMMA QuietTyped == Seq(QuietEvents) \subseteq Seq(EventTypes)
BY DEF EventTypes

\* Two lists of writes, one after the other.
LEMMA JoinedWrites ==
    ASSUME NEW s \in Seq(Ops), NEW t \in Seq(Ops)
    PROVE  /\ s \o t \in Seq(Ops) /\ Len(s \o t) = Len(s) + Len(t)
           /\ Len(s) \in Nat /\ Len(t) \in Nat
           /\ \A i \in 1..Len(s) : (s \o t)[i] = s[i]
           /\ \A i \in 1..Len(t) : (s \o t)[Len(s) + i] = t[i]
<1>1. /\ s \o t \in Seq(Ops) /\ Len(s \o t) = Len(s) + Len(t)
      /\ Len(s) \in Nat /\ Len(t) \in Nat
  BY ConcatProperties, LenProperties
<1>2. ASSUME NEW i \in 1..Len(s) PROVE (s \o t)[i] = s[i]
  <2>1. i \in 1..Len(s) + Len(t) /\ i <= Len(s)
    BY <1>1
  <2> QED
    BY <2>1, ConcatProperties
<1>3. ASSUME NEW i \in 1..Len(t) PROVE (s \o t)[Len(s) + i] = t[i]
  <2>1. Len(s) + i \in 1..Len(s) + Len(t) /\ ~(Len(s) + i <= Len(s))
        /\ (Len(s) + i) - Len(s) = i
    BY <1>1
  <2> QED
    BY <2>1, ConcatProperties
<1> QED
  BY <1>1, <1>2, <1>3

\* What a refused job writes.
LEMMA FailScriptIs ==
    ASSUME NEW row \in ExperimentRows, NEW events \in Seq(EventTypes)
    PROVE  /\ FailScript(row, events) \in Seq(Ops) /\ Len(FailScript(row, events)) = 3
           /\ FailScript(row, events)[1].op = "audit"
           /\ FailScript(row, events)[2] = Status("FAILED", None)
           /\ FailScript(row, events)[3] = Experiment(row, "FAILED")
<1>1. /\ Audit(events) \in Ops /\ Status("FAILED", None) \in Ops
      /\ Experiment(row, "FAILED") \in Ops
  BY WritesTyped DEF Statuses
<1>2. Audit(events).op = "audit"
  BY DEF Audit
<1> QED
  BY <1>1, <1>2, ShortSequences DEF FailScript

\* What a job that completes writes: an event, its trades, its equity points, the
\* status, an event, and the row of the experiment.
WritesOf(s, j, row, c) ==
    /\ s \in Seq(Ops) /\ Len(s) = TradesOf[c] + CountOf[c] + 4
    /\ \E events \in Seq(QuietEvents) : s[1] = Audit(events)
    /\ \A k \in 1..TradesOf[c] : s[1 + k] = [op |-> "trade", row |-> TradeRow(j, k, c)]
    /\ \A k \in 1..CountOf[c] :
          s[1 + TradesOf[c] + k] = [op |-> "equity", row |-> TradeRow(j, k, c)]
    /\ s[TradesOf[c] + CountOf[c] + 2] = Status("COMPLETED", [job |-> j, bars |-> c])
    /\ s[TradesOf[c] + CountOf[c] + 3] = Audit(<<"JOB_COMPLETED">>)
    /\ s[TradesOf[c] + CountOf[c] + 4] = Experiment(row, "COMPLETED")

\* A job that may run writes these.
LEMMA CompleteScriptIs ==
    ASSUME NEW j \in Jobs, NEW row \in ExperimentRows, NEW c \in Contents
    PROVE  WritesOf(CompleteScript(j, row, c), j, row, c)
<1> DEFINE T == TradesOf[c]
           Q == CountOf[c]
           events == (IF TradesOf[c] = 0 THEN <<>>
             ELSE <<"SIGNAL_GENERATED", "ORDER_PROPOSED", "RISK_CHECK_EVALUATED", "ORDER_FILLED">>)
            \o <<"PORTFOLIO_STATE_UPDATED">>
           a == Audit(events)
           t == Trades(j, c)
           q == EquityPoints(j, c)
           f == Status("COMPLETED", [job |-> j, bars |-> c])
           b == Audit(<<"JOB_COMPLETED">>)
           x == Experiment(row, "COMPLETED")
<1>1. T \in Nat /\ Q \in Nat
  BY ContentsAssumption, DefinitionAssumption
<1>2. a \in Ops /\ \E quiet \in Seq(QuietEvents) : a = Audit(quiet)
  <2>1. events \in Seq(QuietEvents)
    <3>1. <<"SIGNAL_GENERATED", "ORDER_PROPOSED", "RISK_CHECK_EVALUATED", "ORDER_FILLED">>
            \in Seq(QuietEvents)
      BY DEF QuietEvents
    <3>2. <<"PORTFOLIO_STATE_UPDATED">> \in Seq(QuietEvents) /\ <<>> \in Seq(QuietEvents)
      BY DEF QuietEvents
    <3> QED
      BY <3>1, <3>2, ConcatProperties
  <2> HIDE DEF events
  <2> QED
    BY <2>1, QuietTyped, WritesTyped
<1>3. f \in Ops /\ b \in Ops /\ x \in Ops
  <2>1. [job |-> j, bars |-> c] \in Metrics
    BY DEF Metrics
  <2>2. <<"JOB_COMPLETED">> \in Seq(EventTypes)
    BY DEF EventTypes
  <2>3. f \in Ops /\ x \in Ops
    BY <2>1, WritesTyped DEF Statuses
  <2>4. b \in Ops
    BY <2>2, WritesTyped
  <2> QED
    BY <2>3, <2>4
<1>4. /\ t \in Seq(Ops) /\ Len(t) = T
      /\ \A k \in 1..T : t[k] = [op |-> "trade", row |-> TradeRow(j, k, c)]
  <2>1. ASSUME NEW k \in 1..T PROVE [op |-> "trade", row |-> TradeRow(j, k, c)] \in Ops
    <3>1. TradeRow(j, k, c) \in ResultRows
      BY <1>1 DEF TradeRow, ResultRows
    <3> QED
      BY <3>1 DEF Ops, TradeOps
  <2> QED
    BY <1>1, <2>1 DEF Trades
<1>5. /\ q \in Seq(Ops) /\ Len(q) = Q
      /\ \A k \in 1..Q : q[k] = [op |-> "equity", row |-> TradeRow(j, k, c)]
  <2>1. ASSUME NEW k \in 1..Q PROVE [op |-> "equity", row |-> TradeRow(j, k, c)] \in Ops
    <3>1. TradeRow(j, k, c) \in ResultRows
      BY <1>1 DEF TradeRow, ResultRows
    <3> QED
      BY <3>1 DEF Ops, EquityOps
  <2> QED
    BY <1>1, <2>1 DEF EquityPoints
<1> DEFINE s == CompleteScript(j, row, c)
<1>6. s = ((<<a>> \o t) \o q) \o <<f, b, x>>
  BY DEF CompleteScript
<1> HIDE DEF T, Q, a, t, q, f, b, x, s
<1> DEFINE s1 == <<a>>
           s2 == s1 \o t
           s3 == s2 \o q
           s4 == <<f, b, x>>
<1>7. s1 \in Seq(Ops) /\ Len(s1) = 1 /\ s1[1] = a
  BY <1>2
<1>8. s4 \in Seq(Ops) /\ Len(s4) = 3 /\ s4[1] = f /\ s4[2] = b /\ s4[3] = x
  BY <1>3
<1> HIDE DEF s1, s4
<1>9. /\ s2 \in Seq(Ops) /\ Len(s2) = 1 + T /\ s2[1] = a
      /\ \A k \in 1..T : s2[1 + k] = t[k]
  <2>1. s1 \in Seq(Ops) /\ t \in Seq(Ops)
    BY <1>4, <1>7
  <2>2. /\ s2 \in Seq(Ops) /\ Len(s2) = Len(s1) + Len(t)
        /\ \A i \in 1..Len(s1) : s2[i] = s1[i]
        /\ \A i \in 1..Len(t) : s2[Len(s1) + i] = t[i]
    BY <2>1, JoinedWrites
  <2> HIDE DEF s2
  <2>3. 1 \in 1..Len(s1) /\ Len(s1) = 1 /\ Len(t) = T
    BY <1>4, <1>7
  <2> QED
    BY <1>7, <2>2, <2>3
<1>10. /\ s3 \in Seq(Ops) /\ Len(s3) = 1 + T + Q
       /\ \A k \in 1..(1 + T) : s3[k] = s2[k]
       /\ \A k \in 1..Q : s3[1 + T + k] = q[k]
  <2> HIDE DEF s2
  <2>1. s2 \in Seq(Ops) /\ q \in Seq(Ops)
    BY <1>5, <1>9
  <2>2. /\ s3 \in Seq(Ops) /\ Len(s3) = Len(s2) + Len(q)
        /\ \A i \in 1..Len(s2) : s3[i] = s2[i]
        /\ \A i \in 1..Len(q) : s3[Len(s2) + i] = q[i]
    BY <2>1, JoinedWrites
  <2> HIDE DEF s3
  <2>3. Len(s2) = 1 + T /\ Len(q) = Q
    BY <1>5, <1>9
  <2> QED
    BY <2>2, <2>3
<1>11. /\ s \in Seq(Ops) /\ Len(s) = (1 + T + Q) + 3
       /\ \A k \in 1..(1 + T + Q) : s[k] = s3[k]
       /\ \A k \in 1..3 : s[(1 + T + Q) + k] = s4[k]
  <2>0. s = s3 \o s4
    BY <1>6 DEF s1, s4
  <2> HIDE DEF s3
  <2>1. s3 \in Seq(Ops) /\ s4 \in Seq(Ops)
    BY <1>8, <1>10
  <2>2. /\ s \in Seq(Ops) /\ Len(s) = Len(s3) + Len(s4)
        /\ \A i \in 1..Len(s3) : s[i] = s3[i]
        /\ \A i \in 1..Len(s4) : s[Len(s3) + i] = s4[i]
    BY <2>0, <2>1, JoinedWrites
  <2>3. Len(s3) = 1 + T + Q /\ Len(s4) = 3
    BY <1>8, <1>10
  <2> QED
    BY <2>2, <2>3
<1>12. (1 + T + Q) + 1 = T + Q + 2 /\ (1 + T + Q) + 2 = T + Q + 3 /\ (1 + T + Q) + 3 = T + Q + 4
  BY <1>1
<1>13. s[T + Q + 2] = f /\ s[T + Q + 3] = b /\ s[T + Q + 4] = x
  <2>1. 1 \in 1..3 /\ 2 \in 1..3 /\ 3 \in 1..3
    OBVIOUS
  <2>2. /\ s[(1 + T + Q) + 1] = s4[1] /\ s[(1 + T + Q) + 2] = s4[2] /\ s[(1 + T + Q) + 3] = s4[3]
    BY <1>11, <2>1
  <2> QED
    BY <1>8, <1>12, <2>2
<1>14. s[1] = a
  <2>1. 1 \in 1..(1 + T) /\ 1 \in 1..(1 + T + Q)
    BY <1>1
  <2> QED
    BY <1>9, <1>10, <1>11, <2>1
<1>15. ASSUME NEW k \in 1..T PROVE s[1 + k] = t[k]
  <2>1. 1 + k \in 1..(1 + T) /\ 1 + k \in 1..(1 + T + Q)
    BY <1>1
  <2> QED
    BY <1>9, <1>10, <1>11, <2>1
<1>16. ASSUME NEW k \in 1..Q PROVE s[1 + T + k] = q[k]
  <2>1. 1 + T + k \in 1..(1 + T + Q)
    BY <1>1
  <2> QED
    BY <1>10, <1>11, <2>1
<1>17. Len(s) = T + Q + 4
  BY <1>11, <1>12
<1> QED
  BY <1>1, <1>2, <1>3, <1>4, <1>5, <1>11, <1>13, <1>14, <1>15, <1>16, <1>17
  DEF WritesOf, T, Q, f, b, x, s

\* A row of another job changes nothing for this one.
LEMMA RowOfAnother ==
    ASSUME NEW rows \in Seq(ResultRows), NEW r \in ResultRows, NEW j, r.job # j,
           NEW c, NEW n \in Nat
    PROVE  /\ Recorded(rows, j, c, n) => Recorded(Append(rows, r), j, c, n)
           /\ HasRows(j, Append(rows, r)) => HasRows(j, rows)
<1> DEFINE more == Append(rows, r)
<1>1. /\ Len(rows) \in Nat /\ DOMAIN rows = 1..Len(rows)
      /\ more \in Seq(ResultRows) /\ Len(more) = Len(rows) + 1
      /\ \A i \in 1..Len(rows) : more[i] = rows[i]
      /\ more[Len(rows) + 1] = r
  BY LenProperties, AppendProperties
<1>2. DOMAIN more = 1..(Len(rows) + 1)
  BY <1>1, LenProperties
<1>3. {i \in DOMAIN more : more[i].job = j} = {i \in DOMAIN rows : rows[i].job = j}
  <2> HIDE DEF more
  <2> QED
    BY <1>1, <1>2
<1>4. \A i \in {i \in DOMAIN rows : rows[i].job = j} : more[i] = rows[i]
  BY <1>1
<1>5. {more[i] : i \in {i \in DOMAIN more : more[i].job = j}}
        = {rows[i] : i \in {i \in DOMAIN rows : rows[i].job = j}}
  <2> HIDE DEF more
  <2> QED
    BY <1>3, <1>4
<1>6. Recorded(rows, j, c, n) => Recorded(more, j, c, n)
  <2> HIDE DEF more
  <2> QED
    BY <1>3, <1>4, <1>5 DEF Recorded
<1>7. HasRows(j, more) => HasRows(j, rows)
  <2> HIDE DEF more
  <2> QED
    BY <1>1 DEF HasRows
<1> QED
  BY <1>6, <1>7

\* A job without rows has recorded none, and the next row is one more.
LEMMA NoRowYet ==
    ASSUME NEW rows \in Seq(ResultRows), NEW j, NEW c, ~HasRows(j, rows)
    PROVE  Recorded(rows, j, c, 0)
<1>1. DOMAIN rows = 1..Len(rows)
  BY LenProperties
<1>2. {i \in DOMAIN rows : rows[i].job = j} = {}
  BY <1>1 DEF HasRows
<1>3. {TradeRow(j, k, c) : k \in 1..0} = {}
  OBVIOUS
<1> QED
  BY <1>2, <1>3 DEF Recorded

\* The next row of a job: it has one more.
LEMMA NextRow ==
    ASSUME NEW rows \in Seq(ResultRows), NEW j \in Jobs, NEW c \in Contents, NEW n \in Nat,
           Recorded(rows, j, c, n)
    PROVE  Recorded(Append(rows, TradeRow(j, n + 1, c)), j, c, n + 1)
<1> DEFINE r == TradeRow(j, n + 1, c)
           more == Append(rows, r)
           own == {i \in DOMAIN rows : rows[i].job = j}
           Rows(m) == {TradeRow(j, k, c) : k \in 1..m}
<1>1. r \in ResultRows /\ r.job = j /\ r.n = n + 1
  BY DEF TradeRow, ResultRows
<1>2. /\ Len(rows) \in Nat /\ DOMAIN rows = 1..Len(rows)
      /\ more \in Seq(ResultRows) /\ Len(more) = Len(rows) + 1
      /\ \A i \in 1..Len(rows) : more[i] = rows[i]
      /\ more[Len(rows) + 1] = r
  BY <1>1, LenProperties, AppendProperties
<1>3. DOMAIN more = 1..(Len(rows) + 1)
  BY <1>2, LenProperties
<1>4. {i \in DOMAIN more : more[i].job = j} = own \cup {Len(rows) + 1}
  <2> HIDE DEF more, r
  <2> QED
    BY <1>1, <1>2, <1>3
<1>5. {rows[i] : i \in own} = Rows(n) /\ \A i, k \in own : i < k => rows[i].n < rows[k].n
  BY DEF Recorded
<1>6. \A i \in own : rows[i] \in Rows(n)
  BY <1>5
<1>7. \A i \in own : i \in 1..Len(rows) /\ rows[i].n \in 1..n /\ more[i] = rows[i]
  BY <1>2, <1>6 DEF TradeRow
<1>8. {more[i] : i \in own \cup {Len(rows) + 1}} = {rows[i] : i \in own} \cup {r}
  <2> HIDE DEF more, r, own
  <2> QED
    BY <1>2, <1>7
<1>9. Rows(n + 1) = Rows(n) \cup {r}
  <2>1. 1..(n + 1) = (1..n) \cup {n + 1}
    OBVIOUS
  <2> QED
    BY <2>1
<1>10. \A i, k \in own \cup {Len(rows) + 1} : i < k => more[i].n < more[k].n
  <2> SUFFICES ASSUME NEW i \in own \cup {Len(rows) + 1}, NEW k \in own \cup {Len(rows) + 1}, i < k
               PROVE  more[i].n < more[k].n
    OBVIOUS
  <2>1. i \in own
    BY <1>2, <1>7
  <2>2. CASE k \in own
    BY <1>5, <1>7, <2>1, <2>2
  <2>3. CASE k = Len(rows) + 1
    BY <1>1, <1>2, <1>7, <2>1, <2>3
  <2> QED
    BY <2>2, <2>3
<1>11. {more[i] : i \in own \cup {Len(rows) + 1}} = Rows(n + 1)
  BY <1>5, <1>8, <1>9
<1> QED
  <2> HIDE DEF more, own, Rows
  <2>1. Recorded(more, j, c, n + 1)
    BY <1>4, <1>10, <1>11 DEF Recorded, Rows
  <2> QED
    BY <2>1 DEF more

-----------------------------------------------------------------------------
(***************************************************************************)
(* Types.                                                                   *)
(***************************************************************************)

\* What a write does to the store.
LEMMA WriteIs ==
    ASSUME NEW e, NEW w \in Ops, Write(e, w)
    PROVE  /\ w.op \in {"audit", "trade", "equity", "status", "experiment"}
           /\ w.op = "audit" => /\ w.events \in Seq(EventTypes)
                                /\ audit' = [audit EXCEPT ![e] = @ \o w.events]
                                /\ UNCHANGED <<exps, runs, trades, equity>>
           /\ w.op # "audit" => UNCHANGED audit
           /\ w.op = "trade" => /\ w.row \in ResultRows
                                /\ trades' = [trades EXCEPT ![e] = Append(@, w.row)]
                                /\ UNCHANGED <<exps, runs, equity>>
           /\ w.op = "equity" => /\ w.row \in ResultRows
                                 /\ equity' = [equity EXCEPT ![e] = Append(@, w.row)]
                                 /\ UNCHANGED <<exps, runs, trades>>
           /\ w.op = "status" => /\ w.status \in Statuses /\ w.metrics \in Metrics \cup {None}
                                 /\ UpdateStatus(e, w.status, w.metrics)
                                 /\ UNCHANGED <<exps, trades, equity>>
           /\ w.op = "experiment" => /\ w.row \in ExperimentRows /\ w.status \in Statuses
                                     /\ SaveExperiment(e, w.row, w.status)
                                     /\ UNCHANGED <<runs, trades, equity>>
<1>1. CASE w \in AuditOps
  BY <1>1 DEF AuditOps, Write
<1>2. CASE w \in TradeOps
  BY <1>2 DEF TradeOps, Write
<1>3. CASE w \in EquityOps
  BY <1>3 DEF EquityOps, Write
<1>4. CASE w \in StatusOps
  BY <1>4 DEF StatusOps, Write
<1>5. CASE w \in ExperimentOps
  BY <1>5 DEF ExperimentOps, Write
<1> QED
  BY <1>1, <1>2, <1>3, <1>4, <1>5 DEF Ops

\* A job with something to write.
LEMMA WriterIs ==
    ASSUME RunsInv, NEW j \in Jobs, work[j].script # <<>>
    PROVE  /\ work[j].pc \in {"opening", "marking", "closing", "rescue", "rescued"}
           /\ work[j].exp \in Experiments /\ exps[work[j].exp] # None /\ runs[work[j].exp] # None
           /\ Len(work[j].script) \in Nat \ {0}
           /\ Head(work[j].script) \in Ops /\ Head(work[j].script) = work[j].script[1]
           /\ Tail(work[j].script) \in Seq(Ops)
           /\ Len(Tail(work[j].script)) = Len(work[j].script) - 1
           /\ \A i \in 1..Len(Tail(work[j].script)) :
                 Tail(work[j].script)[i] = work[j].script[i + 1]
<1> DEFINE s == work[j].script
<1>1. work[j] \in WorkStates
  BY DEF RunsInv, TypeInv, ProcessTypes
<1>2. s \in Seq(Ops) /\ work[j].pc \in WorkSteps /\ work[j].exp \in Experiments \cup {None}
  BY <1>1 DEF WorkStates
<1>3. work[j].pc \notin {"idle", "load", "reload", "registry", "bars"}
  BY DEF RunsInv, JobInv, JobOk, NoWork
<1>4. work[j].exp # None /\ exps[work[j].exp] # None /\ runs[work[j].exp] # None
  BY <1>3 DEF RunsInv, JobInv, JobOk
<1> HIDE DEF s
<1>5. /\ Len(s) \in Nat \ {0} /\ Head(s) \in Ops /\ Tail(s) \in Seq(Ops)
      /\ Len(Tail(s)) = Len(s) - 1
      /\ \A i \in 1..Len(Tail(s)) : Tail(s)[i] = s[i + 1]
  BY <1>2, HeadTailProperties, EmptySeq DEF s
<1>6. Head(s) = s[1]
  BY <1>2 DEF s
<1> QED
  BY <1>2, <1>3, <1>4, <1>5, <1>6 DEF WorkSteps, s

\* A row of table backtest_runs.
LEMMA StatusUpdated ==
    ASSUME StoreTypes, NEW e \in Experiments, runs[e] # None, NEW status \in Statuses,
           NEW metrics \in Metrics \cup {None}, UpdateStatus(e, status, metrics)
    PROVE  /\ runs' \in [Experiments -> RunRows \cup {None}]
           /\ \A x \in Experiments : x # e => runs'[x] = runs[x]
           /\ runs'[e] \in RunRows /\ runs'[e].status = status
           /\ runs'[e].metrics = IF metrics = None THEN runs[e].metrics ELSE metrics
<1>1. runs \in [Experiments -> RunRows \cup {None}] /\ runs[e] \in RunRows
  BY DEF StoreTypes
<1>2. runs[e] = [status |-> runs[e].status, metrics |-> runs[e].metrics]
  BY <1>1 DEF RunRows
<1> DEFINE row == [status |-> status,
                   metrics |-> IF metrics = None THEN runs[e].metrics ELSE metrics]
<1>3. runs' = [x \in Experiments |-> runs'[x]] /\ \A x \in Experiments : x # e => runs'[x] = runs[x]
  BY <1>1 DEF UpdateStatus
<1>4. runs'[e] = row
  BY <1>1, <1>2 DEF UpdateStatus
<1>5. row \in RunRows
  BY <1>1 DEF RunRows
<1>6. row.status = status /\ row.metrics = IF metrics = None THEN runs[e].metrics ELSE metrics
  OBVIOUS
<1> HIDE DEF row
<1>7. \A x \in Experiments : runs'[x] \in RunRows \cup {None}
  BY <1>1, <1>3, <1>4, <1>5
<1> QED
  BY <1>3, <1>4, <1>5, <1>6, <1>7

\* Every step keeps the registry, the store and the processes within their types.
LEMMA RegistryTypesStep == RunsInv /\ [Next]_vars => RegistryTypes'
<1> SUFFICES ASSUME RunsInv, [Next]_vars PROVE RegistryTypes'
  OBVIOUS
<1> USE DEF RegistryTypes
<1>0. RegistryTypes
  BY DEF RunsInv, TypeInv
<1>1. CASE UNCHANGED <<registry, latest, bars>>
  BY <1>0, <1>1
<1>2. ASSUME NEW v \in Versions, NEW d \in Declarations[v], Register(v, d) PROVE RegistryTypes'
  <2>1. [declared |-> d, quality |-> "VALID"] \in Records
    BY DEF Declared, Records
  <2> QED
    BY <1>0, <1>2, <2>1 DEF Register
<1>3. ASSUME NEW v \in Versions \cup {None}, Quarantine(v) PROVE RegistryTypes'
  <2> DEFINE u == IF v # None THEN v ELSE latest
  <2>1. u \in Versions /\ registry[u] \in Records
    BY <1>0, <1>3 DEF Quarantine, GetDataset
  <2>2. [registry[u] EXCEPT !.quality = "CORRUPTED"] \in Records
    BY <2>1 DEF Records
  <2>3. registry' = [registry EXCEPT ![u] = [registry[u] EXCEPT !.quality = "CORRUPTED"]]
        /\ latest' = u /\ bars' = bars
    BY <1>3 DEF Quarantine
  <2> QED
    BY <1>0, <2>1, <2>2, <2>3
<1>4. ASSUME NEW load \in Loads, RegisterBars(load[1], load[2]) PROVE RegistryTypes'
  <2>1. load[1] \in Contents /\ load[2] \in Versions \cup {None}
    BY ContentsAssumption
  <2> QED
    BY <1>0, <1>4, <2>1 DEF RegisterBars
<1>5. CASE Crash
  BY <1>5 DEF Crash
<1> QED
  BY ZenonT(30), <1>1, <1>2, <1>3, <1>4, <1>5
  DEF Next, RegistryNext, Create, Request, BeginSubmit, BeginDirect, CallerStep, CheckExisting,
      SavePending, Resolve, EnsureDefinition, SavePendingRun, Dispatch, RequestRaises, JobStep,
      TakeJob, LoadDefinition, ReadRegistry, ReadBars, WriteNext, WriteRaises, Restrained,
      registryVars, vars

\* The definition of an experiment that exists.
LEMMA DefinitionRows ==
    ASSUME NEW e \in Experiments
    PROVE  Row(Definition[e].version, Definition[e].checksum, "CREATED") \in ExperimentRows
BY DefinitionAssumption DEF Row, ExperimentRows, Checksums, Statuses

\* Every step keeps the tables well formed ...
LEMMA StoreTypesStep == RunsInv /\ [Next]_vars => StoreTypes'
<1> SUFFICES ASSUME RunsInv, [Next]_vars PROVE StoreTypes'
  OBVIOUS
<1> USE DEF StoreTypes
<1>0. StoreTypes /\ caller \in [Callers -> CallerStates]
  BY DEF RunsInv, TypeInv, ProcessTypes
<1>1. CASE UNCHANGED <<exps, runs, audit, trades, equity>>
  BY <1>0, <1>1
<1>2. ASSUME NEW e \in Experiments, Create(e) PROVE StoreTypes'
  BY <1>0, <1>2, DefinitionRows DEF Create
<1>3. ASSUME NEW c \in Callers, SavePending(c) PROVE StoreTypes'
  <2>1. caller[c].exp \in Experiments /\ caller[c].row \in ExperimentRows
    BY <1>0, <1>3 DEF RunsInv, CallerInv, Knows, SavePending, CallerStates, IdleCaller
  <2>2. [caller[c].row EXCEPT !.status = "PENDING"] \in ExperimentRows
    BY <2>1, RowWrittenBack DEF Statuses
  <2> QED
    BY <1>0, <1>3, <2>1, <2>2 DEF SavePending, SaveExperiment
<1>4. ASSUME NEW c \in Callers, EnsureDefinition(c) PROVE StoreTypes'
  <2>1. caller[c].exp \in Experiments /\ caller[c].row \in ExperimentRows
    BY <1>0, <1>4 DEF RunsInv, CallerInv, Knows, EnsureDefinition, CallerStates, IdleCaller
  <2> QED
    BY <1>0, <1>4, <2>1 DEF EnsureDefinition
<1>5. ASSUME NEW c \in Callers, SavePendingRun(c) PROVE StoreTypes'
  <2>1. [status |-> "PENDING", metrics |-> None] \in RunRows /\ <<>> \in Seq(EventTypes)
    BY DEF RunRows, Statuses
  <2> QED
    BY <1>0, <1>5, <2>1 DEF SavePendingRun, SaveRun
<1>6. ASSUME NEW j \in Jobs, WriteNext(j) PROVE StoreTypes'
  <2> DEFINE e == work[j].exp
             w == Head(work[j].script)
  <2>1. e \in Experiments /\ runs[e] # None /\ w \in Ops /\ Write(e, w)
    BY <1>6, WriterIs DEF WriteNext
  <2> HIDE DEF e, w
  <2>2. CASE w.op = "audit"
    <3>1. /\ w.events \in Seq(EventTypes) /\ audit' = [audit EXCEPT ![e] = @ \o w.events]
          /\ UNCHANGED <<exps, runs, trades, equity>>
      BY <2>1, <2>2, WriteIs
    <3>2. audit[e] \o w.events \in Seq(EventTypes)
      BY <1>0, <2>1, <3>1, ConcatProperties
    <3> QED
      BY <1>0, <2>1, <3>1, <3>2
  <2>3. CASE w.op = "trade"
    <3>1. w.row \in ResultRows /\ trades' = [trades EXCEPT ![e] = Append(@, w.row)]
          /\ UNCHANGED <<exps, runs, audit, equity>>
      BY <2>1, <2>3, WriteIs
    <3>2. Append(trades[e], w.row) \in Seq(ResultRows)
      BY <1>0, <2>1, <3>1, AppendProperties
    <3> QED
      BY <1>0, <2>1, <3>1, <3>2
  <2>4. CASE w.op = "equity"
    <3>1. w.row \in ResultRows /\ equity' = [equity EXCEPT ![e] = Append(@, w.row)]
          /\ UNCHANGED <<exps, runs, audit, trades>>
      BY <2>1, <2>4, WriteIs
    <3>2. Append(equity[e], w.row) \in Seq(ResultRows)
      BY <1>0, <2>1, <3>1, AppendProperties
    <3> QED
      BY <1>0, <2>1, <3>1, <3>2
  <2>5. CASE w.op = "status"
    BY <1>0, <2>1, <2>5, WriteIs, StatusUpdated
  <2>6. CASE w.op = "experiment"
    <3>1. w.row \in ExperimentRows /\ w.status \in Statuses /\ SaveExperiment(e, w.row, w.status)
          /\ UNCHANGED <<runs, audit, trades, equity>>
      BY <2>1, <2>6, WriteIs
    <3> QED
      BY <1>0, <2>1, <3>1, RowWrittenBack DEF SaveExperiment
  <2> QED
    BY <2>1, <2>2, <2>3, <2>4, <2>5, <2>6, WriteIs
<1> QED
  BY ZenonT(30), <1>1, <1>2, <1>3, <1>4, <1>5, <1>6
  DEF Next, RegistryNext, Request, BeginSubmit, BeginDirect, CallerStep, CheckExisting,
      Resolve, Dispatch, RequestRaises, JobStep, TakeJob, LoadDefinition, ReadRegistry, ReadBars,
      WriteRaises, Crash, store, vars

\* A job that is not running, and a request that is.
LEMMA NoWorkTyped == NoWork \in WorkStates
<1>1. <<>> \in Seq(Ops)
  OBVIOUS
<1> QED
  BY <1>1 DEF NoWork, WorkStates, WorkSteps

\* A request that has begun.
LEMMA RequestIs ==
    ASSUME ProcessTypes, NEW c \in Callers, caller[c].pc # "idle"
    PROVE  caller[c] \in [pc : CallerSteps, exp : Experiments, row : ExperimentRows \cup {None},
                          idempotent : BOOLEAN]
BY DEF ProcessTypes, CallerStates, IdleCaller

\* The definition of a request that names neither version nor checksum.
LEMMA ResolvedRow ==
    ASSUME TypeInv, NEW c \in Callers, Resolve(c)
    PROVE  \E row \in ExperimentRows :
              caller' = [caller EXCEPT ![c].pc = "ensure", ![c].row = row]
<1> DEFINE record == GetDataset(None)
           version == IF record = None THEN Definition[caller[c].exp].version ELSE latest
           checksum == IF record = None THEN None ELSE record.declared.checksum
           row == Row(version, checksum, "CREATED")
<1>1. caller[c].exp \in Experiments
  BY DEF TypeInv, ProcessTypes, Resolve, CallerStates, IdleCaller
<1>2. version \in Versions
  BY <1>1, DefinitionAssumption DEF TypeInv, RegistryTypes, GetDataset
<1>3. checksum \in Checksums
  <2>1. record \in Records \cup {None}
    BY DEF TypeInv, RegistryTypes, GetDataset
  <2> HIDE DEF record
  <2> QED
    BY <2>1 DEF Records, Checksums
<1>4. row \in ExperimentRows
  <2> HIDE DEF version, checksum
  <2> QED
    BY <1>2, <1>3 DEF Row, ExperimentRows, Statuses
<1>5. caller' = [caller EXCEPT ![c].pc = "ensure", ![c].row = row]
  BY DEF Resolve
<1> HIDE DEF row
<1> QED
  BY <1>4, <1>5

\* What the handler writes, and what a job that begins does.
LEMMA OtherScripts ==
    /\ Rescue \in Seq(Ops)
    /\ <<Status("RUNNING", None), Audit(<<"JOB_STARTED">>)>> \in Seq(Ops)
    /\ \A row \in ExperimentRows, status \in Statuses : <<Experiment(row, status)>> \in Seq(Ops)
<1>1. <<"JOB_ERROR">> \in Seq(EventTypes) /\ <<"JOB_STARTED">> \in Seq(EventTypes)
  BY DEF EventTypes, QuietEvents
<1>2. /\ Audit(<<"JOB_ERROR">>) \in Ops /\ Audit(<<"JOB_STARTED">>) \in Ops
      /\ Status("FAILED", None) \in Ops /\ Status("RUNNING", None) \in Ops
  BY <1>1, WritesTyped DEF Statuses
<1>3. ASSUME NEW row \in ExperimentRows, NEW status \in Statuses
      PROVE  <<Experiment(row, status)>> \in Seq(Ops)
  <2>1. Experiment(row, status) \in Ops
    BY WritesTyped
  <2> QED
    BY <2>1
<1>4. Rescue \in Seq(Ops)
  BY <1>2 DEF Rescue
<1>5. <<Status("RUNNING", None), Audit(<<"JOB_STARTED">>)>> \in Seq(Ops)
  BY <1>2
<1> QED
  BY <1>3, <1>4, <1>5

\* What a job that holds a row reads.
LEMMA ReaderIs ==
    ASSUME RunsInv, NEW j \in Jobs, HoldsRow(j)
    PROVE  /\ work[j] \in WorkStates /\ work[j].exp \in Experiments
           /\ work[j].row \in ExperimentRows /\ work[j].row.version \in Versions
           /\ work[j].row.checksum = exps[work[j].exp].checksum
           /\ GetDataset(work[j].row.version) \in Records \cup {None}
           /\ BarsFor(work[j].row.version) \in Contents \cup {None}
<1>1. work[j] \in WorkStates
  BY DEF RunsInv, TypeInv, ProcessTypes
<1>2. /\ work[j].exp \in Experiments /\ work[j].row \in ExperimentRows
      /\ work[j].row.checksum = exps[work[j].exp].checksum
  <2>1. work[j].exp # None
    BY DEF RunsInv, JobInv, JobOk, HoldsRow
  <2> QED
    BY <1>1, <2>1 DEF RunsInv, JobInv, JobOk, WorkStates
<1>3. work[j].row.version \in Versions /\ work[j].row.version # None
  BY <1>2, ContentsAssumption DEF ExperimentRows
<1> QED
  BY <1>1, <1>2, <1>3 DEF RunsInv, TypeInv, RegistryTypes, GetDataset, BarsFor

\* What a job does that has read the bars.
LEMMA BarsRead ==
    ASSUME RunsInv, NEW j \in Jobs, ReadBars(j)
    PROVE  \E c \in Contents \cup {None}, events \in Seq(QuietEvents) :
              /\ work' = [work EXCEPT ![j].pc = "closing", ![j].record = None,
                             ![j].script = IF events # <<>> THEN FailScript(work[j].row, events)
                                           ELSE CompleteScript(j, work[j].row, c)]
              /\ events = <<>> => c \in Contents /\ c = work[j].row.checksum
<1>1. HoldsRow(j)
  BY DEF ReadBars, HoldsRow
<1> DEFINE s == work[j]
           c == BarsFor(s.row.version)
           events == FirstEvents(Refusals(s.exp, s.row, s.record, c))
<1>2. c \in Contents \cup {None} /\ s.exp \in Experiments
  BY <1>1, ReaderIs
<1>3. /\ events \in Seq(QuietEvents)
      /\ events = <<>> => c # None /\ c = s.row.checksum
  BY <1>2, AcceptedBars
<1>4. work' = [work EXCEPT ![j].pc = "closing", ![j].record = None,
                   ![j].script = IF events # <<>> THEN FailScript(work[j].row, events)
                                 ELSE CompleteScript(j, work[j].row, c)]
  BY DEF ReadBars
<1> HIDE DEF c, events
<1> QED
  BY <1>2, <1>3, <1>4

\* ... and the queue, the requests and the jobs.
LEMMA ProcessTypesStep == RunsInv /\ [Next]_vars => ProcessTypes'
<1> SUFFICES ASSUME RunsInv, [Next]_vars PROVE ProcessTypes'
  OBVIOUS
<1> USE DEF ProcessTypes
<1>0. ProcessTypes /\ StoreTypes /\ RegistryTypes /\ IdleCaller \in CallerStates
  BY DEF RunsInv, TypeInv, CallerStates
<1>1. CASE UNCHANGED <<queue, caller, work, jobs>>
  BY <1>0, <1>1
<1>2. ASSUME NEW c \in Callers, NEW e \in Experiments, NEW i \in BOOLEAN, BeginSubmit(c, e, i)
      PROVE  ProcessTypes'
  <2>1. exps[e] \in ExperimentRows
    BY <1>0, <1>2 DEF BeginSubmit, StoreTypes
  <2>2. [pc |-> "check", exp |-> e, row |-> exps[e], idempotent |-> i] \in CallerStates
    BY <2>1 DEF CallerStates, CallerSteps
  <2> QED
    BY <1>0, <1>2, <2>2 DEF BeginSubmit, Restrained, bounds
<1>3. ASSUME NEW c \in Callers, NEW e \in Experiments, BeginDirect(c, e) PROVE ProcessTypes'
  <2>2. [pc |-> "resolve", exp |-> e, row |-> None, idempotent |-> FALSE] \in CallerStates
    BY DEF CallerStates, CallerSteps
  <2> QED
    BY <1>0, <1>3, <2>2 DEF BeginDirect, Restrained, bounds
<1>4. ASSUME NEW c \in Callers, CheckExisting(c) PROVE ProcessTypes'
  <2> DEFINE next == IF IsActive(caller[c].exp) /\ caller[c].idempotent
                     THEN IdleCaller ELSE [caller[c] EXCEPT !.pc = "savePending"]
  <2>1. [caller[c] EXCEPT !.pc = "savePending"] \in CallerStates
    BY <1>0, <1>4, RequestIs DEF CheckExisting, CallerStates, CallerSteps
  <2>2. next \in CallerStates
    BY <1>0, <2>1
  <2>3. caller' = [caller EXCEPT ![c] = next] /\ UNCHANGED <<queue, work, jobs>>
    BY <1>4 DEF CheckExisting, Restrained, bounds
  <2> HIDE DEF next
  <2> QED
    BY <1>0, <2>2, <2>3
<1>5. ASSUME NEW c \in Callers, SavePending(c) PROVE ProcessTypes'
  <2>1. [caller[c] EXCEPT !.pc = "saveRun"] \in CallerStates
    BY <1>0, <1>5, RequestIs DEF SavePending, CallerStates, CallerSteps
  <2> QED
    BY <1>0, <1>5, <2>1 DEF SavePending, Restrained, bounds
<1>6. ASSUME NEW c \in Callers, Resolve(c) PROVE ProcessTypes'
  <2>1. PICK row \in ExperimentRows :
           caller' = [caller EXCEPT ![c].pc = "ensure", ![c].row = row]
    BY <1>6, ResolvedRow DEF RunsInv, TypeInv
  <2>2. [caller[c] EXCEPT !.pc = "ensure", !.row = row] \in CallerStates
    BY <1>0, <1>6, RequestIs DEF Resolve, CallerStates, CallerSteps
  <2>3. caller' = [caller EXCEPT ![c] = [caller[c] EXCEPT !.pc = "ensure", !.row = row]]
        /\ UNCHANGED <<queue, work, jobs>>
    BY <1>6, <2>1 DEF Resolve, Restrained, bounds
  <2> QED
    BY <1>0, <2>2, <2>3
<1>7. ASSUME NEW c \in Callers, EnsureDefinition(c) PROVE ProcessTypes'
  <2>1. [caller[c] EXCEPT !.pc = "saveRun"] \in CallerStates
    BY <1>0, <1>7, RequestIs DEF EnsureDefinition, CallerStates, CallerSteps
  <2> QED
    BY <1>0, <1>7, <2>1 DEF EnsureDefinition, Restrained, bounds
<1>8. ASSUME NEW c \in Callers, SavePendingRun(c) PROVE ProcessTypes'
  <2>1. [caller[c] EXCEPT !.pc = "dispatch"] \in CallerStates
    BY <1>0, <1>8, RequestIs DEF SavePendingRun, CallerStates, CallerSteps
  <2> QED
    BY <1>0, <1>8, <2>1 DEF SavePendingRun, Restrained, bounds
<1>9. ASSUME NEW c \in Callers, Dispatch(c) PROVE ProcessTypes'
  <2>1. <<jobs + 1, caller[c].exp>> \in Nat \X Experiments
    BY <1>0, <1>9 DEF Dispatch, CallerStates, IdleCaller
  <2>2. Append(queue, <<jobs + 1, caller[c].exp>>) \in Seq(Nat \X Experiments)
    BY <1>0, <2>1, AppendProperties
  <2> QED
    BY <1>0, <1>9, <2>2 DEF Dispatch
<1>10. ASSUME NEW c \in Callers, RequestRaises(c) PROVE ProcessTypes'
  BY <1>0, <1>10 DEF RequestRaises
<1>11. ASSUME NEW j \in Jobs, TakeJob(j) PROVE ProcessTypes'
  <2> DEFINE script == <<Status("RUNNING", None), Audit(<<"JOB_STARTED">>)>>
  <2>1. script \in Seq(Ops)
    BY OtherScripts
  <2>2. Head(queue) \in Nat \X Experiments /\ Tail(queue) \in Seq(Nat \X Experiments)
    BY <1>0, <1>11, HeadTailProperties DEF TakeJob
  <2>3. work' = [work EXCEPT ![j] = [NoWork EXCEPT !.pc = "opening", !.exp = Head(queue)[2],
                                                  !.script = script]]
        /\ queue' = Tail(queue) /\ UNCHANGED <<caller, jobs>>
    BY <1>11 DEF TakeJob, Restrained, bounds
  <2> HIDE DEF script
  <2>4. [NoWork EXCEPT !.pc = "opening", !.exp = Head(queue)[2], !.script = script] \in WorkStates
    BY <2>1, <2>2 DEF NoWork, WorkStates, WorkSteps
  <2> QED
    BY <1>0, <2>2, <2>3, <2>4
<1>12. ASSUME NEW j \in Jobs, LoadDefinition(j) PROVE ProcessTypes'
  <2> DEFINE row == exps[work[j].exp]
             pc == IF work[j].pc = "load" THEN "marking" ELSE "rescued"
             script == <<Experiment(row, IF work[j].pc = "load" THEN "RUNNING" ELSE "FAILED")>>
  <2>1. work[j] \in WorkStates /\ work[j].pc # "idle"
    BY <1>0, <1>12 DEF LoadDefinition
  <2>2. row \in ExperimentRows
    BY <1>0, <2>1 DEF RunsInv, JobInv, JobOk, WorkStates, StoreTypes
  <2>3. script \in Seq(Ops) /\ pc \in WorkSteps
    <3> HIDE DEF row
    <3> QED
      BY <2>2, OtherScripts DEF Statuses, WorkSteps
  <2>4. work' = [work EXCEPT ![j] = [work[j] EXCEPT !.row = row, !.pc = pc, !.script = script]]
        /\ UNCHANGED <<queue, caller, jobs>>
    BY <1>12 DEF LoadDefinition, Restrained, bounds
  <2> HIDE DEF row, pc, script
  <2>5. [work[j] EXCEPT !.row = row, !.pc = pc, !.script = script] \in WorkStates
    BY <2>1, <2>2, <2>3 DEF WorkStates
  <2> QED
    BY <1>0, <2>4, <2>5
<1>13. ASSUME NEW j \in Jobs, ReadRegistry(j) PROVE ProcessTypes'
  <2> DEFINE record == GetDataset(work[j].row.version)
  <2>1. record \in Records \cup {None} /\ work[j] \in WorkStates
    BY <1>13, ReaderIs DEF ReadRegistry, HoldsRow
  <2>2. work' = [work EXCEPT ![j] = [work[j] EXCEPT !.record = record, !.pc = "bars"]]
        /\ UNCHANGED <<queue, caller, jobs>>
    BY <1>13 DEF ReadRegistry, Restrained, bounds
  <2> HIDE DEF record
  <2>3. [work[j] EXCEPT !.record = record, !.pc = "bars"] \in WorkStates
    BY <2>1 DEF WorkStates, WorkSteps
  <2> QED
    BY <1>0, <2>2, <2>3
<1>14. ASSUME NEW j \in Jobs, ReadBars(j) PROVE ProcessTypes'
  <2>1. PICK c \in Contents \cup {None}, events \in Seq(QuietEvents) :
              /\ work' = [work EXCEPT ![j].pc = "closing", ![j].record = None,
                             ![j].script = IF events # <<>> THEN FailScript(work[j].row, events)
                                           ELSE CompleteScript(j, work[j].row, c)]
              /\ events = <<>> => c \in Contents /\ c = work[j].row.checksum
    BY <1>14, BarsRead
  <2> DEFINE script == IF events # <<>> THEN FailScript(work[j].row, events)
                       ELSE CompleteScript(j, work[j].row, c)
  <2>2. work[j] \in WorkStates /\ work[j].row \in ExperimentRows
    BY <1>14, ReaderIs DEF ReadBars, HoldsRow
  <2>3. script \in Seq(Ops)
    <3>1. CASE events # <<>>
      BY <2>2, <3>1, QuietTyped, FailScriptIs
    <3>2. CASE events = <<>>
      <4>1. WritesOf(CompleteScript(j, work[j].row, c), j, work[j].row, c)
        BY <2>1, <2>2, <3>2, CompleteScriptIs
      <4> QED
        BY <3>2, <4>1 DEF WritesOf
    <3> QED
      BY <3>1, <3>2
  <2>4. work' = [work EXCEPT ![j] =
                    [work[j] EXCEPT !.pc = "closing", !.record = None, !.script = script]]
        /\ UNCHANGED <<queue, caller, jobs>>
    BY <1>14, <2>1 DEF ReadBars, Restrained, bounds
  <2> HIDE DEF script
  <2>5. [work[j] EXCEPT !.pc = "closing", !.record = None, !.script = script] \in WorkStates
    BY <2>2, <2>3 DEF WorkStates, WorkSteps
  <2> QED
    BY <1>0, <2>4, <2>5
<1>15. ASSUME NEW j \in Jobs, WriteNext(j) PROVE ProcessTypes'
  <2>1. /\ work[j] \in WorkStates /\ Tail(work[j].script) \in Seq(Ops) /\ <<>> \in Seq(Ops)
        /\ work[j].pc \in {"opening", "marking", "closing", "rescue", "rescued"}
    BY <1>0, <1>15, WriterIs DEF WriteNext
  <2>2. [work[j] EXCEPT !.script = Tail(work[j].script)] \in WorkStates
    BY <2>1 DEF WorkStates
  <2>3. AfterScript(work[j].pc) # "idle" =>
           [work[j] EXCEPT !.script = <<>>, !.pc = AfterScript(work[j].pc)] \in WorkStates
    BY <2>1 DEF WorkStates, WorkSteps, AfterScript
  <2>4. AfterWrite(work[j]) \in WorkStates
    BY <2>2, <2>3, NoWorkTyped DEF AfterWrite
  <2>5. work' = [work EXCEPT ![j] = AfterWrite(work[j])] /\ UNCHANGED <<queue, caller, jobs>>
    BY <1>15 DEF WriteNext, Restrained, bounds
  <2> QED
    BY <1>0, <2>4, <2>5
<1>16. ASSUME NEW j \in Jobs, WriteRaises(j) PROVE ProcessTypes'
  <2>1. [work[j] EXCEPT !.pc = "rescue", !.script = Rescue] \in WorkStates
    BY <1>0, OtherScripts DEF WorkStates, WorkSteps
  <2> QED
    BY <1>0, <1>16, <2>1, NoWorkTyped DEF WriteRaises
<1>17. CASE Crash
  <2>1. <<>> \in Seq(Nat \X Experiments)
    OBVIOUS
  <2> QED
    BY <1>0, <1>17, <2>1, NoWorkTyped DEF Crash
<1> QED
  BY <1>1, <1>2, <1>3, <1>4, <1>5, <1>6, <1>7, <1>8, <1>9, <1>10, <1>11, <1>12, <1>13, <1>14,
     <1>15, <1>16, <1>17
  DEF Next, Create, Request, CallerStep, JobStep, Restrained, bounds, vars

-----------------------------------------------------------------------------
(***************************************************************************)
(* Writes: harmless ones, and those of a job that completes.                *)
(***************************************************************************)

\* Where a job stands after a write.
LEMMA WriteAdvances ==
    ASSUME RunsInv, NEW j \in Jobs, WriteNext(j)
    PROVE  /\ work[j].script # <<>>
           /\ work' = [work EXCEPT ![j] = AfterWrite(work[j])]
           /\ work'[j] = AfterWrite(work[j])
           /\ \A k \in Jobs : k # j => work'[k] = work[k]
           /\ Len(work[j].script) > 1 =>
                 /\ work'[j].script = Tail(work[j].script)
                 /\ work'[j].pc = work[j].pc /\ work'[j].row = work[j].row
                 /\ work'[j].exp = work[j].exp
           /\ ~(Len(work[j].script) > 1) =>
                 /\ work'[j].script = <<>>
                 /\ work[j].pc \in {"closing", "rescued"} => work'[j] = NoWork
                 /\ work[j].pc \in {"opening", "marking", "rescue"} =>
                       /\ work'[j].pc = AfterScript(work[j].pc)
                       /\ work'[j].row = work[j].row /\ work'[j].exp = work[j].exp
           /\ UNCHANGED <<registry, latest, bars, queue, caller, jobs>>
<1>1. work \in [Jobs -> WorkStates] /\ work[j].script # <<>>
  BY DEF RunsInv, TypeInv, ProcessTypes, WriteNext
<1>2. work[j].pc \in {"opening", "marking", "closing", "rescue", "rescued"}
  BY <1>1, WriterIs
<1>3. work' = [work EXCEPT ![j] = AfterWrite(work[j])]
      /\ UNCHANGED <<registry, latest, bars, queue, caller, jobs>>
  BY DEF WriteNext, Restrained, registryVars, bounds
<1>4. work'[j] = AfterWrite(work[j]) /\ \A k \in Jobs : k # j => work'[k] = work[k]
  BY <1>1, <1>3
<1>5. CASE Len(work[j].script) > 1
  <2>1. AfterWrite(work[j]) = [work[j] EXCEPT !.script = Tail(work[j].script)]
    BY <1>5 DEF AfterWrite
  <2> QED
    BY <1>1, <1>3, <1>4, <1>5, <2>1 DEF WorkStates
<1>6. CASE ~(Len(work[j].script) > 1)
  <2>1. AfterWrite(work[j]) = IF AfterScript(work[j].pc) = "idle" THEN NoWork
                       ELSE [work[j] EXCEPT !.script = <<>>, !.pc = AfterScript(work[j].pc)]
    BY <1>6 DEF AfterWrite
  <2>2. CASE work[j].pc \in {"closing", "rescued"}
    BY <1>1, <1>3, <1>4, <1>6, <2>1, <2>2 DEF AfterScript, NoWork
  <2>3. CASE work[j].pc \in {"opening", "marking", "rescue"}
    BY <1>1, <1>3, <1>4, <1>6, <2>1, <2>3 DEF AfterScript, WorkStates
  <2> QED
    BY <1>2, <2>2, <2>3
<1> QED
  BY <1>5, <1>6

\* A job with harmless writes left leaves the results alone, changes a status or the
\* status of the row that it read, and has harmless writes left.
LEMMA PlainWrite ==
    ASSUME RunsInv, NEW j \in Jobs, WriteNext(j), Plain(j)
    PROVE  /\ UNCHANGED <<trades, equity>>
           /\ \/ exps' = exps
              \/ /\ HoldsRow(j)
                 /\ \E status \in Statuses : SaveExperiment(work[j].exp, work[j].row, status)
           /\ \/ runs' = runs
              \/ \E status \in Statuses \ {"COMPLETED"} : UpdateStatus(work[j].exp, status, None)
           /\ Plain(j)'
<1> DEFINE s == work[j].script
           e == work[j].exp
           w == Head(s)
<1>1. /\ w \in Ops /\ w = s[1] /\ Len(s) \in Nat \ {0} /\ Len(Tail(s)) = Len(s) - 1
      /\ \A i \in 1..Len(Tail(s)) : Tail(s)[i] = s[i + 1]
  BY WriteAdvances, WriterIs
<1>2. Harmless(w, j)
  <2>1. 1 \in 1..Len(s)
    BY <1>1
  <2> QED
    BY <1>1, <2>1 DEF Plain
<1>3. Write(e, w)
  BY DEF WriteNext
<1>4. /\ UNCHANGED <<trades, equity>>
      /\ \/ exps' = exps
         \/ /\ HoldsRow(j)
            /\ \E status \in Statuses : SaveExperiment(work[j].exp, work[j].row, status)
      /\ \/ runs' = runs
         \/ \E status \in Statuses \ {"COMPLETED"} : UpdateStatus(work[j].exp, status, None)
  <2> HIDE DEF w, e
  <2>1. CASE w.op = "audit"
    BY <1>1, <1>3, <2>1, WriteIs
  <2>2. CASE w.op = "status" /\ w.status # "COMPLETED" /\ w.metrics = None
    <3>1. /\ w.status \in Statuses /\ UpdateStatus(e, w.status, None)
          /\ UNCHANGED <<exps, trades, equity>>
      BY <1>1, <1>3, <2>2, WriteIs
    <3> QED
      BY <2>2, <3>1 DEF e
  <2>3. CASE w.op = "experiment" /\ w.row = work[j].row /\ HoldsRow(j)
    <3>1. w.status \in Statuses /\ SaveExperiment(e, work[j].row, w.status)
          /\ UNCHANGED <<runs, trades, equity>>
      BY <1>1, <1>3, <2>3, WriteIs
    <3> QED
      BY <2>3, <3>1 DEF e
  <2> QED
    BY <1>2, <2>1, <2>2, <2>3 DEF Harmless
<1>5. Plain(j)'
  <2>1. CASE Len(s) > 1
    <3>1. work'[j].script = Tail(s) /\ work'[j].row = work[j].row /\ HoldsRow(j)' = HoldsRow(j)
      BY <2>1, WriteAdvances DEF HoldsRow
    <3>2. ASSUME NEW i \in 1..Len(Tail(s)) PROVE Harmless(work[j].script[i], j)'
      <4>1. i + 1 \in 1..Len(s)
        BY <1>1
      <4>2. Harmless(s[i + 1], j)
        BY <4>1 DEF Plain
      <4>3. Harmless(Tail(s)[i], j)
        BY <1>1, <4>2
      <4> QED
        BY <3>1, <4>3 DEF Harmless
    <3> QED
      BY <3>1, <3>2 DEF Plain
  <2>2. CASE ~(Len(s) > 1)
    <3>1. work'[j].script = <<>>
      BY <2>2, WriteAdvances
    <3> QED
      BY <3>1 DEF Plain
  <2> QED
    BY <2>1, <2>2
<1> QED
  BY <1>4, <1>5

\* What is left of the script of a job that completes.
LEMMA ScriptLeft ==
    ASSUME RunsInv, NEW j \in Jobs, work[j].pc = "closing", NEW c \in Contents,
           NEW t \in 0..TradesOf[c], NEW q \in 0..CountOf[c], NEW d \in {0, 1 + t + q},
           NEW all, all = CompleteScript(j, work[j].row, c),
           Written(j, c, d, t, q)
    PROVE  /\ Head(work[j].script) = all[d + 1]
           /\ Tail(work[j].script) = SubSeq(all, d + 2, TradesOf[c] + CountOf[c] + 4)
           /\ Len(work[j].script) > 1
<1> DEFINE N == TradesOf[c] + CountOf[c] + 4
<1>1. work[j].row \in ExperimentRows
  BY ReaderIs DEF HoldsRow
<1>2. TradesOf[c] \in Nat /\ CountOf[c] \in Nat /\ all \in Seq(Ops) /\ Len(all) = N
  <2>1. WritesOf(all, j, work[j].row, c)
    BY <1>1, CompleteScriptIs
  <2> QED
    BY <2>1, ContentsAssumption, DefinitionAssumption DEF WritesOf
<1>3. d + 1 \in 1..N /\ N \in (d + 1)..N /\ N - (d + 1) + 1 > 1 /\ d + 1 <= N
      /\ (d + 1) + 1 = d + 2
  <2>1. t \in Nat /\ q \in Nat /\ t <= TradesOf[c] /\ q <= CountOf[c]
    BY <1>2
  <2>2. d \in Nat /\ d <= 1 + t + q
    BY <2>1
  <2>3. d \in Nat /\ N \in Nat /\ d + 3 <= N
    BY <1>2, <2>1, <2>2
  <2> QED
    BY <2>3
<1>4. work[j].script = SubSeq(all, d + 1, N)
  BY DEF Written
<1> HIDE DEF N
<1>5. Head(SubSeq(all, d + 1, N)) = all[d + 1]
      /\ Tail(SubSeq(all, d + 1, N)) = SubSeq(all, (d + 1) + 1, N)
  BY <1>2, <1>3, HeadTailOfSubSeq
<1>6. Len(SubSeq(all, d + 1, N)) = N - (d + 1) + 1
  <2>1. d + 1 \in Int /\ N \in Int
    BY <1>2, <1>3
  <2>2. \A i \in (d + 1)..N : all[i] \in Ops
    <3>1. \A i \in (d + 1)..N : i \in 1..Len(all)
      BY <1>2, <1>3
    <3> QED
      BY <1>2, <3>1, ElementOfSeq
  <2> QED
    BY <1>3, <2>1, <2>2, SubSeqProperties
<1> QED
  BY <1>3, <1>4, <1>5, <1>6 DEF N

\* A job that completes writes an event, its trades in order, its equity points in
\* order, and then the status; after that it has harmless writes left.
LEMMA CompletingWrite ==
    ASSUME RunsInv, NEW j \in Jobs, WriteNext(j), ~Plain(j)
    PROVE  /\ work[j].pc = "closing" /\ exps' = exps
           /\ \E c \in Contents :
              /\ c = work[j].row.checksum
              /\ \/ /\ \E events \in Seq(QuietEvents) :
                          audit' = [audit EXCEPT ![work[j].exp] = @ \o events]
                    /\ UNCHANGED <<runs, trades, equity>> /\ Completing(j)'
                 \/ /\ \E n \in Nat :
                          trades' = [trades EXCEPT ![work[j].exp] = Append(@, TradeRow(j, n, c))]
                    /\ UNCHANGED <<runs, audit, equity>> /\ Completing(j)'
                 \/ /\ \E n \in Nat :
                          equity' = [equity EXCEPT ![work[j].exp] = Append(@, TradeRow(j, n, c))]
                    /\ UNCHANGED <<runs, audit, trades>> /\ Completing(j)'
                 \/ /\ UpdateStatus(work[j].exp, "COMPLETED", [job |-> j, bars |-> c])
                    /\ UNCHANGED <<audit, trades, equity>>
                    /\ work'[j].script
                          = <<Audit(<<"JOB_COMPLETED">>), Experiment(work[j].row, "COMPLETED")>>
                    /\ Recorded(trades[work[j].exp], j, c, TradesOf[c])
                    /\ Recorded(equity[work[j].exp], j, c, CountOf[c])
                    /\ Plain(j)'
<1>1. Completing(j)
  BY DEF RunsInv, ScriptInv
<1>2. work[j].pc = "closing"
  BY <1>1 DEF Completing
<1>3. PICK c \in Contents :
         /\ c = work[j].row.checksum
         /\ \E t \in 0..TradesOf[c], q \in 0..CountOf[c] :
               \E d \in {0, 1 + t + q} : Written(j, c, d, t, q)
  BY <1>1 DEF Completing
<1>4a. PICK t \in 0..TradesOf[c], q \in 0..CountOf[c] :
         \E d \in {0, 1 + t + q} : Written(j, c, d, t, q)
  BY <1>3
<1>4. PICK d \in {0, 1 + t + q} : Written(j, c, d, t, q)
  BY <1>4a
<1> DEFINE T == TradesOf[c]
           Q == CountOf[c]
           N == T + Q + 4
           e == work[j].exp
           w == Head(work[j].script)
<1>5a. work[j].row \in ExperimentRows
  BY <1>2, ReaderIs DEF HoldsRow
<1>5b. PICK all : all = CompleteScript(j, work[j].row, c)
  OBVIOUS
<1>5. /\ work[j] \in WorkStates /\ work[j].row \in ExperimentRows /\ e \in Experiments
      /\ trades[e] \in Seq(ResultRows) /\ equity[e] \in Seq(ResultRows)
      /\ trades \in [Experiments -> Seq(ResultRows)] /\ equity \in [Experiments -> Seq(ResultRows)]
  BY <1>2, ReaderIs DEF HoldsRow, RunsInv, TypeInv, StoreTypes
<1>6a. T \in Nat /\ Q \in Nat
  BY ContentsAssumption, DefinitionAssumption
<1>6b. t \in Nat /\ q \in Nat /\ t <= T /\ q <= Q /\ d \in Nat
  BY <1>6a
<1>6. /\ all \in Seq(Ops) /\ Len(all) = N
      /\ \E events \in Seq(QuietEvents) : all[1] = Audit(events)
      /\ \A k \in 1..T : all[1 + k] = [op |-> "trade", row |-> TradeRow(j, k, c)]
      /\ \A k \in 1..Q : all[1 + T + k] = [op |-> "equity", row |-> TradeRow(j, k, c)]
      /\ all[T + Q + 2] = Status("COMPLETED", [job |-> j, bars |-> c])
      /\ all[T + Q + 3] = Audit(<<"JOB_COMPLETED">>)
      /\ all[T + Q + 4] = Experiment(work[j].row, "COMPLETED")
  <2>1. WritesOf(all, j, work[j].row, c)
    BY <1>5a, <1>5b, CompleteScriptIs
  <2> QED
    BY <2>1 DEF WritesOf
<1>7. /\ w = all[d + 1] /\ Tail(work[j].script) = SubSeq(all, d + 2, N)
      /\ Len(work[j].script) > 1
  BY <1>2, <1>4, <1>5b, ScriptLeft
<1>8. w \in Ops /\ Write(e, w)
  BY WriteAdvances, WriterIs DEF WriteNext
<1>9. /\ work'[j].script = SubSeq(all, d + 2, N)
      /\ work'[j].pc = "closing" /\ work'[j].row = work[j].row /\ work'[j].exp = e
  BY <1>2, <1>7, WriteAdvances
<1> HIDE DEF w, e, N, T, Q
<1>10. /\ \/ d = 0 /\ t = 0 /\ q = 0
          \/ d = 1 + t + q /\ (q > 0 => t = T)
       /\ Recorded(trades[e], j, c, t) /\ Recorded(equity[e], j, c, q)
  BY <1>4 DEF Written, e, T
\* The next position, once something has been written.
<1>11. ASSUME NEW t2 \in 0..T, NEW q2 \in 0..Q, d + 1 = 1 + t2 + q2, q2 > 0 => t2 = T,
              Recorded(trades'[e], j, c, t2), Recorded(equity'[e], j, c, q2)
       PROVE  Completing(j)'
  <2>1. (d + 1) + 1 = d + 2
    BY <1>10
  <2>2. Written(j, c, d + 1, t2, q2)'
    <3>1. work'[j].script
             = SubSeq(CompleteScript(j, work'[j].row, c), d + 1 + 1, TradesOf[c] + CountOf[c] + 4)
      BY <1>5b, <1>9, <2>1 DEF N, T, Q
    <3>2. t2 <= TradesOf[c] /\ q2 <= CountOf[c]
      BY <1>6a, <1>11 DEF T, Q
    <3>3. d + 1 = 1 + t2 + q2 /\ (q2 > 0 => t2 = TradesOf[c])
      BY <1>11 DEF T
    <3>4. Recorded(trades'[work'[j].exp], j, c, t2) /\ Recorded(equity'[work'[j].exp], j, c, q2)
      BY <1>9, <1>11
    <3> QED
      BY <3>1, <3>2, <3>3, <3>4 DEF Written
  <2>3. \E y \in {0, 1 + t2 + q2} : Written(j, c, y, t2, q2)'
    BY <1>11, <2>2
  <2>4. \E x \in 0..TradesOf[c], z \in 0..CountOf[c] :
           \E y \in {0, 1 + x + z} : Written(j, c, y, x, z)'
    BY <2>3 DEF T, Q
  <2> QED
    BY <1>3, <1>9, <2>4 DEF Completing
<1>12. CASE d = 0
  <2>0. PICK events \in Seq(QuietEvents) : all[1] = Audit(events)
    BY <1>6
  <2>1. w.op = "audit" /\ w.events = events /\ t = 0 /\ q = 0
    <3>1. w = Audit(events) /\ t = 0 /\ q = 0
      BY <1>6a, <1>6b, <1>7, <1>10, <1>12, <2>0
    <3> QED
      BY <3>1 DEF Audit
  <2>2. /\ UNCHANGED <<exps, runs, trades, equity>>
        /\ audit' = [audit EXCEPT ![e] = @ \o events]
    BY <1>8, <2>1, WriteIs
  <2>3. Completing(j)'
    BY <1>6a, <1>6b, <1>10, <1>11, <1>12, <2>1, <2>2
  <2> QED
    BY <1>2, <1>3, <2>2, <2>3 DEF e
<1>13. CASE d = 1 + t + q /\ t < T
  <2>1. q = 0 /\ t + 1 \in 1..T /\ d + 1 = 1 + (t + 1)
    BY <1>6a, <1>6b, <1>10, <1>13
  <2>2. w = [op |-> "trade", row |-> TradeRow(j, t + 1, c)]
    BY <1>6, <1>6a, <1>6b, <1>7, <2>1
  <2>3. /\ trades' = [trades EXCEPT ![e] = Append(@, TradeRow(j, t + 1, c))]
        /\ UNCHANGED <<exps, runs, audit, equity>>
    BY <1>8, <2>2, WriteIs
  <2>4. Recorded(trades'[e], j, c, t + 1) /\ Recorded(equity'[e], j, c, 0)
    BY <1>5, <1>6a, <1>6b, <1>10, <2>1, <2>3, NextRow DEF e
  <2>5. Completing(j)'
    BY <1>6a, <1>6b, <1>11, <2>1, <2>4
  <2>6. t + 1 \in Nat
    BY <1>6b
  <2> QED
    BY <1>2, <1>3, <2>3, <2>5, <2>6 DEF e
<1>14. CASE d = 1 + t + q /\ t = T /\ q < Q
  <2>1. q + 1 \in 1..Q /\ d + 1 = 1 + T + (q + 1)
    BY <1>6a, <1>6b, <1>14
  <2>2. w = [op |-> "equity", row |-> TradeRow(j, q + 1, c)]
    BY <1>6, <1>6a, <1>6b, <1>7, <2>1
  <2>3. /\ equity' = [equity EXCEPT ![e] = Append(@, TradeRow(j, q + 1, c))]
        /\ UNCHANGED <<exps, runs, audit, trades>>
    BY <1>8, <2>2, WriteIs
  <2>4. Recorded(trades'[e], j, c, t) /\ Recorded(equity'[e], j, c, q + 1)
    BY <1>5, <1>6a, <1>6b, <1>10, <2>3, NextRow DEF e
  <2>5. Completing(j)'
    BY <1>6a, <1>6b, <1>11, <1>14, <2>1, <2>4
  <2>6. q + 1 \in Nat
    BY <1>6b
  <2> QED
    BY <1>2, <1>3, <2>3, <2>5, <2>6 DEF e
<1>15. CASE d = 1 + t + q /\ t = T /\ q = Q
  <2>1. d + 1 = T + Q + 2 /\ d + 2 = T + Q + 3
    BY <1>6a, <1>6b, <1>15
  <2>2. w = Status("COMPLETED", [job |-> j, bars |-> c])
    BY <1>6, <1>6a, <1>6b, <1>7, <2>1
  <2>3. /\ UpdateStatus(e, "COMPLETED", [job |-> j, bars |-> c])
        /\ UNCHANGED <<exps, audit, trades, equity>>
    <3> DEFINE m == [job |-> j, bars |-> c]
    <3>1. w.op = "status" /\ w.status = "COMPLETED" /\ w.metrics = m
      BY <2>2 DEF Status
    <3> HIDE DEF m
    <3>2. w.op # "audit"
      BY <3>1
    <3>3. UpdateStatus(e, w.status, w.metrics) /\ UNCHANGED <<exps, audit, trades, equity>>
      BY <1>8, <3>1, <3>2, WriteIs
    <3> QED
      BY <3>1, <3>3 DEF m
  <2>4. /\ Plain(j)'
        /\ work'[j].script
              = <<Audit(<<"JOB_COMPLETED">>), Experiment(work[j].row, "COMPLETED")>>
    <3> DEFINE left == SubSeq(all, d + 2, N)
    <3>1. d + 2 \in Int /\ N \in Int /\ N - (d + 2) + 1 = 2 /\ d + 2 <= N
          /\ (d + 2) + 1 - 1 = T + Q + 3 /\ (d + 2) + 2 - 1 = T + Q + 4
      BY <1>6a, <1>6b, <2>1 DEF N
    <3>2. \A i \in (d + 2)..N : all[i] \in Ops
      <4>1. \A i \in (d + 2)..N : i \in 1..Len(all)
        BY <1>6, <1>6a, <1>6b, <2>1 DEF N
      <4> QED
        BY <1>6, <4>1, ElementOfSeq
    <3>3. Len(left) = N - (d + 2) + 1 /\ left \in Seq(Ops)
      BY <3>1, <3>2, SubSeqProperties
    <3>3a. \A i \in 1..(N - (d + 2) + 1) : left[i] = all[(d + 2) + i - 1]
      BY <3>1, <3>2, SubSeqProperties
    <3>4. Len(left) = 2 /\ left[1] = all[T + Q + 3] /\ left[2] = all[T + Q + 4]
      BY <3>1, <3>3, <3>3a
    <3>4a. left = <<left[1], left[2]>>
      <4> HIDE DEF left
      <4> QED
        BY <3>3, <3>4, PairIs
    <3>5. /\ left[1] = Audit(<<"JOB_COMPLETED">>) /\ left[1].op = "audit"
          /\ left[2] = Experiment(work[j].row, "COMPLETED")
      BY <1>6, <3>4 DEF Audit
    <3> HIDE DEF left
    <3>6. work'[j].script = left
      BY <1>9 DEF left
    <3>7. left[2].op = "experiment" /\ left[2].row = work[j].row
      BY <3>5 DEF Experiment
    <3>8. HoldsRow(j)'
      BY <1>9 DEF HoldsRow
    <3>9. 1..2 = {1, 2}
      OBVIOUS
    <3>10. Plain(j)'
      BY <1>9, <3>4, <3>5, <3>6, <3>7, <3>8, <3>9 DEF Plain, Harmless
    <3> QED
      BY <3>4a, <3>5, <3>6, <3>10
  <2>5. Recorded(trades[e], j, c, T) /\ Recorded(equity[e], j, c, Q)
    BY <1>10, <1>15
  <2> QED
    BY <1>2, <1>3, <2>3, <2>4, <2>5 DEF e, T, Q
<1>16. \/ d = 0
       \/ d = 1 + t + q /\ t < T
       \/ d = 1 + t + q /\ t = T /\ q < Q
       \/ d = 1 + t + q /\ t = T /\ q = Q
  BY <1>6a, <1>6b, <1>10
<1> QED
  BY <1>12, <1>13, <1>14, <1>15, <1>16

-----------------------------------------------------------------------------
(***************************************************************************)
(* The definitions and the runs: once there, they stay, and a definition    *)
(* keeps its checksum.                                                      *)
(***************************************************************************)

Kept ==
    \A x \in Experiments :
        /\ exps[x] # None => exps'[x] # None /\ exps'[x].checksum = exps[x].checksum
        /\ runs[x] # None => runs'[x] # None

\* A row written back under another status.
LEMMA SavedRowKept ==
    ASSUME StoreTypes, NEW e \in Experiments, NEW row \in ExperimentRows, NEW status \in Statuses,
           row.checksum = exps[e].checksum, SaveExperiment(e, row, status)
    PROVE  \A x \in Experiments :
              exps[x] # None => exps'[x] # None /\ exps'[x].checksum = exps[x].checksum
<1> DEFINE saved == [row EXCEPT !.status = status]
<1>1. saved # None /\ saved.checksum = row.checksum
  BY RowWrittenBack
<1>2. exps' = [exps EXCEPT ![e] = saved]
  BY DEF SaveExperiment
<1> HIDE DEF saved
<1> QED
  BY <1>1, <1>2 DEF StoreTypes

\* A status written to the run of an experiment.
LEMMA UpdatedRunKept ==
    ASSUME StoreTypes, NEW e \in Experiments, runs[e] # None, NEW status \in Statuses,
           NEW metrics \in Metrics \cup {None}, UpdateStatus(e, status, metrics)
    PROVE  \A x \in Experiments : runs[x] # None => runs'[x] # None
<1>1. runs'[e] # None
  BY StatusUpdated, RowAssumption
<1>2. \A x \in Experiments : x # e => runs'[x] = runs[x]
  BY StatusUpdated
<1> QED
  BY <1>1, <1>2

\* A write of a job keeps the definitions and the runs.
LEMMA WriteKeeps ==
    ASSUME RunsInv, NEW j \in Jobs, WriteNext(j)
    PROVE  Kept
<1>1. /\ StoreTypes /\ work[j].exp \in Experiments /\ runs[work[j].exp] # None
  BY WriteAdvances, WriterIs DEF RunsInv, TypeInv
<1>2. CASE Plain(j)
  <2>1. \A x \in Experiments :
           exps[x] # None => exps'[x] # None /\ exps'[x].checksum = exps[x].checksum
    <3>1. CASE exps' = exps
      BY <3>1
    <3>2. CASE /\ HoldsRow(j)
               /\ \E status \in Statuses : SaveExperiment(work[j].exp, work[j].row, status)
      BY <1>1, <3>2, ReaderIs, SavedRowKept
    <3> QED
      BY <1>2, <3>1, <3>2, PlainWrite
  <2>2. \A x \in Experiments : runs[x] # None => runs'[x] # None
    <3>1. CASE runs' = runs
      BY <3>1
    <3>2. CASE \E status \in Statuses \ {"COMPLETED"} : UpdateStatus(work[j].exp, status, None)
      <4>1. PICK status \in Statuses : UpdateStatus(work[j].exp, status, None)
        BY <3>2
      <4>2. None \in Metrics \cup {None}
        OBVIOUS
      <4> QED
        BY <1>1, <4>1, <4>2, UpdatedRunKept
    <3> QED
      BY <1>2, <3>1, <3>2, PlainWrite
  <2> QED
    BY <2>1, <2>2 DEF Kept
<1>3. CASE ~Plain(j)
  <2>1. exps' = exps
    BY <1>3, CompletingWrite
  <2>2. \/ runs' = runs
        \/ \E c \in Contents : UpdateStatus(work[j].exp, "COMPLETED", [job |-> j, bars |-> c])
    BY <1>3, CompletingWrite
  <2>3. \A x \in Experiments : runs[x] # None => runs'[x] # None
    <3>1. CASE runs' = runs
      BY <3>1
    <3>2. ASSUME NEW c \in Contents, UpdateStatus(work[j].exp, "COMPLETED", [job |-> j, bars |-> c])
          PROVE  \A x \in Experiments : runs[x] # None => runs'[x] # None
      <4> DEFINE m == [job |-> j, bars |-> c]
                 done == "COMPLETED"
      <4>1. m \in Metrics \cup {None} /\ done \in Statuses /\ UpdateStatus(work[j].exp, done, m)
        BY <3>2 DEF Metrics, Statuses
      <4> HIDE DEF m, done
      <4> QED
        BY <1>1, <4>1, UpdatedRunKept
    <3> QED
      BY <2>2, <3>1, <3>2
  <2> QED
    BY <2>1, <2>3 DEF Kept
<1> QED
  BY <1>2, <1>3

\* Every step does.
LEMMA RowsKept == RunsInv /\ [Next]_vars => Kept
<1> SUFFICES ASSUME RunsInv, [Next]_vars PROVE Kept
  OBVIOUS
<1>0. StoreTypes /\ ProcessTypes
  BY DEF RunsInv, TypeInv
<1>1. CASE UNCHANGED <<exps, runs>>
  BY <1>1 DEF Kept
<1>2. ASSUME NEW e \in Experiments, Create(e) PROVE Kept
  BY <1>0, <1>2 DEF Create, Kept, StoreTypes
<1>3. ASSUME NEW c \in Callers, SavePending(c) PROVE Kept
  <2>1. /\ caller[c].exp \in Experiments /\ caller[c].row \in ExperimentRows
        /\ caller[c].row.checksum = exps[caller[c].exp].checksum
    BY <1>0, <1>3, RequestIs DEF SavePending, RunsInv, CallerInv, Knows
  <2>2. "PENDING" \in Statuses
    BY DEF Statuses
  <2>3. \E status \in Statuses : SaveExperiment(caller[c].exp, caller[c].row, status)
    BY <1>3, <2>2 DEF SavePending
  <2> QED
    BY <1>0, <1>3, <2>1, <2>3, SavedRowKept DEF SavePending, Kept
<1>4. ASSUME NEW c \in Callers, EnsureDefinition(c) PROVE Kept
  BY <1>0, <1>4 DEF EnsureDefinition, Kept, StoreTypes
<1>5. ASSUME NEW c \in Callers, SavePendingRun(c) PROVE Kept
  <2>1. [status |-> "PENDING", metrics |-> None] # None
    BY RowAssumption DEF RunRows, Statuses
  <2> QED
    BY <1>0, <1>5, <2>1 DEF SavePendingRun, SaveRun, Kept, StoreTypes
<1>6. ASSUME NEW j \in Jobs, WriteNext(j) PROVE Kept
  BY <1>6, WriteKeeps
<1> QED
  BY ZenonT(30), <1>1, <1>2, <1>3, <1>4, <1>5, <1>6
  DEF Next, Request, BeginSubmit, BeginDirect, CallerStep, CheckExisting, Resolve, Dispatch,
      RequestRaises, JobStep, TakeJob, LoadDefinition, ReadRegistry, ReadBars, WriteRaises, Crash,
      store, vars

-----------------------------------------------------------------------------
(***************************************************************************)
(* Requests, the queue and the jobs.                                        *)
(***************************************************************************)

\* A request knows at every step what the next one relies on: another request or a job
\* never takes a definition or a run away.
LEMMA CallerInvStep == RunsInv /\ [Next]_vars => CallerInv'
<1> SUFFICES ASSUME RunsInv, [Next]_vars, NEW k \in Callers PROVE Knows(k)'
  BY DEF CallerInv
<1>0. ProcessTypes /\ StoreTypes /\ Kept /\ Knows(k)
  BY RowsKept DEF RunsInv, TypeInv, CallerInv
<1>1. CASE caller'[k] = caller[k]
  <2>1. caller[k].pc # "idle" => caller[k].exp \in Experiments
    BY <1>0, RequestIs
  <2> QED
    BY <1>0, <1>1, <2>1 DEF Knows, Kept
<1>2. CASE caller'[k] = IdleCaller
  BY <1>2 DEF Knows, IdleCaller
<1>3. ASSUME NEW c \in Callers, NEW e \in Experiments, NEW i \in BOOLEAN, BeginSubmit(c, e, i)
      PROVE  Knows(k)'
  <2>1. CASE k = c
    BY <1>0, <1>3, <2>1 DEF BeginSubmit, store, Knows, ProcessTypes
  <2> QED
    BY <1>0, <1>1, <1>3, <2>1 DEF BeginSubmit, ProcessTypes
<1>4. ASSUME NEW c \in Callers, NEW e \in Experiments, BeginDirect(c, e) PROVE Knows(k)'
  <2>1. CASE k = c
    BY <1>0, <1>4, <2>1 DEF BeginDirect, Knows, ProcessTypes
  <2> QED
    BY <1>0, <1>1, <1>4, <2>1 DEF BeginDirect, ProcessTypes
<1>5. ASSUME NEW c \in Callers, CheckExisting(c) PROVE Knows(k)'
  <2>1. CASE k = c /\ caller'[c] = [caller[c] EXCEPT !.pc = "savePending"]
    <3>1. /\ caller[c].pc = "check" /\ caller[c].exp \in Experiments
          /\ caller'[c].pc = "savePending" /\ caller'[c].exp = caller[c].exp
          /\ caller'[c].row = caller[c].row /\ UNCHANGED exps
      BY <1>0, <1>5, <2>1, RequestIs DEF CheckExisting, store
    <3> QED
      BY <1>0, <2>1, <3>1 DEF Knows
  <2> QED
    BY <1>0, <1>1, <1>2, <1>5, <2>1 DEF CheckExisting, ProcessTypes
<1>6. ASSUME NEW c \in Callers, SavePending(c) PROVE Knows(k)'
  <2>1. CASE k = c
    <3>1. /\ caller[c].pc = "savePending" /\ caller[c].exp \in Experiments
          /\ caller'[c].pc = "saveRun" /\ caller'[c].exp = caller[c].exp
      BY <1>0, <1>6, RequestIs DEF SavePending, ProcessTypes
    <3> QED
      BY <1>0, <2>1, <3>1 DEF Knows, Kept
  <2> QED
    BY <1>0, <1>1, <1>6, <2>1 DEF SavePending, ProcessTypes
<1>7. ASSUME NEW c \in Callers, Resolve(c) PROVE Knows(k)'
  <2>1. CASE k = c
    <3>1. PICK row \in ExperimentRows :
             caller' = [caller EXCEPT ![c].pc = "ensure", ![c].row = row]
      BY <1>7, ResolvedRow DEF RunsInv, TypeInv
    <3>2. caller'[k].pc = "ensure" /\ caller'[k].row = row
      BY <1>0, <1>7, <2>1, <3>1, RequestIs DEF Resolve, ProcessTypes
    <3> QED
      BY <3>1, <3>2, RowAssumption DEF Knows
  <2> QED
    BY <1>0, <1>1, <1>7, <2>1 DEF Resolve, ProcessTypes
<1>8. ASSUME NEW c \in Callers, EnsureDefinition(c) PROVE Knows(k)'
  <2>1. CASE k = c
    <3>1. /\ caller[c].pc = "ensure" /\ caller[c].exp \in Experiments
          /\ caller'[c].pc = "saveRun" /\ caller'[c].exp = caller[c].exp
          /\ exps'[caller[c].exp] = IF exps[caller[c].exp] = None THEN caller[c].row
                                    ELSE exps[caller[c].exp]
      BY <1>0, <1>8, RequestIs DEF EnsureDefinition, ProcessTypes, StoreTypes
    <3>2. caller[c].row # None
      BY <1>0, <2>1, <3>1 DEF Knows
    <3> QED
      BY <2>1, <3>1, <3>2 DEF Knows
  <2> QED
    BY <1>0, <1>1, <1>8, <2>1 DEF EnsureDefinition, ProcessTypes
<1>9. ASSUME NEW c \in Callers, SavePendingRun(c) PROVE Knows(k)'
  <2>1. CASE k = c
    <3>1. /\ caller[c].pc = "saveRun" /\ caller[c].exp \in Experiments
          /\ caller'[c].pc = "dispatch" /\ caller'[c].exp = caller[c].exp
          /\ runs'[caller[c].exp] = [status |-> "PENDING", metrics |-> None]
          /\ UNCHANGED exps
      BY <1>0, <1>9, RequestIs DEF SavePendingRun, SaveRun, ProcessTypes, StoreTypes
    <3>2. [status |-> "PENDING", metrics |-> None] # None
      BY RowAssumption DEF RunRows, Statuses
    <3> QED
      BY <1>0, <2>1, <3>1, <3>2 DEF Knows
  <2> QED
    BY <1>0, <1>1, <1>9, <2>1 DEF SavePendingRun, ProcessTypes
<1>10. ASSUME NEW c \in Callers, Dispatch(c) PROVE Knows(k)'
  BY <1>0, <1>1, <1>2, <1>10 DEF Dispatch, ProcessTypes
<1>11. ASSUME NEW c \in Callers, RequestRaises(c) PROVE Knows(k)'
  BY <1>0, <1>1, <1>2, <1>11 DEF RequestRaises, ProcessTypes
<1>12. CASE Crash
  BY <1>2, <1>12 DEF Crash
<1>13. CASE UNCHANGED caller
  BY <1>1, <1>13
<1> QED
  BY ZenonT(30), <1>3, <1>4, <1>5, <1>6, <1>7, <1>8, <1>9, <1>10, <1>11, <1>12, <1>13
  DEF Next, Create, Request, CallerStep, JobStep, TakeJob, LoadDefinition, ReadRegistry, ReadBars,
      WriteNext, WriteRaises, vars

\* Only a thread that takes a job from the queue begins it.
LEMMA JobsBegin ==
    ASSUME RunsInv, [Next]_vars, NEW j \in Jobs, work[j].pc = "idle"
    PROVE  work'[j].pc = "idle" \/ TakeJob(j)
<1>0. work \in [Jobs -> WorkStates] /\ work[j].script = <<>>
  BY DEF RunsInv, TypeInv, ProcessTypes, JobInv, JobOk, NoWork
<1>1. CASE work' = work
  BY <1>1
<1>2. ASSUME NEW k \in Jobs, LoadDefinition(k) PROVE work'[j].pc = "idle"
  BY <1>0, <1>2 DEF LoadDefinition
<1>3. ASSUME NEW k \in Jobs, ReadRegistry(k) PROVE work'[j].pc = "idle"
  BY <1>0, <1>3 DEF ReadRegistry
<1>4. ASSUME NEW k \in Jobs, ReadBars(k) PROVE work'[j].pc = "idle"
  <2>1. k # j
    BY <1>4 DEF ReadBars
  <2>2. work'[j] = work[j]
    BY <1>0, <1>4, <2>1 DEF ReadBars
  <2> QED
    BY <2>2
<1>5. ASSUME NEW k \in Jobs, WriteNext(k) PROVE work'[j].pc = "idle"
  BY <1>0, <1>5, WriteAdvances
<1>6. ASSUME NEW k \in Jobs, WriteRaises(k) PROVE work'[j].pc = "idle"
  BY <1>0, <1>6 DEF WriteRaises
<1>7. ASSUME NEW k \in Jobs, k # j, TakeJob(k) PROVE work'[j].pc = "idle"
  BY <1>0, <1>7 DEF TakeJob
<1>8. CASE Crash
  BY <1>8 DEF Crash, NoWork
<1> QED
  BY <1>1, <1>2, <1>3, <1>4, <1>5, <1>6, <1>7, <1>8
  DEF Next, Create, Request, BeginSubmit, BeginDirect, CallerStep, CheckExisting, SavePending,
      Resolve, EnsureDefinition, SavePendingRun, Dispatch, RequestRaises, JobStep, vars

\* The number of a job is new when it is dispatched, and leaves the queue for good.
LEMMA QueueInvStep == RunsInv /\ [Next]_vars => QueueInv'
<1> SUFFICES ASSUME RunsInv, [Next]_vars PROVE QueueInv'
  OBVIOUS
<1>0. /\ queue \in Seq(Nat \X Experiments) /\ work \in [Jobs -> WorkStates] /\ jobs \in Nat /\ Kept
      /\ Len(queue) \in Nat /\ \A i \in 1..Len(queue) : queue[i] \in Nat \X Experiments
  BY RowsKept, LenProperties, ElementOfSeq DEF RunsInv, TypeInv, ProcessTypes
<1>1. /\ \A i \in 1..Len(queue) : Waits(i)
      /\ \A i, k \in 1..Len(queue) : queue[i][1] = queue[k][1] => i = k
      /\ \A j \in Jobs : j > jobs => work[j].pc = "idle"
  BY DEF RunsInv, QueueInv
<1>3. CASE UNCHANGED <<queue, jobs>> /\ \A j \in Jobs : ~TakeJob(j)
  <2>1. \A j \in Jobs : work[j].pc = "idle" => work'[j].pc = "idle"
    BY <1>3, JobsBegin
  <2>2. \A i \in 1..Len(queue) : Waits(i)'
    BY <1>0, <1>1, <1>3, <2>1 DEF Waits, Kept
  <2> QED
    BY <1>1, <1>3, <2>1, <2>2 DEF QueueInv
<1>4. ASSUME NEW c \in Callers, Dispatch(c) PROVE QueueInv'
  <2> DEFINE entry == <<jobs + 1, caller[c].exp>>
             last == Len(queue) + 1
  <2>1. /\ caller[c].exp \in Experiments /\ exps[caller[c].exp] # None
        /\ runs[caller[c].exp] # None
    BY <1>4, RequestIs DEF Dispatch, RunsInv, TypeInv, CallerInv, Knows
  <2>2. entry \in Nat \X Experiments /\ queue' = Append(queue, entry) /\ jobs' = jobs + 1
        /\ UNCHANGED <<work, exps, runs>>
    BY <1>0, <1>4, <2>1 DEF Dispatch, store
  <2>3. /\ Len(queue') = last
        /\ \A i \in 1..Len(queue) : queue'[i] = queue[i]
        /\ queue'[last] = entry
    BY <1>0, <2>2, AppendProperties
  <2>4. queue'[last][1] = jobs + 1 /\ queue'[last][2] = caller[c].exp
    BY <2>3
  <2>5. jobs + 1 \in Jobs => work[jobs + 1].pc = "idle"
    BY <1>0, <1>1 DEF Jobs
  <2>6. ASSUME NEW i \in 1..Len(queue') PROVE i \in 1..Len(queue) \/ i = last
    BY <1>0, <2>3
  <2> HIDE DEF entry, last
  <2>7. ASSUME NEW i \in 1..Len(queue) PROVE queue'[i][1] <= jobs + 1 /\ queue'[i][1] # jobs + 1
    <3>1. queue[i][1] <= jobs /\ queue[i][1] \in Nat
      BY <1>0, <1>1 DEF Waits
    <3> QED
      BY <1>0, <2>3, <3>1
  <2>8. ASSUME NEW i \in 1..Len(queue') PROVE Waits(i)'
    <3>1. CASE i \in 1..Len(queue)
      <4>1. Waits(i) /\ queue'[i] = queue[i] /\ queue'[i][1] <= jobs + 1
        BY <1>1, <2>3, <2>7, <3>1
      <4> QED
        BY <2>2, <4>1 DEF Waits
    <3>2. CASE i = last
      <4>1. queue'[i][1] = jobs + 1 /\ queue'[i][2] = caller[c].exp /\ jobs + 1 <= jobs + 1
        BY <1>0, <2>4, <3>2
      <4> QED
        BY <2>1, <2>2, <2>5, <4>1 DEF Waits
    <3> QED
      BY <2>6, <3>1, <3>2
  <2>9. \A i, k \in 1..Len(queue') : queue'[i][1] = queue'[k][1] => i = k
    BY <1>1, <2>3, <2>4, <2>6, <2>7
  <2>10. \A j \in Jobs : j > jobs' => work'[j].pc = "idle"
    <3>1. \A j \in Jobs : j \in Nat
      BY DefinitionAssumption DEF Jobs
    <3> QED
      BY <1>0, <1>1, <2>2, <3>1
  <2> QED
    BY <2>8, <2>9, <2>10 DEF QueueInv
<1>5. ASSUME NEW j \in Jobs, TakeJob(j) PROVE QueueInv'
  <2>1. /\ queue # <<>> /\ Head(queue)[1] = j /\ queue' = Tail(queue)
        /\ UNCHANGED <<jobs, exps, runs>>
        /\ \A k \in Jobs : k # j => work'[k] = work[k]
    BY <1>0, <1>5 DEF TakeJob, store, Restrained, bounds
  <2>2. /\ Len(queue) \in Nat \ {0} /\ queue[1][1] = j /\ Len(queue') = Len(queue) - 1
        /\ \A i \in 1..Len(queue') : queue'[i] = queue[i + 1]
    BY <1>0, <2>1, HeadTailProperties
  <2>3. 1 \in 1..Len(queue) /\ \A i \in 1..Len(queue') : i + 1 \in 1..Len(queue) /\ i + 1 # 1
    BY <2>2
  <2>4. ASSUME NEW i \in 1..Len(queue') PROVE Waits(i)'
    <3>1. Waits(i + 1) /\ queue[i + 1][1] # j /\ queue'[i] = queue[i + 1]
      BY <1>1, <2>2, <2>3
    <3> QED
      BY <2>1, <3>1 DEF Waits
  <2>5. ASSUME NEW i \in 1..Len(queue'), NEW k \in 1..Len(queue'), queue'[i][1] = queue'[k][1]
        PROVE  i = k
    <3>1. i + 1 = k + 1
      BY <1>1, <2>2, <2>3, <2>5
    <3> QED
      BY <3>1
  <2>6. ASSUME NEW k \in Jobs, k > jobs' PROVE work'[k].pc = "idle"
    <3>1. k # j
      <4>1. j <= jobs /\ j \in Nat
        BY <1>1, <2>2, <2>3, DefinitionAssumption DEF Waits, Jobs
      <4> QED
        BY <1>0, <2>1, <2>6, <4>1
    <3> QED
      BY <1>1, <2>1, <2>6, <3>1
  <2> QED
    BY <2>4, <2>5, <2>6 DEF QueueInv
<1>6. CASE Crash
  BY <1>6 DEF Crash, NoWork, QueueInv
<1>7. \/ UNCHANGED <<queue, jobs>> \/ Crash
      \/ (\E c \in Callers : Dispatch(c)) \/ (\E j \in Jobs : TakeJob(j))
  BY ZenonT(30)
  DEF Next, Create, Request, BeginSubmit, BeginDirect, CallerStep, CheckExisting, SavePending,
      Resolve, EnsureDefinition, SavePendingRun, RequestRaises, JobStep, LoadDefinition,
      ReadRegistry, ReadBars, WriteNext, WriteRaises, Restrained, bounds, vars
<1> QED
  BY <1>3, <1>4, <1>5, <1>6, <1>7

\* A job moves by its own steps, and by crashes.
LEMMA JobsApart ==
    ASSUME RunsInv, [Next]_vars, NEW j \in Jobs
    PROVE  work'[j] = work[j] \/ Crash \/ JobStep(j) \/ WriteRaises(j)
<1>0. work \in [Jobs -> WorkStates]
  BY DEF RunsInv, TypeInv, ProcessTypes
<1>1. ASSUME NEW k \in Jobs, k # j, JobStep(k) \/ WriteRaises(k) PROVE work'[j] = work[j]
  <2>1. ASSUME ReadBars(k) PROVE work'[j] = work[j]
    <3>1. PICK c, events :
             work' = [work EXCEPT ![k].pc = "closing", ![k].record = None,
                         ![k].script = IF events # <<>> THEN FailScript(work[k].row, events)
                                       ELSE CompleteScript(k, work[k].row, c)]
      BY <2>1, BarsRead
    <3> QED
      BY <1>0, <1>1, <3>1
  <2>2. ASSUME WriteNext(k) PROVE work'[j] = work[j]
    BY <1>0, <1>1, <2>2 DEF WriteNext
  <2>3. ASSUME TakeJob(k) \/ LoadDefinition(k) \/ ReadRegistry(k) \/ WriteRaises(k)
        PROVE  work'[j] = work[j]
    BY <1>0, <1>1, <2>3 DEF TakeJob, LoadDefinition, ReadRegistry, WriteRaises
  <2> QED
    BY <1>1, <2>1, <2>2, <2>3 DEF JobStep
<1>2. CASE work' = work
  BY <1>2
<1> QED
  BY <1>1, <1>2
  DEF Next, Create, Request, BeginSubmit, BeginDirect, CallerStep, CheckExisting, SavePending,
      Resolve, EnsureDefinition, SavePendingRun, Dispatch, RequestRaises, vars

\* What a job read stays true of the tables while it runs.
LEMMA JobInvStep == RunsInv /\ [Next]_vars => JobInv'
<1> SUFFICES ASSUME RunsInv, [Next]_vars, NEW j \in Jobs PROVE JobOk(j)'
  BY DEF JobInv
<1> DEFINE e == work[j].exp
<1>0. /\ work \in [Jobs -> WorkStates] /\ work[j] \in WorkStates /\ StoreTypes /\ Kept /\ JobOk(j)
  BY RowsKept DEF RunsInv, TypeInv, ProcessTypes, JobInv
<1>1. work[j].pc # "idle" => e \in Experiments /\ exps'[e] # None /\ runs'[e] # None
                              /\ exps'[e].checksum = exps[e].checksum
  <2>1. work[j].pc # "idle" => e \in Experiments /\ exps[e] # None /\ runs[e] # None
    BY <1>0 DEF JobOk, WorkStates
  <2> QED
    BY <1>0, <2>1 DEF Kept
<1>2. CASE work'[j] = work[j]
  BY <1>0, <1>1, <1>2 DEF JobOk, HoldsRow
<1>3. CASE work'[j] = NoWork
  BY <1>3 DEF JobOk, HoldsRow, NoWork
<1>4. CASE TakeJob(j)
  <2>1. /\ queue # <<>> /\ queue \in Seq(Nat \X Experiments) /\ UNCHANGED <<exps, runs>>
        /\ work'[j].pc = "opening" /\ work'[j].exp = Head(queue)[2]
    BY <1>0, <1>4 DEF TakeJob, NoWork, store, RunsInv, TypeInv, ProcessTypes
  <2>2. Len(queue) \in Nat \ {0} /\ Head(queue) = queue[1] /\ Head(queue) \in Nat \X Experiments
    BY <2>1, HeadTailProperties
  <2>3. 1 \in 1..Len(queue)
    BY <2>2
  <2>4. /\ exps[Head(queue)[2]] # None /\ runs[Head(queue)[2]] # None
        /\ Head(queue)[2] \in Experiments
    BY <2>2, <2>3 DEF RunsInv, QueueInv, Waits
  <2>5. Head(queue)[2] # None
    BY <2>4, DefinitionAssumption
  <2> QED
    BY <2>1, <2>4, <2>5 DEF JobOk, HoldsRow
<1>5. CASE LoadDefinition(j)
  <2> DEFINE row == exps[e]
             pc == IF work[j].pc = "load" THEN "marking" ELSE "rescued"
             script == <<Experiment(row, IF work[j].pc = "load" THEN "RUNNING" ELSE "FAILED")>>
  <2>1. /\ work[j].pc \in {"load", "reload"} /\ UNCHANGED exps
        /\ work' = [work EXCEPT ![j] = [work[j] EXCEPT !.row = row, !.pc = pc, !.script = script]]
    BY <1>5 DEF LoadDefinition, store
  <2>2. /\ work'[j].row = row /\ work'[j].pc = pc /\ work'[j].script = script /\ work'[j].exp = e
    BY <1>0, <2>1 DEF WorkStates
  <2>3. row # None
    BY <1>0, <2>1 DEF JobOk
  <2>4. CASE work[j].pc = "load"
    <3>1. work'[j].pc = "marking" /\ work'[j].script = <<Experiment(row, "RUNNING")>>
      BY <2>2, <2>4
    <3> QED
      BY <1>0, <1>1, <2>1, <2>2, <2>3, <2>4, <3>1 DEF JobOk, HoldsRow
  <2>5. CASE work[j].pc = "reload"
    <3>1. work'[j].pc = "rescued" /\ work'[j].script = <<Experiment(row, "FAILED")>>
      BY <2>2, <2>5
    <3> QED
      BY <1>0, <1>1, <2>1, <2>2, <2>3, <2>5, <3>1 DEF JobOk, HoldsRow
  <2> QED
    BY <2>1, <2>4, <2>5
<1>6. CASE ReadRegistry(j)
  <2>1. /\ work[j].pc = "registry" /\ work'[j].pc = "bars" /\ work'[j].script = work[j].script
        /\ work'[j].exp = e /\ work'[j].row = work[j].row
    BY <1>0, <1>6 DEF ReadRegistry, WorkStates
  <2> QED
    BY <1>0, <1>1, <2>1 DEF JobOk, HoldsRow
<1>7. CASE ReadBars(j)
  <2>1. /\ work[j].pc = "bars" /\ work'[j].pc = "closing"
        /\ work'[j].exp = e /\ work'[j].row = work[j].row
    BY <1>0, <1>7 DEF ReadBars, WorkStates
  <2> QED
    BY <1>0, <1>1, <2>1 DEF JobOk, HoldsRow
<1>8. CASE WriteNext(j)
  <2>1. /\ work[j].pc \in {"opening", "marking", "closing", "rescue", "rescued"}
        /\ work[j].script # <<>>
    BY <1>8, WriterIs, WriteAdvances
  <2>2. CASE Len(work[j].script) > 1
    <3>1. /\ work'[j].pc = work[j].pc /\ work'[j].row = work[j].row /\ work'[j].exp = e
      BY <1>8, <2>2, WriteAdvances
    <3>2. work[j].pc \notin {"marking", "rescued"}
      <4>1. \A x : ~(Len(<<x>>) > 1)
        OBVIOUS
      <4> QED
        BY <1>0, <2>2, <4>1 DEF JobOk
    <3> QED
      BY <1>0, <1>1, <2>1, <3>1, <3>2 DEF JobOk, HoldsRow
  <2>3. CASE ~(Len(work[j].script) > 1) /\ work[j].pc \in {"closing", "rescued"}
    BY <1>3, <1>8, <2>3, WriteAdvances
  <2>4. CASE ~(Len(work[j].script) > 1) /\ work[j].pc \in {"opening", "marking", "rescue"}
    <3>1. /\ work'[j].script = <<>> /\ work'[j].pc = AfterScript(work[j].pc)
          /\ work'[j].row = work[j].row /\ work'[j].exp = e
      BY <1>8, <2>4, WriteAdvances
    <3>2. \/ work[j].pc = "marking" /\ work'[j].pc = "registry"
          \/ work'[j].pc \in {"load", "reload"}
      BY <2>4, <3>1 DEF AfterScript
    <3> QED
      BY <1>0, <1>1, <2>4, <3>1, <3>2 DEF JobOk, HoldsRow
  <2> QED
    BY <2>1, <2>2, <2>3, <2>4
<1>9. CASE WriteRaises(j)
  <2>1. \/ work'[j] = NoWork
        \/ work'[j].pc = "rescue" /\ work'[j].exp = e
    BY <1>0, <1>9 DEF WriteRaises, WorkStates
  <2>2. work[j].pc # "idle"
    <3>1. work[j].script # <<>>
      BY <1>9 DEF WriteRaises
    <3> QED
      BY <1>0, <3>1 DEF JobOk, NoWork
  <2>3. CASE work'[j].pc = "rescue" /\ work'[j].exp = e
    BY <1>0, <1>1, <2>2, <2>3 DEF JobOk, HoldsRow
  <2> QED
    BY <1>3, <2>1, <2>3
<1>10. CASE Crash
  BY <1>3, <1>10 DEF Crash
<1> QED
  BY <1>2, <1>4, <1>5, <1>6, <1>7, <1>8, <1>9, <1>10, JobsApart DEF JobStep

-----------------------------------------------------------------------------
(***************************************************************************)
(* The results: only a job that completes adds any, and only its own.       *)
(***************************************************************************)

\* A step adds at most one row to a table, and that of the job that wrote it.
LEMMA ResultsGrow ==
    ASSUME RunsInv, [Next]_vars, NEW x \in Experiments
    PROVE  /\ \/ trades'[x] = trades[x]
              \/ \E k \in Jobs, r \in ResultRows :
                    /\ WriteNext(k) /\ ~Plain(k) /\ r.job = k
                    /\ trades'[x] = Append(trades[x], r)
           /\ \/ equity'[x] = equity[x]
              \/ \E k \in Jobs, r \in ResultRows :
                    /\ WriteNext(k) /\ ~Plain(k) /\ r.job = k
                    /\ equity'[x] = Append(equity[x], r)
<1>0. trades \in [Experiments -> Seq(ResultRows)] /\ equity \in [Experiments -> Seq(ResultRows)]
  BY DEF RunsInv, TypeInv, StoreTypes
<1>1. CASE UNCHANGED <<trades, equity>>
  BY <1>1
<1>2. ASSUME NEW k \in Jobs, WriteNext(k), ~Plain(k)
      PROVE  /\ \/ trades'[x] = trades[x]
                \/ \E r \in ResultRows : r.job = k /\ trades'[x] = Append(trades[x], r)
             /\ \/ equity'[x] = equity[x]
                \/ \E r \in ResultRows : r.job = k /\ equity'[x] = Append(equity[x], r)
  <2>1. \A n \in Nat, c \in Contents : TradeRow(k, n, c) \in ResultRows /\ TradeRow(k, n, c).job = k
    BY DEF TradeRow, ResultRows
  <2>2. \/ UNCHANGED <<trades, equity>>
        \/ /\ \E c \in Contents, n \in Nat :
                 trades' = [trades EXCEPT ![work[k].exp] = Append(@, TradeRow(k, n, c))]
           /\ UNCHANGED equity
        \/ /\ \E c \in Contents, n \in Nat :
                 equity' = [equity EXCEPT ![work[k].exp] = Append(@, TradeRow(k, n, c))]
           /\ UNCHANGED trades
    BY <1>2, CompletingWrite
  <2>3. CASE /\ \E c \in Contents, n \in Nat :
                   trades' = [trades EXCEPT ![work[k].exp] = Append(@, TradeRow(k, n, c))]
             /\ UNCHANGED equity
    <3>1. PICK r \in ResultRows :
             r.job = k /\ trades' = [trades EXCEPT ![work[k].exp] = Append(@, r)]
      BY <2>1, <2>3
    <3> QED
      BY <1>0, <2>3, <3>1
  <2>4. CASE /\ \E c \in Contents, n \in Nat :
                   equity' = [equity EXCEPT ![work[k].exp] = Append(@, TradeRow(k, n, c))]
             /\ UNCHANGED trades
    <3>1. PICK r \in ResultRows :
             r.job = k /\ equity' = [equity EXCEPT ![work[k].exp] = Append(@, r)]
      BY <2>1, <2>4
    <3> QED
      BY <1>0, <2>4, <3>1
  <2> QED
    BY <2>2, <2>3, <2>4
<1>3. ASSUME NEW k \in Jobs, WriteNext(k), Plain(k) PROVE UNCHANGED <<trades, equity>>
  BY <1>3, PlainWrite
<1>4. UNCHANGED <<trades, equity>> \/ \E k \in Jobs : WriteNext(k)
  BY ZenonT(30)
  DEF Next, Create, Request, BeginSubmit, BeginDirect, CallerStep, CheckExisting, SavePending,
      Resolve, EnsureDefinition, SavePendingRun, SaveRun, Dispatch, RequestRaises, JobStep, TakeJob,
      LoadDefinition, ReadRegistry, ReadBars, WriteRaises, Crash, store, vars
<1> QED
  BY <1>1, <1>2, <1>3, <1>4

\* So the results of a job that writes none stay what they are.
LEMMA ResultsStay ==
    ASSUME RunsInv, [Next]_vars, NEW j \in Jobs, ~WriteNext(j) \/ Plain(j), NEW x \in Experiments
    PROVE  /\ HasRows(j, trades'[x]) => HasRows(j, trades[x])
           /\ HasRows(j, equity'[x]) => HasRows(j, equity[x])
           /\ \A c \in Contents, n \in Nat :
                 /\ Recorded(trades[x], j, c, n) => Recorded(trades'[x], j, c, n)
                 /\ Recorded(equity[x], j, c, n) => Recorded(equity'[x], j, c, n)
<1>0. trades[x] \in Seq(ResultRows) /\ equity[x] \in Seq(ResultRows)
  BY DEF RunsInv, TypeInv, StoreTypes
<1>1. /\ HasRows(j, trades'[x]) => HasRows(j, trades[x])
      /\ \A c \in Contents, n \in Nat :
            Recorded(trades[x], j, c, n) => Recorded(trades'[x], j, c, n)
  <2>1. CASE trades'[x] = trades[x]
    BY <2>1
  <2>2. CASE \E r \in ResultRows : r.job # j /\ trades'[x] = Append(trades[x], r)
    BY <1>0, <2>2, RowOfAnother
  <2> QED
    BY <2>1, <2>2, ResultsGrow
<1>2. /\ HasRows(j, equity'[x]) => HasRows(j, equity[x])
      /\ \A c \in Contents, n \in Nat :
            Recorded(equity[x], j, c, n) => Recorded(equity'[x], j, c, n)
  <2>1. CASE equity'[x] = equity[x]
    BY <2>1
  <2>2. CASE \E r \in ResultRows : r.job # j /\ equity'[x] = Append(equity[x], r)
    BY <1>0, <2>2, RowOfAnother
  <2> QED
    BY <2>1, <2>2, ResultsGrow
<1> QED
  BY <1>1, <1>2

\* What a job has to write that has read the bars.
LEMMA ScriptChosen ==
    ASSUME RunsInv, NEW j \in Jobs, ReadBars(j)
    PROVE  Plain(j)' \/ Completing(j)'
<1>0. work[j] \in WorkStates /\ work[j].row \in ExperimentRows /\ work[j].exp \in Experiments
  BY ReaderIs DEF ReadBars, HoldsRow
<1>1. PICK c \in Contents \cup {None}, events \in Seq(QuietEvents) :
         /\ work' = [work EXCEPT ![j].pc = "closing", ![j].record = None,
                        ![j].script = IF events # <<>> THEN FailScript(work[j].row, events)
                                      ELSE CompleteScript(j, work[j].row, c)]
         /\ events = <<>> => c \in Contents /\ c = work[j].row.checksum
  BY BarsRead
<1>2. /\ work'[j].pc = "closing" /\ work'[j].row = work[j].row /\ work'[j].exp = work[j].exp
      /\ work'[j].script = IF events # <<>> THEN FailScript(work[j].row, events)
                           ELSE CompleteScript(j, work[j].row, c)
      /\ UNCHANGED <<trades, equity>>
  BY <1>0, <1>1 DEF RunsInv, TypeInv, ProcessTypes, WorkStates, ReadBars, store
<1>3. CASE events # <<>>
  <2> DEFINE script == FailScript(work[j].row, events)
  <2>1. /\ Len(script) = 3 /\ script[1].op = "audit" /\ script[2] = Status("FAILED", None)
        /\ script[3] = Experiment(work[j].row, "FAILED")
    BY <1>0, QuietTyped, FailScriptIs
  <2>2. work'[j].script = script
    BY <1>2, <1>3
  <2> HIDE DEF script
  <2>3. /\ script[2].op = "status" /\ script[2].status # "COMPLETED" /\ script[2].metrics = None
        /\ script[3].op = "experiment" /\ script[3].row = work[j].row
    BY <2>1 DEF Status, Experiment
  <2>4. 1..3 = {1, 2, 3} /\ HoldsRow(j)'
    BY <1>2 DEF HoldsRow
  <2> QED
    BY <1>2, <2>1, <2>2, <2>3, <2>4 DEF Plain, Harmless
<1>4. CASE events = <<>>
  <2> DEFINE all == CompleteScript(j, work[j].row, c)
             N == TradesOf[c] + CountOf[c] + 4
  <2>1. c \in Contents /\ c = work[j].row.checksum /\ TradesOf[c] \in Nat /\ CountOf[c] \in Nat
    BY <1>1, <1>4, ContentsAssumption, DefinitionAssumption
  <2>2. WritesOf(all, j, work[j].row, c)
    BY <1>0, <2>1, CompleteScriptIs
  <2>3. all \in Seq(Ops) /\ Len(all) = N
    BY <2>2 DEF WritesOf
  <2>4. SubSeq(all, 1, N) = all
    <3> HIDE DEF all, N
    <3> QED
      BY <2>3, SubSeqFull
  <2>5. work'[j].script = SubSeq(CompleteScript(j, work'[j].row, c), 0 + 1, N)
    BY <1>2, <1>4, <2>4
  <2>6. Recorded(trades'[work'[j].exp], j, c, 0) /\ Recorded(equity'[work'[j].exp], j, c, 0)
    <3>1. Ahead(j)
      BY DEF Ahead, ReadBars
    <3>2. ~HasRows(j, trades[work[j].exp]) /\ ~HasRows(j, equity[work[j].exp])
      BY <1>0, <3>1 DEF RunsInv, AheadInv
    <3>3. trades[work[j].exp] \in Seq(ResultRows) /\ equity[work[j].exp] \in Seq(ResultRows)
      BY <1>0 DEF RunsInv, TypeInv, StoreTypes
    <3> QED
      BY <1>2, <3>2, <3>3, NoRowYet
  <2>7. Written(j, c, 0, 0, 0)'
    <3>1. 0 <= TradesOf[c] /\ 0 <= CountOf[c]
      BY <2>1
    <3> QED
      BY <2>5, <2>6, <3>1 DEF Written
  <2>8. 0 \in 0..TradesOf[c] /\ 0 \in 0..CountOf[c]
    BY <2>1
  <2>9. \E t \in 0..TradesOf[c], q \in 0..CountOf[c] :
           \E d \in {0, 1 + t + q} : Written(j, c, d, t, q)'
    BY <2>7, <2>8
  <2> QED
    BY <1>2, <2>1, <2>9 DEF Completing
<1> QED
  BY <1>3, <1>4

\* A job has harmless writes left unless it has just read the bars or completes.
LEMMA PlainUnless ==
    ASSUME RunsInv, [Next]_vars, NEW j \in Jobs
    PROVE  \/ Plain(j)' \/ ReadBars(j)
           \/ ~Plain(j) /\ (WriteNext(j) \/ work'[j] = work[j])
<1>0. work \in [Jobs -> WorkStates] /\ work[j] \in WorkStates
  BY DEF RunsInv, TypeInv, ProcessTypes
<1>1. CASE work'[j].script = <<>>
  BY <1>1 DEF Plain
<1>2. CASE TakeJob(j)
  <2> DEFINE script == <<Status("RUNNING", None), Audit(<<"JOB_STARTED">>)>>
  <2>1. work'[j].script = script
    BY <1>0, <1>2 DEF TakeJob, NoWork
  <2>2. /\ Len(script) = 2 /\ script[1] = Status("RUNNING", None)
        /\ script[2] = Audit(<<"JOB_STARTED">>) /\ 1..2 = {1, 2}
    OBVIOUS
  <2> HIDE DEF script
  <2>3. /\ script[1].op = "status" /\ script[1].status = "RUNNING" /\ script[1].metrics = None
        /\ script[2].op = "audit"
    BY <2>2 DEF Status, Audit
  <2> QED
    BY <2>1, <2>2, <2>3 DEF Plain, Harmless
<1>3. CASE LoadDefinition(j)
  <2>1. PICK row, status : /\ work'[j].row = row /\ work'[j].script = <<Experiment(row, status)>>
                           /\ work'[j].pc \in {"marking", "rescued"}
    BY <1>0, <1>3 DEF LoadDefinition, WorkStates
  <2>2. /\ Len(<<Experiment(row, status)>>) = 1 /\ 1..1 = {1}
        /\ <<Experiment(row, status)>>[1].op = "experiment"
        /\ <<Experiment(row, status)>>[1].row = row
    BY DEF Experiment
  <2> QED
    BY <2>1, <2>2 DEF Plain, Harmless, HoldsRow
<1>4. CASE ReadRegistry(j)
  BY <1>0, <1>1, <1>4 DEF ReadRegistry, WorkStates, RunsInv, JobInv, JobOk
<1>7. CASE WriteRaises(j)
  <2>1. work'[j] = NoWork \/ work'[j].script = Rescue
    BY <1>0, <1>7 DEF WriteRaises, WorkStates
  <2>2. CASE work'[j].script = Rescue
    <3>1. /\ Len(Rescue) = 2 /\ Rescue[1] = Audit(<<"JOB_ERROR">>)
          /\ Rescue[2] = Status("FAILED", None) /\ 1..2 = {1, 2}
      BY DEF Rescue
    <3>2. /\ Rescue[2].op = "status" /\ Rescue[2].status = "FAILED" /\ Rescue[2].metrics = None
          /\ Rescue[1].op = "audit"
      BY <3>1 DEF Status, Audit
    <3> QED
      BY <2>2, <3>1, <3>2 DEF Plain, Harmless
  <2> QED
    BY <1>1, <2>1, <2>2 DEF NoWork
<1>8. CASE Crash
  BY <1>1, <1>8 DEF Crash, NoWork
<1>9. CASE work'[j] = work[j] /\ Plain(j)
  BY <1>9 DEF Plain, Harmless, HoldsRow
<1>10. CASE WriteNext(j) /\ Plain(j)
  BY <1>10, PlainWrite
<1> QED
  BY <1>2, <1>3, <1>4, <1>7, <1>8, <1>9, <1>10, JobsApart DEF JobStep

\* A job that completes keeps count of what it has written, whatever others write.
LEMMA ScriptInvStep == RunsInv /\ [Next]_vars => ScriptInv'
<1> SUFFICES ASSUME RunsInv, [Next]_vars, NEW j \in Jobs PROVE Plain(j)' \/ Completing(j)'
  BY DEF ScriptInv
<1>1. CASE ReadBars(j)
  BY <1>1, ScriptChosen
<1>2. CASE ~Plain(j) /\ WriteNext(j)
  BY <1>2, CompletingWrite
<1>3. CASE ~Plain(j) /\ work'[j] = work[j] /\ ~WriteNext(j)
  <2>0. Completing(j)
    BY <1>3 DEF RunsInv, ScriptInv
  <2>1. PICK c \in Contents :
           /\ c = work[j].row.checksum
           /\ \E t \in 0..TradesOf[c], q \in 0..CountOf[c] :
                 \E d \in {0, 1 + t + q} : Written(j, c, d, t, q)
    BY <2>0 DEF Completing
  <2>2. work[j].exp \in Experiments
    BY <2>0, ReaderIs DEF Completing, HoldsRow
  <2>3. ASSUME NEW t \in 0..TradesOf[c], NEW q \in 0..CountOf[c], NEW d \in {0, 1 + t + q},
               Written(j, c, d, t, q)
        PROVE  Written(j, c, d, t, q)'
    <3>1. t \in Nat /\ q \in Nat
      BY ContentsAssumption, DefinitionAssumption
    <3>2. Recorded(trades'[work[j].exp], j, c, t) /\ Recorded(equity'[work[j].exp], j, c, q)
      BY <1>3, <2>2, <2>3, <3>1, ResultsStay DEF Written
    <3> QED
      BY <1>3, <2>3, <3>2 DEF Written
  <2> QED
    BY <1>3, <2>0, <2>1, <2>3 DEF Completing
<1> QED
  BY <1>1, <1>2, <1>3, PlainUnless

\* A job that has not come to its results has harmless writes left.
LEMMA AheadIsPlain ==
    ASSUME RunsInv, NEW j \in Jobs, Ahead(j)
    PROVE  work[j].pc # "closing" /\ Plain(j)
<1>1. work[j].pc \in {"idle", "opening", "load", "marking", "registry", "bars"}
  <2>1. CASE Queued(j)
    BY <2>1 DEF Queued, RunsInv, QueueInv, Waits
  <2> QED
    BY <2>1 DEF Ahead, RunsInv, QueueInv
<1> QED
  BY <1>1 DEF RunsInv, ScriptInv, Completing

\* Once it has, it does not come back.
LEMMA AheadBefore ==
    ASSUME RunsInv, [Next]_vars, NEW j \in Jobs, Ahead(j)'
    PROVE  Ahead(j)
<1>0. /\ work \in [Jobs -> WorkStates] /\ work[j] \in WorkStates /\ jobs \in Nat /\ j \in Nat
      /\ queue \in Seq(Nat \X Experiments)
  BY DefinitionAssumption DEF RunsInv, TypeInv, ProcessTypes, Jobs
<1>1. CASE j > jobs'
  <2>1. jobs' = jobs \/ jobs' = jobs + 1
    BY ZenonT(30)
    DEF Next, Create, Request, BeginSubmit, BeginDirect, CallerStep, CheckExisting, SavePending,
        Resolve, EnsureDefinition, SavePendingRun, Dispatch, RequestRaises, JobStep, TakeJob,
        LoadDefinition, ReadRegistry, ReadBars, WriteNext, WriteRaises, Crash, Restrained, bounds,
        vars
  <2> QED
    BY <1>0, <1>1, <2>1 DEF Ahead
<1>2. CASE Queued(j)'
  <2>1. PICK i \in 1..Len(queue') : queue'[i][1] = j
    BY <1>2 DEF Queued
  <2>2. CASE queue' = queue
    BY <2>1, <2>2 DEF Ahead, Queued
  <2>3. ASSUME NEW c \in Callers, Dispatch(c) PROVE Ahead(j)
    <3> DEFINE entry == <<jobs + 1, caller[c].exp>>
    <3>1. entry \in Nat \X Experiments /\ queue' = Append(queue, entry)
      BY <1>0, <2>3, RequestIs DEF Dispatch, RunsInv, TypeInv
    <3>2. /\ Len(queue) \in Nat /\ Len(queue') = Len(queue) + 1
          /\ \A k \in 1..Len(queue) : queue'[k] = queue[k]
          /\ queue'[Len(queue) + 1] = entry
      BY <1>0, <3>1, AppendProperties, LenProperties
    <3>3. entry[1] = jobs + 1
      OBVIOUS
    <3> HIDE DEF entry
    <3>4. CASE i \in 1..Len(queue)
      BY <2>1, <3>2, <3>4 DEF Ahead, Queued
    <3>5. CASE i = Len(queue) + 1
      <4>1. j = jobs + 1
        BY <2>1, <3>2, <3>3, <3>5
      <4> QED
        BY <1>0, <4>1 DEF Ahead
    <3> QED
      BY <2>1, <3>2, <3>4, <3>5
  <2>4. ASSUME NEW k \in Jobs, TakeJob(k) PROVE Ahead(j)
    <3>1. /\ Len(queue) \in Nat \ {0} /\ Len(queue') = Len(queue) - 1
          /\ \A n \in 1..Len(queue') : queue'[n] = queue[n + 1]
      BY <1>0, <2>4, HeadTailProperties DEF TakeJob
    <3>2. i + 1 \in 1..Len(queue)
      BY <2>1, <3>1
    <3> QED
      BY <2>1, <3>1, <3>2 DEF Ahead, Queued
  <2>5. ~Crash
    <3>1. queue' # <<>>
      BY <2>1
    <3> QED
      BY <3>1 DEF Crash
  <2> QED
    BY ZenonT(30), <2>2, <2>3, <2>4, <2>5
    DEF Next, Create, Request, BeginSubmit, BeginDirect, CallerStep, CheckExisting, SavePending,
        Resolve, EnsureDefinition, SavePendingRun, RequestRaises, JobStep, LoadDefinition,
        ReadRegistry, ReadBars, WriteNext, WriteRaises, vars
<1>3. CASE work'[j].pc \in {"opening", "load", "marking", "registry", "bars"}
  <2>1. CASE TakeJob(j)
    <3>1. /\ Len(queue) \in Nat \ {0} /\ queue[1][1] = j
      BY <1>0, <2>1, HeadTailProperties DEF TakeJob
    <3>2. 1 \in 1..Len(queue)
      BY <3>1
    <3> QED
      BY <3>1, <3>2 DEF Ahead, Queued
  <2>2. CASE LoadDefinition(j)
    BY <1>0, <1>3, <2>2 DEF LoadDefinition, WorkStates, Ahead
  <2>3. CASE ReadRegistry(j)
    BY <2>3 DEF ReadRegistry, Ahead
  <2>4. CASE ReadBars(j)
    BY <2>4 DEF ReadBars, Ahead
  <2>5. CASE WriteNext(j)
    <3>1. work[j].pc \in {"opening", "marking", "closing", "rescue", "rescued"}
      BY <2>5, WriterIs, WriteAdvances
    <3>2. CASE Len(work[j].script) > 1
      BY <1>3, <2>5, <3>2, WriteAdvances DEF Ahead
    <3>3. CASE ~(Len(work[j].script) > 1)
      <4>1. work[j].pc \in {"closing", "rescued"} => work'[j].pc = "idle"
        BY <2>5, <3>3, WriteAdvances DEF NoWork
      <4>2. work[j].pc = "rescue" => work'[j].pc = "reload"
        BY <2>5, <3>3, WriteAdvances DEF AfterScript
      <4> QED
        BY <1>3, <3>1, <4>1, <4>2 DEF Ahead
    <3> QED
      BY <3>2, <3>3
  <2>6. CASE WriteRaises(j)
    BY <1>0, <1>3, <2>6 DEF WriteRaises, WorkStates, NoWork
  <2>7. CASE Crash
    BY <1>3, <2>7 DEF Crash, NoWork
  <2>8. CASE work'[j] = work[j]
    BY <1>3, <2>8 DEF Ahead
  <2> QED
    BY <2>1, <2>2, <2>3, <2>4, <2>5, <2>6, <2>7, <2>8, JobsApart DEF JobStep
<1> QED
  BY <1>1, <1>2, <1>3 DEF Ahead

\* So a job that has not come to its results still has none.
LEMMA AheadInvStep == RunsInv /\ [Next]_vars => AheadInv'
<1> SUFFICES ASSUME RunsInv, [Next]_vars, NEW j \in Jobs, Ahead(j)', NEW x \in Experiments
             PROVE  ~HasRows(j, trades'[x]) /\ ~HasRows(j, equity'[x])
  BY DEF AheadInv, HasRows
<1>1. Ahead(j) /\ Plain(j)
  BY AheadBefore, AheadIsPlain
<1>2. ~HasRows(j, trades[x]) /\ ~HasRows(j, equity[x])
  BY <1>1 DEF RunsInv, AheadInv
<1> QED
  BY <1>1, <1>2, ResultsStay

-----------------------------------------------------------------------------
(***************************************************************************)
(* The metrics.                                                             *)
(***************************************************************************)

\* What metrics were computed from stays.
LEMMA BackedStays ==
    ASSUME RunsInv, [Next]_vars, NEW x \in Experiments, NEW m \in Metrics,
           exps[x] # None, m.bars = exps[x].checksum, Backed(x, m)
    PROVE  exps'[x] # None /\ m.bars = exps'[x].checksum /\ Backed(x, m)'
<1>1. exps'[x] # None /\ m.bars = exps'[x].checksum
  BY RowsKept DEF Kept
<1>2. /\ m.job \in Jobs /\ m.bars \in Contents
      /\ TradesOf[m.bars] \in Nat /\ CountOf[m.bars] \in Nat
  BY ContentsAssumption, DefinitionAssumption DEF Metrics
<1>3. Plain(m.job) /\ ~Ahead(m.job)
  BY DEF Backed
<1>4. ~Ahead(m.job)'
  BY <1>2, <1>3, AheadBefore
<1>5. Plain(m.job)'
  <2>1. ~ReadBars(m.job)
    BY <1>3 DEF ReadBars, Ahead
  <2> QED
    BY <1>2, <1>3, <2>1, PlainUnless
<1>6. /\ Recorded(trades'[x], m.job, m.bars, TradesOf[m.bars])
      /\ Recorded(equity'[x], m.job, m.bars, CountOf[m.bars])
  BY <1>2, <1>3, ResultsStay DEF Backed
<1> QED
  BY <1>1, <1>4, <1>5, <1>6 DEF Backed

\* Metrics stay backed, and the status that says COMPLETED is written over backed ones.
LEMMA MetricsInvStep == RunsInv /\ [Next]_vars => MetricsInv'
<1> SUFFICES ASSUME RunsInv, [Next]_vars, NEW x \in Experiments, runs'[x] # None
             PROVE  MetricsOk(x)'
  BY DEF MetricsInv, MetricsOk
<1>0. StoreTypes /\ ProcessTypes /\ MetricsOk(x)
  BY DEF RunsInv, TypeInv, MetricsInv
\* The metrics are the same, and the run was completed if it now is.
<1>1. CASE /\ runs[x] # None /\ runs'[x].metrics = runs[x].metrics
           /\ runs'[x].status = "COMPLETED" => runs[x].status = "COMPLETED"
  <2>1. CASE runs[x].metrics = None
    BY <1>0, <1>1, <2>1 DEF MetricsOk
  <2>2. CASE runs[x].metrics # None
    <3>1. PICK m \in Metrics : m = runs[x].metrics
      BY <1>0, <1>1, <2>2 DEF StoreTypes, RunRows
    <3>2. exps[x] # None /\ m.bars = exps[x].checksum /\ Backed(x, m)
      BY <1>0, <1>1, <2>2, <3>1 DEF MetricsOk
    <3>3. exps'[x] # None /\ m.bars = exps'[x].checksum /\ Backed(x, m)'
      BY <3>2, BackedStays
    <3>4. runs'[x].metrics = m /\ m # None
      BY <1>1, <2>2, <3>1
    <3> QED
      BY <3>3, <3>4 DEF MetricsOk, Backed
  <2> QED
    BY <2>1, <2>2
<1>2. CASE runs'[x] = runs[x]
  BY <1>1, <1>2
<1>3. ASSUME NEW c \in Callers, SavePendingRun(c) PROVE MetricsOk(x)'
  <2>1. CASE x = caller[c].exp
    <3>1. runs'[x] = [status |-> "PENDING", metrics |-> None]
      BY <1>0, <1>3, <2>1 DEF SavePendingRun, SaveRun, StoreTypes
    <3> QED
      BY <3>1 DEF MetricsOk
  <2>2. CASE x # caller[c].exp
    BY <1>0, <1>2, <1>3, <2>2 DEF SavePendingRun, SaveRun, StoreTypes
  <2> QED
    BY <2>1, <2>2
<1>4. ASSUME NEW j \in Jobs, WriteNext(j) PROVE MetricsOk(x)'
  <2>1. work[j].exp \in Experiments /\ runs[work[j].exp] # None
    BY <1>4, WriteAdvances, WriterIs
  <2>2. ASSUME NEW status \in Statuses \ {"COMPLETED"}, UpdateStatus(work[j].exp, status, None)
        PROVE  MetricsOk(x)'
    <3>1. None \in Metrics \cup {None}
      OBVIOUS
    <3>2. x = work[j].exp => runs'[x].status = status /\ runs'[x].metrics = runs[x].metrics
      BY <1>0, <2>1, <2>2, <3>1, StatusUpdated
    <3>3. x # work[j].exp => runs'[x] = runs[x]
      BY <1>0, <2>1, <2>2, <3>1, StatusUpdated
    <3> QED
      BY <1>1, <1>2, <2>1, <2>2, <3>2, <3>3
  <2>3. ASSUME ~Plain(j), NEW c \in Contents, c = work[j].row.checksum,
               UpdateStatus(work[j].exp, "COMPLETED", [job |-> j, bars |-> c]),
               UNCHANGED <<trades, equity>>,
               Recorded(trades[work[j].exp], j, c, TradesOf[c]),
               Recorded(equity[work[j].exp], j, c, CountOf[c]), Plain(j)'
        PROVE  MetricsOk(x)'
    <3>1. PICK m, done : /\ m = [job |-> j, bars |-> c] /\ done = "COMPLETED"
                         /\ UpdateStatus(work[j].exp, done, m)
      BY <2>3
    <3>2. m \in Metrics \cup {None} /\ m # None /\ done \in Statuses /\ m.job = j /\ m.bars = c
      BY <3>1, RowAssumption DEF Metrics, Statuses
    <3>3. x # work[j].exp => runs'[x] = runs[x]
      BY <1>0, <2>1, <3>1, <3>2, StatusUpdated
    <3>4. CASE x = work[j].exp
      <4>1. runs'[x].status = "COMPLETED" /\ runs'[x].metrics = m
        BY <1>0, <2>1, <3>1, <3>2, <3>4, StatusUpdated
      <4>2. exps'[x] # None /\ m.bars = exps'[x].checksum
        <5>1. work[j].pc = "closing" /\ exps' = exps
          BY <1>4, <2>3, CompletingWrite
        <5>2. exps[x] # None /\ c = exps[x].checksum
          BY <2>3, <3>4, <5>1 DEF RunsInv, JobInv, JobOk, HoldsRow
        <5> QED
          BY <3>2, <5>1, <5>2
      <4>3. ~Ahead(j)'
        BY <2>3, AheadBefore, AheadIsPlain
      <4>4. Backed(x, m)'
        <5>1. Recorded(trades'[x], j, c, TradesOf[c]) /\ Recorded(equity'[x], j, c, CountOf[c])
          BY <2>3, <3>4
        <5> QED
          BY <2>3, <3>2, <4>3, <5>1 DEF Backed
      <4> QED
        BY <3>2, <4>1, <4>2, <4>4 DEF MetricsOk, Backed
    <3> QED
      BY <1>2, <3>3, <3>4
  <2>4. CASE Plain(j)
    BY <1>2, <1>4, <2>2, <2>4, PlainWrite
  <2>5. CASE ~Plain(j)
    BY <1>2, <1>4, <2>3, <2>5, CompletingWrite
  <2> QED
    BY <2>4, <2>5
<1>5. CASE UNCHANGED runs
  BY <1>2, <1>5
<1> QED
  BY ZenonT(30), <1>3, <1>4, <1>5
  DEF Next, Create, Request, BeginSubmit, BeginDirect, CallerStep, CheckExisting, SavePending,
      Resolve, EnsureDefinition, Dispatch, RequestRaises, JobStep, TakeJob, LoadDefinition,
      ReadRegistry, ReadBars, WriteRaises, Crash, store, vars

-----------------------------------------------------------------------------
(***************************************************************************)
(* The theorems.                                                            *)
(***************************************************************************)

\* The invariant holds at the start ...
LEMMA RunsInvInit == Init => RunsInv
<1> SUFFICES ASSUME Init PROVE RunsInv
  OBVIOUS
<1>1. TypeInv
  <2>1. RegistryTypes
    BY DEF Init, RegistryInit, NoRegistry, RegistryTypes
  <2>2. StoreTypes
    <3>1. <<>> \in Seq(ResultRows) /\ <<>> \in Seq(EventTypes)
      OBVIOUS
    <3> QED
      BY <3>1 DEF Init, StoreTypes
  <2>3. ProcessTypes
    <3>1. <<>> \in Seq(Nat \X Experiments)
      OBVIOUS
    <3> QED
      BY <3>1, NoWorkTyped DEF Init, ProcessTypes, CallerStates
  <2> QED
    BY <2>1, <2>2, <2>3 DEF TypeInv
<1>2. CallerInv
  BY DEF Init, CallerInv, Knows, IdleCaller
<1>3. QueueInv
  BY DEF Init, QueueInv, NoWork
<1>4. \A j \in Jobs : work[j] = NoWork
  BY DEF Init
<1>5. JobInv
  BY <1>4 DEF JobInv, JobOk, HoldsRow, NoWork
<1>6. ScriptInv
  BY <1>4 DEF ScriptInv, Plain, NoWork
<1>7. AheadInv
  <2>1. \A e \in Experiments : trades[e] = <<>> /\ equity[e] = <<>>
    BY DEF Init
  <2> QED
    BY <2>1 DEF AheadInv, HasRows
<1>8. MetricsInv
  BY DEF Init, MetricsInv, MetricsOk
<1> QED
  BY <1>1, <1>2, <1>3, <1>5, <1>6, <1>7, <1>8 DEF RunsInv

\* ... and every step keeps it.
LEMMA RunsInvStep == RunsInv /\ [Next]_vars => RunsInv'
<1>1. RunsInv /\ [Next]_vars => TypeInv'
  BY RegistryTypesStep, StoreTypesStep, ProcessTypesStep DEF TypeInv
<1>2. RunsInv /\ [Next]_vars => (CallerInv /\ QueueInv /\ JobInv)'
  BY CallerInvStep, QueueInvStep, JobInvStep
<1>3. RunsInv /\ [Next]_vars => (ScriptInv /\ AheadInv /\ MetricsInv)'
  BY ScriptInvStep, AheadInvStep, MetricsInvStep
<1> QED
  BY <1>1, <1>2, <1>3 DEF RunsInv

\* The life of every experiment, whatever requests, jobs, failing writes and
\* crashes it meets.
THEOREM RunsStayConsistent == Spec => []RunsInv
BY RunsInvInit, RunsInvStep, PTL DEF Spec

\* A run reported COMPLETED has all of the trades and equity points its metrics were
\* computed from (_run_job writes the status after its results).
THEOREM CompletedRunsAreBacked == Spec => []CompletedIsBacked
<1>1. RunsInv => CompletedIsBacked
  BY DEF RunsInv, MetricsInv, MetricsOk, Backed, CompletedIsBacked
<1> QED
  BY <1>1, RunsStayConsistent, PTL

\* Metrics are those of the bars that the definition names by checksum.
THEOREM ResultsStayReproducible == Spec => []ResultsReproducible
<1>1. RunsInv => ResultsReproducible
  BY DEF RunsInv, MetricsInv, MetricsOk, ResultsReproducible
<1> QED
  BY <1>1, RunsStayConsistent, PTL

\* A definition and a run that are there stay, and no step changes the checksum of a definition.
THEOREM DefinitionsAreKept == Spec => [][Kept]_vars
<1>1. RunsInv /\ [Next]_vars => [Kept]_vars
  BY RowsKept
<1> QED
  BY <1>1, RunsStayConsistent, PTL DEF Spec

-----------------------------------------------------------------------------
(***************************************************************************)
(* A run and the one job that it tells of.                                  *)
(***************************************************************************)

Once(seq, x) == \E i \in 1..Len(seq) : \A k \in 1..Len(seq) : seq[k] = x <=> k = i
Never(seq, x) == \A i \in 1..Len(seq) : seq[i] # x

\* A run that has no results and tells of none; one that waits for its job, and one whose
\* job has started.
NoRows(e) == trades[e] = <<>> /\ equity[e] = <<>>
Untold(e) == runs[e].metrics = None /\ Never(audit[e], "JOB_COMPLETED")
Fresh(e) == runs[e].status = "PENDING" /\ Untold(e) /\ NoRows(e)
Started(e, status) == runs[e].status = status /\ Untold(e)

OwnRows(e, j) == OnlyOf(trades[e], j) /\ OnlyOf(equity[e], j)

\* A run that has its results, and one that has ended.
Complete(e, j) == runs[e].status = "COMPLETED" /\ runs[e].metrics.job = j /\ OwnRows(e, j)
Finished(e, j) == Complete(e, j) /\ Once(audit[e], "JOB_COMPLETED")

Ended(e) ==
    \/ Started(e, "FAILED") /\ NoRows(e)
    \/ \E j \in Jobs : Finished(e, j)

\* What a job that begins has left to write, ...
Opening(e, j) ==
    \/ work[j].script = <<Status("RUNNING", None), Audit(<<"JOB_STARTED">>)>> /\ Fresh(e)
    \/ work[j].script = <<Audit(<<"JOB_STARTED">>)>> /\ Started(e, "RUNNING") /\ NoRows(e)

\* ... one that is refused, ...
Refused(e, j) ==
    LET s == work[j].script
        row == work[j].row IN
    /\ NoRows(e)
    /\ \/ /\ \E events \in Seq(QuietEvents) : s = FailScript(row, events)
          /\ Started(e, "RUNNING")
       \/ s = <<Status("FAILED", None), Experiment(row, "FAILED")>> /\ Started(e, "RUNNING")
       \/ s = <<Experiment(row, "FAILED")>> /\ Started(e, "FAILED")

\* ... and one that has recorded its completion.
Reported(e, j) ==
    LET last == Experiment(work[j].row, "COMPLETED") IN
    \/ /\ work[j].script = <<Audit(<<"JOB_COMPLETED">>), last>>
       /\ Complete(e, j) /\ Never(audit[e], "JOB_COMPLETED")
    \/ work[j].script = <<last>> /\ Finished(e, j)

\* How far the run has come that a job works on.
Progress(e, j) ==
    \/ work[j].pc = "opening" /\ Opening(e, j)
    \/ /\ work[j].pc \in {"load", "marking", "registry", "bars"}
       /\ Started(e, "RUNNING") /\ NoRows(e)
    \/ /\ work[j].pc = "closing"
       /\ \/ Refused(e, j) \/ Reported(e, j)
          \/ ~Plain(j) /\ Started(e, "RUNNING") /\ OwnRows(e, j)

Dispatching(e) == {c \in Callers : caller[c].pc = "dispatch" /\ caller[c].exp = e}
Entries(e) == {i \in 1..Len(queue) : queue[i][2] = e}
Workers(e) == {j \in Jobs : work[j].exp = e}
AtMostOne(S) == \A x, y \in S : x = y

\* A run that was not submitted over and met no failure is with one request, at one place
\* of the queue or with one job, or it has ended.
OneJob(e) ==
    /\ AtMostOne(Dispatching(e)) /\ AtMostOne(Entries(e)) /\ AtMostOne(Workers(e))
    /\ Dispatching(e) = {} \/ Entries(e) = {}
    /\ Workers(e) = {} \/ (Dispatching(e) = {} /\ Entries(e) = {})
    /\ Dispatching(e) # {} \/ Entries(e) # {} => Fresh(e)
    /\ \A j \in Workers(e) : Progress(e, j)
    /\ Dispatching(e) = {} /\ Entries(e) = {} /\ Workers(e) = {} => Ended(e)

Clean(e) == e \notin overlapped \cup broken
NoRunYet(e) == runs[e] = None /\ NoRows(e)

OneJobInv == \A e \in Experiments : Clean(e) => NoRunYet(e) \/ (runs[e] # None /\ OneJob(e))

\* A trail that grows.
LEMMA TrailGrows ==
    ASSUME NEW S, NEW s \in Seq(S), NEW t \in Seq(S), NEW x
    PROVE  /\ Never(s, x) /\ Never(t, x) => Never(s \o t, x)
           /\ Once(s, x) /\ Never(t, x) => Once(s \o t, x)
           /\ Never(s, x) /\ Once(t, x) => Once(s \o t, x)
<1> DEFINE r == s \o t
           n == Len(s)
           m == Len(t)
<1>1. /\ n \in Nat /\ m \in Nat /\ Len(r) = n + m
      /\ \A i \in 1..(n + m) : r[i] = IF i <= n THEN s[i] ELSE t[i - n]
  BY ConcatProperties, LenProperties
<1> HIDE DEF r, n, m
<1>2. \A i \in 1..n : i \in 1..(n + m) /\ r[i] = s[i]
  BY <1>1
<1>3. \A i \in 1..(n + m) : ~(i \in 1..n) => i - n \in 1..m /\ r[i] = t[i - n]
  BY <1>1
<1>4. \A i \in 1..m : n + i \in 1..(n + m) /\ (n + i) - n = i /\ ~(n + i \in 1..n)
  BY <1>1
<1>5. ASSUME Never(s, x), Never(t, x) PROVE Never(r, x)
  BY <1>1, <1>2, <1>3, <1>5 DEF Never, n, m
<1>6. ASSUME Once(s, x), Never(t, x) PROVE Once(r, x)
  <2>1. PICK i \in 1..n : \A k \in 1..n : s[k] = x <=> k = i
    BY <1>6 DEF Once, n
  <2>2. \A k \in 1..(n + m) : r[k] = x <=> k = i
    BY <1>2, <1>3, <1>6, <2>1 DEF Never, m
  <2>3. i \in 1..Len(r) /\ 1..Len(r) = 1..(n + m)
    BY <1>1, <1>2, <2>1
  <2> QED
    BY <2>2, <2>3 DEF Once
<1>7. ASSUME Never(s, x), Once(t, x) PROVE Once(r, x)
  <2>1. PICK i \in 1..m : \A k \in 1..m : t[k] = x <=> k = i
    BY <1>7 DEF Once, m
  <2>2. ASSUME NEW k \in 1..(n + m) PROVE r[k] = x <=> k = n + i
    <3>1. CASE k \in 1..n
      BY <1>2, <1>4, <1>7, <3>1 DEF Never, n
    <3>2. CASE ~(k \in 1..n)
      <4>1. k - n \in 1..m /\ r[k] = t[k - n] /\ (k - n = i <=> k = n + i)
        BY <1>1, <1>3, <3>2
      <4> QED
        BY <2>1, <4>1
    <3> QED
      BY <3>1, <3>2
  <2> QED
    BY <1>1, <1>4, <2>1, <2>2 DEF Once
<1> QED
  BY <1>5, <1>6, <1>7 DEF r

\* Quiet events, and trails of one event.
LEMMA QuietIs ==
    ASSUME NEW events \in Seq(QuietEvents)
    PROVE  Never(events, "JOB_COMPLETED")
<1>1. \A i \in 1..Len(events) : events[i] \in QuietEvents
  BY ElementOfSeq
<1> QED
  BY <1>1 DEF Never, QuietEvents

LEMMA ShortTrails ==
    /\ Never(<<"JOB_STARTED">>, "JOB_COMPLETED") /\ Never(<<>>, "JOB_COMPLETED")
    /\ Once(<<"JOB_COMPLETED">>, "JOB_COMPLETED")
    /\ <<"JOB_STARTED">> \in Seq(EventTypes) /\ <<"JOB_COMPLETED">> \in Seq(EventTypes)
    /\ <<>> \in Seq(EventTypes)
BY DEF Once, Never, EventTypes

\* What Count counts.
LEMMA Counted ==
    ASSUME NEW S, NEW s \in Seq(S), NEW x
    PROVE  /\ Once(s, x) => Count(s, x) = 1
           /\ Never(s, x) => Count(s, x) = 0
<1>1. DOMAIN s = 1..Len(s)
  BY LenProperties
<1>2. ASSUME Once(s, x) PROVE Count(s, x) = 1
  <2>1. PICK i \in 1..Len(s) : \A k \in 1..Len(s) : s[k] = x <=> k = i
    BY <1>2 DEF Once
  <2>2. {k \in DOMAIN s : s[k] = x} = {i}
    BY <1>1, <2>1
  <2>3. Cardinality({i}) = 1
    BY FS_Singleton
  <2> QED
    BY <2>2, <2>3 DEF Count
<1>3. ASSUME Never(s, x) PROVE Count(s, x) = 0
  <2>1. {k \in DOMAIN s : s[k] = x} = {}
    BY <1>1, <1>3 DEF Never
  <2>2. Cardinality({}) = 0
    BY FS_EmptySet
  <2> QED
    BY <2>1, <2>2 DEF Count
<1> QED
  BY <1>2, <1>3

\* A job that completes has the status COMPLETED to write.
LEMMA NotPlain ==
    ASSUME NEW j, NEW m, NEW i \in 1..Len(work[j].script),
           work[j].script[i] = Status("COMPLETED", m)
    PROVE  ~Plain(j)
<1>1. work[j].script[i].op = "status" /\ work[j].script[i].status = "COMPLETED"
  BY DEF Status
<1> QED
  BY <1>1 DEF Plain, Harmless

LEMMA CompletingIsNotPlain == RunsInv => \A j \in Jobs : Completing(j) => ~Plain(j)
<1> SUFFICES ASSUME RunsInv, NEW j \in Jobs, Completing(j) PROVE ~Plain(j)
  OBVIOUS
<1>1. PICK c \in Contents : \E t \in 0..TradesOf[c], q \in 0..CountOf[c] :
                               \E d \in {0, 1 + t + q} : Written(j, c, d, t, q)
  BY DEF Completing
<1>2. PICK t \in 0..TradesOf[c], q \in 0..CountOf[c] :
         \E d \in {0, 1 + t + q} : Written(j, c, d, t, q)
  BY <1>1
<1>3. PICK d \in {0, 1 + t + q} : Written(j, c, d, t, q)
  BY <1>2
<1> DEFINE T == TradesOf[c]
           Q == CountOf[c]
           N == T + Q + 4
<1>4. T \in Nat /\ Q \in Nat
  BY ContentsAssumption, DefinitionAssumption
<1>5. d \in Nat /\ d <= T + Q + 1
  <2>1. t \in Nat /\ q \in Nat /\ t <= T /\ q <= Q
    BY <1>4
  <2> QED
    BY <1>4, <2>1
<1>6. work[j].row \in ExperimentRows
  BY ReaderIs DEF Completing, HoldsRow
<1>7. PICK all : all = CompleteScript(j, work[j].row, c)
  OBVIOUS
<1>8. all \in Seq(Ops) /\ Len(all) = N /\ all[T + Q + 2] = Status("COMPLETED", [job |-> j, bars |-> c])
  BY <1>6, <1>7, CompleteScriptIs DEF WritesOf
<1>9. work[j].script = SubSeq(all, d + 1, N)
  BY <1>3, <1>7 DEF Written
<1> HIDE DEF T, Q
<1>10. d + 1 \in Int /\ N \in Int /\ d + 1 <= N
  BY <1>4, <1>5
<1>11. \A i \in (d + 1)..N : all[i] \in Ops
  <2>1. \A i \in (d + 1)..N : i \in 1..Len(all)
    BY <1>4, <1>5, <1>8
  <2> QED
    BY <1>8, <2>1, ElementOfSeq
<1> HIDE DEF N
<1>12. /\ Len(work[j].script) = N - (d + 1) + 1
       /\ \A i \in 1..(N - (d + 1) + 1) : work[j].script[i] = all[(d + 1) + i - 1]
  BY <1>9, <1>10, <1>11, SubSeqProperties
<1> DEFINE i == T + Q + 2 - d
<1>13. i \in 1..(N - (d + 1) + 1) /\ (d + 1) + i - 1 = T + Q + 2
  BY <1>4, <1>5 DEF N
<1>14. i \in 1..Len(work[j].script) /\ work[j].script[i] = Status("COMPLETED", [job |-> j, bars |-> c])
  BY <1>8, <1>12, <1>13
<1> QED
  BY <1>14, NotPlain

LEMMA CompletingIsNotPlainNext == RunsInv' => (\A j \in Jobs : Completing(j) => ~Plain(j))'
BY CompletingIsNotPlain, PTL

-----------------------------------------------------------------------------
(* Steps that do not concern a run, and those of its job.                  *)

\* A run that a step leaves alone, as do those whom it is with.
LEMMA LeftAlone ==
    ASSUME NEW e \in Experiments, OneJob(e),
           Dispatching(e)' = Dispatching(e), Workers(e)' = Workers(e),
           AtMostOne(Entries(e)'), Entries(e)' = {} <=> Entries(e) = {},
           \A j \in Workers(e) : work'[j] = work[j],
           runs'[e] = runs[e], audit'[e] = audit[e], trades'[e] = trades[e],
           equity'[e] = equity[e]
    PROVE  OneJob(e)'
<1>1. Fresh(e)' <=> Fresh(e)
  BY DEF Fresh, Untold, NoRows
<1>2. \A status : Started(e, status)' <=> Started(e, status)
  BY DEF Started, Untold
<1>3. \A j : /\ OwnRows(e, j)' <=> OwnRows(e, j)
             /\ Complete(e, j)' <=> Complete(e, j)
             /\ Finished(e, j)' <=> Finished(e, j)
  BY DEF OwnRows, OnlyOf, Complete, Finished
<1>4. (Ended(e)' <=> Ended(e)) /\ (NoRows(e)' <=> NoRows(e))
  BY <1>2, <1>3 DEF Ended, NoRows
<1>5. ASSUME NEW j \in Workers(e) PROVE Progress(e, j)'
  <2>1. Progress(e, j) /\ work'[j] = work[j]
    BY <1>5 DEF OneJob
  <2>2. Opening(e, j)' <=> Opening(e, j)
    BY <1>1, <1>2, <1>4, <2>1 DEF Opening
  <2>3. Refused(e, j)' <=> Refused(e, j)
    BY <1>2, <1>4, <2>1 DEF Refused
  <2>4. Reported(e, j)' <=> Reported(e, j)
    BY <1>2, <1>3, <2>1 DEF Reported
  <2>5. Plain(j)' <=> Plain(j)
    BY <2>1 DEF Plain, Harmless, HoldsRow
  <2> QED
    BY <1>2, <1>3, <1>4, <2>1, <2>2, <2>3, <2>4, <2>5 DEF Progress
<1> QED
  BY <1>1, <1>4, <1>5 DEF OneJob, AtMostOne

\* The job that a run is with goes on, or ends with it.
LEMMA JobGoesOn ==
    ASSUME RunsInv, NEW e \in Experiments, OneJob(e), NEW j \in Workers(e),
           UNCHANGED <<queue, caller>>, \A k \in Jobs : k # j => work'[k] = work[k],
           \/ work'[j].exp = e /\ Progress(e, j)'
           \/ work'[j].exp # e /\ Ended(e)'
    PROVE  OneJob(e)'
<1>1. Workers(e) = {j} /\ Dispatching(e) = {} /\ Entries(e) = {}
  BY DEF OneJob, AtMostOne
<1>2. Dispatching(e)' = {} /\ Entries(e)' = {}
  BY <1>1 DEF Dispatching, Entries
<1>3. \A k \in Jobs : k # j => work'[k].exp # e
  BY <1>1 DEF Workers
<1>4. CASE work'[j].exp = e /\ Progress(e, j)'
  <2>1. Workers(e)' = {j}
    BY <1>1, <1>3, <1>4 DEF Workers
  <2> QED
    BY <1>2, <1>4, <2>1 DEF OneJob, AtMostOne
<1>5. CASE work'[j].exp # e /\ Ended(e)'
  <2>1. Workers(e)' = {}
    BY <1>3, <1>5 DEF Workers
  <2> QED
    BY <1>2, <1>5, <2>1 DEF OneJob, AtMostOne
<1> QED
  BY <1>4, <1>5

\* A job that a run is with.
LEMMA WorkerIs ==
    ASSUME RunsInv, NEW e \in Experiments, NEW j \in Workers(e)
    PROVE  /\ j \in Jobs /\ work[j] \in WorkStates /\ work[j].exp = e /\ work[j].pc # "idle"
           /\ exps[e] # None /\ runs[e] # None
<1>1. j \in Jobs /\ work[j] \in WorkStates /\ work[j].exp = e
  BY DEF Workers, RunsInv, TypeInv, ProcessTypes
<1>2. e # None
  BY DefinitionAssumption
<1>3. work[j].pc # "idle"
  BY <1>1, <1>2 DEF RunsInv, JobInv, JobOk, NoWork
<1> QED
  BY <1>1, <1>3 DEF RunsInv, JobInv, JobOk

\* Reads of a job: the definition, the registry, the bars.
LEMMA ReadProgresses ==
    ASSUME RunsInv, NEW e \in Experiments, OneJob(e), NEW j \in Workers(e),
           LoadDefinition(j) \/ ReadRegistry(j)
    PROVE  work'[j].exp = e /\ Progress(e, j)'
<1>1. j \in Jobs /\ work[j] \in WorkStates /\ work[j].exp = e /\ Progress(e, j)
  BY WorkerIs DEF OneJob
<1>2. UNCHANGED <<runs, audit, trades, equity>>
  BY DEF LoadDefinition, ReadRegistry, store
<1>3. work \in [Jobs -> WorkStates]
  BY DEF RunsInv, TypeInv, ProcessTypes
<1>4. /\ work[j].pc \in {"load", "registry"} /\ work'[j].exp = e
      /\ work'[j].pc \in {"marking", "bars"}
  <2>1. work[j].pc \in {"load", "reload", "registry"}
    BY DEF LoadDefinition, ReadRegistry
  <2>2. work[j].pc # "reload"
    BY <1>1 DEF Progress
  <2>3. CASE LoadDefinition(j)
    BY <1>1, <1>3, <2>1, <2>2, <2>3 DEF LoadDefinition, WorkStates
  <2>4. CASE ReadRegistry(j)
    BY <1>1, <1>3, <2>1, <2>2, <2>4 DEF ReadRegistry, WorkStates
  <2> QED
    BY <2>1, <2>2, <2>3, <2>4
<1>5. Started(e, "RUNNING") /\ NoRows(e)
  BY <1>1, <1>4 DEF Progress
<1>6. Started(e, "RUNNING")' /\ NoRows(e)'
  BY <1>2, <1>5 DEF Started, Untold, NoRows
<1> QED
  BY <1>4, <1>6 DEF Progress

LEMMA BarsProgress ==
    ASSUME RunsInv, NEW e \in Experiments, OneJob(e), NEW j \in Workers(e), ReadBars(j)
    PROVE  work'[j].exp = e /\ Progress(e, j)'
<1>1. /\ j \in Jobs /\ work[j] \in WorkStates /\ work[j].exp = e /\ Progress(e, j)
      /\ work \in [Jobs -> WorkStates] /\ work[j].row \in ExperimentRows
  BY WorkerIs, ReaderIs DEF OneJob, RunsInv, TypeInv, ProcessTypes, ReadBars, HoldsRow
<1>2. /\ UNCHANGED <<runs, audit, trades, equity>> /\ work[j].pc = "bars"
  BY DEF ReadBars, store
<1>3. PICK c \in Contents \cup {None}, events \in Seq(QuietEvents) :
         /\ work' = [work EXCEPT ![j].pc = "closing", ![j].record = None,
                        ![j].script = IF events # <<>> THEN FailScript(work[j].row, events)
                                      ELSE CompleteScript(j, work[j].row, c)]
         /\ events = <<>> => c \in Contents /\ c = work[j].row.checksum
  BY <1>1, BarsRead
<1>4. /\ work'[j].pc = "closing" /\ work'[j].row = work[j].row /\ work'[j].exp = e
      /\ work'[j].script = IF events # <<>> THEN FailScript(work[j].row, events)
                           ELSE CompleteScript(j, work[j].row, c)
  BY <1>1, <1>3 DEF WorkStates
<1>5. Started(e, "RUNNING")' /\ NoRows(e)'
  BY <1>1, <1>2 DEF Progress, Started, Untold, NoRows
<1>6. CASE events # <<>>
  <2>1. Refused(e, j)'
    BY <1>4, <1>5, <1>6 DEF Refused
  <2> QED
    BY <1>4, <2>1 DEF Progress
<1>7. CASE events = <<>>
  <2> DEFINE all == CompleteScript(j, work[j].row, c)
             i == TradesOf[c] + CountOf[c] + 2
  <2>1. c \in Contents /\ TradesOf[c] \in Nat /\ CountOf[c] \in Nat
    BY <1>3, <1>7, ContentsAssumption, DefinitionAssumption
  <2>2. WritesOf(all, j, work[j].row, c)
    BY <1>1, <2>1, CompleteScriptIs
  <2>3. i \in 1..Len(all) /\ all[i] = Status("COMPLETED", [job |-> j, bars |-> c])
    <3> HIDE DEF all
    <3>1. /\ Len(all) = TradesOf[c] + CountOf[c] + 4
          /\ all[i] = Status("COMPLETED", [job |-> j, bars |-> c])
      BY <2>2 DEF WritesOf
    <3> QED
      BY <2>1, <3>1
  <2>4. work'[j].script = all
    BY <1>4, <1>7
  <2> HIDE DEF all, i
  <2>5. ~Plain(j)'
    <3>1. /\ i \in 1..Len(work'[j].script) /\ work'[j].script[i].op = "status"
          /\ work'[j].script[i].status = "COMPLETED"
      BY <2>3, <2>4 DEF Status
    <3> QED
      BY <3>1 DEF Plain, Harmless
  <2>6. OwnRows(e, j)'
    BY <1>5 DEF OwnRows, OnlyOf, NoRows
  <2> QED
    BY <1>4, <1>5, <2>5, <2>6 DEF Progress
<1> QED
  BY <1>6, <1>7

\* A write that is an event, a status or the row of the experiment.
LEMMA ScriptedWrite ==
    ASSUME RunsInv, NEW e \in Experiments, NEW j \in Workers(e), WriteNext(j), NEW w,
           w = work[j].script[1]
    PROVE  /\ w.op \in {"audit", "trade", "equity", "status", "experiment"}
           /\ w.op = "audit" => /\ w.events \in Seq(EventTypes)
                                /\ audit'[e] = audit[e] \o w.events
                                /\ UNCHANGED <<runs, trades, equity>>
           /\ w.op = "status" =>
                 /\ w.status \in Statuses /\ runs'[e].status = w.status
                 /\ runs'[e].metrics = IF w.metrics = None THEN runs[e].metrics ELSE w.metrics
                 /\ UNCHANGED <<audit, trades, equity>>
           /\ w.op = "experiment" => UNCHANGED <<runs, audit, trades, equity>>
<1>1. /\ j \in Jobs /\ work[j].exp = e /\ work[j].script # <<>> /\ StoreTypes /\ runs[e] # None
  BY WorkerIs, WriteAdvances DEF RunsInv, TypeInv
<1>2. w \in Ops /\ Write(e, w)
  BY <1>1, WriterIs DEF WriteNext
<1>3. CASE w.op = "audit"
  <2>1. /\ w.events \in Seq(EventTypes) /\ audit' = [audit EXCEPT ![e] = @ \o w.events]
        /\ UNCHANGED <<runs, trades, equity>>
    BY <1>2, <1>3, WriteIs
  <2>2. audit'[e] = audit[e] \o w.events
    BY <1>1, <2>1 DEF StoreTypes
  <2> QED
    BY <1>3, <2>1, <2>2
<1>4. CASE w.op = "status"
  <2>1. /\ w.status \in Statuses /\ w.metrics \in Metrics \cup {None}
        /\ UpdateStatus(e, w.status, w.metrics) /\ UNCHANGED <<audit, trades, equity>>
    BY <1>2, <1>4, WriteIs
  <2>2. /\ runs'[e].status = w.status
        /\ runs'[e].metrics = IF w.metrics = None THEN runs[e].metrics ELSE w.metrics
    BY <1>1, <2>1, StatusUpdated
  <2> QED
    BY <1>4, <2>1, <2>2
<1>5. CASE w.op = "experiment"
  BY <1>2, <1>5, WriteIs
<1>6. w.op \in {"audit", "trade", "equity", "status", "experiment"}
  BY <1>2, WriteIs
<1> QED
  BY <1>3, <1>4, <1>5, <1>6

\* Where a job stands after the first of three writes, the first of two, and its last one.
LEMMA FirstOfThree ==
    ASSUME RunsInv, NEW j \in Jobs, WriteNext(j), NEW w, NEW v, NEW u,
           work[j].script = <<w, v, u>>
    PROVE  /\ work'[j].pc = work[j].pc /\ work'[j].row = work[j].row
           /\ work'[j].exp = work[j].exp /\ work'[j].script = <<v, u>>
<1>1. Len(<<w, v, u>>) = 3 /\ Tail(<<w, v, u>>) = <<v, u>>
  OBVIOUS
<1>2. Len(work[j].script) > 1 /\ Tail(work[j].script) = <<v, u>>
  BY <1>1
<1> QED
  BY <1>2, WriteAdvances

LEMMA FirstOfTwo ==
    ASSUME RunsInv, NEW j \in Jobs, WriteNext(j), NEW w, NEW v, work[j].script = <<w, v>>
    PROVE  /\ work'[j].pc = work[j].pc /\ work'[j].row = work[j].row
           /\ work'[j].exp = work[j].exp /\ work'[j].script = <<v>>
<1>1. Len(<<w, v>>) = 2 /\ Tail(<<w, v>>) = <<v>>
  OBVIOUS
<1>2. Len(work[j].script) > 1 /\ Tail(work[j].script) = <<v>>
  BY <1>1
<1> QED
  BY <1>2, WriteAdvances

LEMMA LastWrite ==
    ASSUME RunsInv, NEW j \in Jobs, WriteNext(j), NEW w, work[j].script = <<w>>
    PROVE  /\ work[j].pc \in {"closing", "rescued"} => work'[j] = NoWork
           /\ work[j].pc \in {"opening", "marking", "rescue"} =>
                 work'[j].pc = AfterScript(work[j].pc) /\ work'[j].exp = work[j].exp
<1>1. Len(<<w>>) = 1
  OBVIOUS
<1>2. ~(Len(work[j].script) > 1)
  BY <1>1
<1> QED
  BY <1>2, WriteAdvances

\* A job that begins: the status RUNNING, and the event of its start.
LEMMA OpeningProgresses ==
    ASSUME RunsInv, NEW e \in Experiments, OneJob(e), NEW j \in Workers(e), WriteNext(j),
           work[j].pc \in {"opening", "marking"}
    PROVE  work'[j].exp = e /\ Progress(e, j)'
<1>1. j \in Jobs /\ work[j].exp = e /\ Progress(e, j)
  BY WorkerIs DEF OneJob
<1> DEFINE w1 == Status("RUNNING", None)
           w2 == Audit(<<"JOB_STARTED">>)
           w3 == Experiment(work[j].row, "RUNNING")
<1>2. /\ w1.op = "status" /\ w1.status = "RUNNING" /\ w1.metrics = None
      /\ w2.op = "audit" /\ w2.events = <<"JOB_STARTED">>
      /\ w3.op = "experiment"
      /\ <<w1, w2>>[1] = w1 /\ <<w2>>[1] = w2 /\ <<w3>>[1] = w3
  BY DEF Status, Audit, Experiment
<1> HIDE DEF w1, w2, w3
<1>3. CASE work[j].pc = "opening" /\ work[j].script = <<w1, w2>> /\ Fresh(e)
  <2>1. /\ work'[j].pc = "opening" /\ work'[j].exp = e /\ work'[j].script = <<w2>>
    BY <1>1, <1>3, FirstOfTwo
  <2>2. /\ runs'[e].status = "RUNNING" /\ runs'[e].metrics = runs[e].metrics
        /\ UNCHANGED <<audit, trades, equity>>
    BY <1>2, <1>3, ScriptedWrite
  <2>3. Opening(e, j)'
    BY <1>3, <2>1, <2>2 DEF Opening, Fresh, Started, Untold, NoRows, w2
  <2> QED
    BY <2>1, <2>3 DEF Progress
<1>4. CASE /\ work[j].pc = "opening" /\ work[j].script = <<w2>>
           /\ Started(e, "RUNNING") /\ NoRows(e)
  <2>1. work'[j].pc = "load" /\ work'[j].exp = e
    BY <1>1, <1>4, LastWrite DEF AfterScript
  <2>2. audit'[e] = audit[e] \o <<"JOB_STARTED">> /\ UNCHANGED <<runs, trades, equity>>
    BY <1>2, <1>4, ScriptedWrite
  <2>3. Never(audit'[e], "JOB_COMPLETED")
    <3>1. audit[e] \in Seq(EventTypes)
      BY <1>1 DEF Workers, RunsInv, TypeInv, StoreTypes
    <3> QED
      BY <1>4, <2>2, <3>1, ShortTrails, TrailGrows DEF Started, Untold
  <2> QED
    BY <1>4, <2>1, <2>2, <2>3 DEF Progress, Started, Untold, NoRows
<1>5. CASE work[j].pc = "marking"
  <2>1. work[j].script = <<w3>>
    BY <1>1, <1>5 DEF RunsInv, JobInv, JobOk, w3
  <2>2. work'[j].pc = "registry" /\ work'[j].exp = e
    BY <1>1, <1>5, <2>1, LastWrite DEF AfterScript
  <2>3. UNCHANGED <<runs, audit, trades, equity>>
    BY <1>2, <2>1, ScriptedWrite
  <2>4. Started(e, "RUNNING") /\ NoRows(e)
    BY <1>1, <1>5 DEF Progress
  <2> QED
    BY <2>2, <2>3, <2>4 DEF Progress, Started, Untold, NoRows
<1>6. work[j].pc = "opening" => Opening(e, j)
  BY <1>1 DEF Progress
<1> QED
  BY <1>3, <1>4, <1>5, <1>6 DEF Opening, w1, w2

\* A job that is refused: the reason, the status FAILED, and the row of the experiment.
LEMMA RefusedProgresses ==
    ASSUME RunsInv, NEW e \in Experiments, NEW j \in Workers(e), WriteNext(j),
           work[j].pc = "closing", Refused(e, j)
    PROVE  \/ work'[j].exp = e /\ Progress(e, j)'
           \/ work'[j].exp # e /\ Ended(e)'
<1>1. j \in Jobs /\ work[j].exp = e /\ e # None /\ audit[e] \in Seq(EventTypes)
  BY WorkerIs, DefinitionAssumption DEF RunsInv, TypeInv, StoreTypes
<1> DEFINE w1 == Status("FAILED", None)
           w2 == Experiment(work[j].row, "FAILED")
<1>2. /\ w1.op = "status" /\ w1.status = "FAILED" /\ w1.metrics = None /\ w2.op = "experiment"
      /\ <<w1, w2>>[1] = w1 /\ <<w2>>[1] = w2
  BY DEF Status, Experiment
<1>3. ASSUME NEW events \in Seq(QuietEvents), work[j].script = FailScript(work[j].row, events),
             Started(e, "RUNNING"), NoRows(e)
      PROVE  work'[j].exp = e /\ Progress(e, j)'
  <2> DEFINE w0 == Audit(events)
  <2>1. w0.op = "audit" /\ w0.events = events /\ <<w0, w1, w2>>[1] = w0
    BY DEF Audit
  <2>2. work[j].script = <<w0, w1, w2>>
    BY <1>3 DEF FailScript
  <2> HIDE DEF w0, w1, w2
  <2>3. /\ work'[j].pc = "closing" /\ work'[j].exp = e /\ work'[j].row = work[j].row
        /\ work'[j].script = <<w1, w2>>
    BY <1>1, <2>2, FirstOfThree
  <2>4. audit'[e] = audit[e] \o events /\ UNCHANGED <<runs, trades, equity>>
    BY <2>1, <2>2, ScriptedWrite
  <2>5. Never(audit'[e], "JOB_COMPLETED")
    <3>1. /\ events \in Seq(EventTypes)
          /\ Never(events, "JOB_COMPLETED")
      BY <1>3, QuietTyped, QuietIs
    <3> QED
      BY <1>1, <1>3, <2>4, <3>1, TrailGrows DEF Started, Untold
  <2>6. Refused(e, j)'
    BY <1>3, <2>3, <2>4, <2>5 DEF Refused, Started, Untold, NoRows, w1, w2
  <2> QED
    BY <2>3, <2>6 DEF Progress
<1> HIDE DEF w1, w2
<1>4. CASE work[j].script = <<w1, w2>> /\ Started(e, "RUNNING") /\ NoRows(e)
  <2>1. /\ work'[j].pc = "closing" /\ work'[j].exp = e /\ work'[j].row = work[j].row
        /\ work'[j].script = <<w2>>
    BY <1>1, <1>4, FirstOfTwo
  <2>2. /\ runs'[e].status = "FAILED" /\ runs'[e].metrics = runs[e].metrics
        /\ UNCHANGED <<audit, trades, equity>>
    BY <1>2, <1>4, ScriptedWrite
  <2>3. Refused(e, j)'
    BY <1>4, <2>1, <2>2 DEF Refused, Started, Untold, NoRows, w2
  <2> QED
    BY <2>1, <2>3 DEF Progress
<1>5. CASE work[j].script = <<w2>> /\ Started(e, "FAILED") /\ NoRows(e)
  <2>1. work'[j].exp # e
    BY <1>1, <1>5, LastWrite DEF NoWork
  <2>2. UNCHANGED <<runs, audit, trades, equity>>
    BY <1>2, <1>5, ScriptedWrite
  <2> QED
    BY <1>5, <2>1, <2>2 DEF Ended, Started, Untold, NoRows
<1> QED
  BY <1>3, <1>4, <1>5 DEF Refused, w1, w2

\* A job that has recorded its completion: the event of it, and the row of the experiment.
LEMMA ReportedProgresses ==
    ASSUME RunsInv, NEW e \in Experiments, NEW j \in Workers(e), WriteNext(j),
           work[j].pc = "closing", Reported(e, j)
    PROVE  \/ work'[j].exp = e /\ Progress(e, j)'
           \/ work'[j].exp # e /\ Ended(e)'
<1>1. j \in Jobs /\ work[j].exp = e /\ e # None /\ audit[e] \in Seq(EventTypes)
  BY WorkerIs, DefinitionAssumption DEF RunsInv, TypeInv, StoreTypes
<1> DEFINE w1 == Audit(<<"JOB_COMPLETED">>)
           w2 == Experiment(work[j].row, "COMPLETED")
<1>2. /\ w1.op = "audit" /\ w1.events = <<"JOB_COMPLETED">> /\ w2.op = "experiment"
      /\ <<w1, w2>>[1] = w1 /\ <<w2>>[1] = w2
  BY DEF Audit, Experiment
<1> HIDE DEF w1, w2
<1>3. CASE work[j].script = <<w1, w2>> /\ Complete(e, j) /\ Never(audit[e], "JOB_COMPLETED")
  <2>1. /\ work'[j].pc = "closing" /\ work'[j].exp = e /\ work'[j].row = work[j].row
        /\ work'[j].script = <<w2>>
    BY <1>1, <1>3, FirstOfTwo
  <2>2. audit'[e] = audit[e] \o <<"JOB_COMPLETED">> /\ UNCHANGED <<runs, trades, equity>>
    BY <1>2, <1>3, ScriptedWrite
  <2>3. Once(audit'[e], "JOB_COMPLETED")
    BY <1>1, <1>3, <2>2, ShortTrails, TrailGrows
  <2>4. Reported(e, j)'
    BY <1>3, <2>1, <2>2, <2>3 DEF Reported, Finished, Complete, OwnRows, OnlyOf, w2
  <2> QED
    BY <2>1, <2>4 DEF Progress
<1>4. CASE work[j].script = <<w2>> /\ Finished(e, j)
  <2>1. work'[j].exp # e
    BY <1>1, <1>4, LastWrite DEF NoWork
  <2>2. UNCHANGED <<runs, audit, trades, equity>>
    BY <1>2, <1>4, ScriptedWrite
  <2>3. Finished(e, j)'
    BY <1>4, <2>2 DEF Finished, Complete, OwnRows, OnlyOf
  <2> QED
    BY <1>1, <2>1, <2>3 DEF Ended
<1> QED
  BY <1>3, <1>4 DEF Reported, w1, w2

\* Rows of a job, and one more.
LEMMA OwnGrow ==
    ASSUME NEW rows \in Seq(ResultRows), NEW r \in ResultRows, OnlyOf(rows, r.job)
    PROVE  OnlyOf(Append(rows, r), r.job)
<1>1. PICK more : more = Append(rows, r)
  OBVIOUS
<1>2. /\ Len(rows) \in Nat /\ Len(more) = Len(rows) + 1
      /\ \A i \in 1..Len(rows) : more[i] = rows[i]
      /\ more[Len(rows) + 1] = r
  BY <1>1, AppendProperties, LenProperties
<1>3. ASSUME NEW i \in 1..Len(more) PROVE more[i].job = r.job
  <2>1. i \in 1..Len(rows) \/ i = Len(rows) + 1
    BY <1>2
  <2> QED
    BY <1>2, <2>1 DEF OnlyOf
<1> QED
  BY <1>1, <1>3 DEF OnlyOf

\* A job that completes: an event, its trades, its equity points, the status.
LEMMA CompletingProgresses ==
    ASSUME RunsInv, [Next]_vars, NEW e \in Experiments, NEW j \in Workers(e), WriteNext(j),
           ~Plain(j), Started(e, "RUNNING"), OwnRows(e, j)
    PROVE  work'[j].exp = e /\ Progress(e, j)'
<1>1. /\ j \in Jobs /\ work[j].exp = e /\ StoreTypes /\ runs[e] # None
      /\ audit[e] \in Seq(EventTypes) /\ trades[e] \in Seq(ResultRows) /\ equity[e] \in Seq(ResultRows)
  BY WorkerIs DEF RunsInv, TypeInv, StoreTypes
<1>2. work[j].pc = "closing"
  BY <1>1, CompletingWrite
<1>3. PICK c \in Contents :
         \/ /\ \E events \in Seq(QuietEvents) : audit' = [audit EXCEPT ![e] = @ \o events]
            /\ UNCHANGED <<runs, trades, equity>> /\ Completing(j)'
         \/ /\ \E n \in Nat : trades' = [trades EXCEPT ![e] = Append(@, TradeRow(j, n, c))]
            /\ UNCHANGED <<runs, audit, equity>> /\ Completing(j)'
         \/ /\ \E n \in Nat : equity' = [equity EXCEPT ![e] = Append(@, TradeRow(j, n, c))]
            /\ UNCHANGED <<runs, audit, trades>> /\ Completing(j)'
         \/ /\ UpdateStatus(e, "COMPLETED", [job |-> j, bars |-> c])
            /\ UNCHANGED <<audit, trades, equity>>
            /\ work'[j].script
                  = <<Audit(<<"JOB_COMPLETED">>), Experiment(work[j].row, "COMPLETED")>>
  BY <1>1, CompletingWrite
<1>4. Completing(j)' => ~Plain(j)' /\ work'[j].pc = "closing"
  <2>1. RunsInv'
    BY RunsInvStep
  <2> QED
    BY <1>1, <2>1, CompletingIsNotPlainNext DEF Completing
<1>5. work'[j].script # <<>> => /\ work'[j].exp = e /\ work'[j].row = work[j].row
                                /\ work'[j].pc = "closing"
  BY <1>1, <1>2, WriteAdvances
<1>6. Completing(j)' => work'[j].exp = e
  <2>1. Plain(j)' \/ work'[j].script # <<>>
    BY DEF Plain
  <2> QED
    BY <1>4, <1>5, <2>1
<1>7. ASSUME NEW events \in Seq(QuietEvents), audit' = [audit EXCEPT ![e] = @ \o events],
             UNCHANGED <<runs, trades, equity>>, Completing(j)'
      PROVE  work'[j].exp = e /\ Progress(e, j)'
  <2>1. audit'[e] = audit[e] \o events
    BY <1>1, <1>7 DEF StoreTypes
  <2>2. Never(audit'[e], "JOB_COMPLETED")
    <3>1. /\ events \in Seq(EventTypes)
          /\ Never(events, "JOB_COMPLETED")
      BY <1>7, QuietTyped, QuietIs
    <3> QED
      BY <1>1, <2>1, <3>1, TrailGrows DEF Started, Untold
  <2>3. Started(e, "RUNNING")' /\ OwnRows(e, j)'
    BY <1>7, <2>2 DEF Started, Untold, OwnRows, OnlyOf
  <2> QED
    BY <1>4, <1>6, <1>7, <2>3 DEF Progress
<1>8. ASSUME NEW n \in Nat, Completing(j)', UNCHANGED <<runs, audit>>,
             \/ /\ trades' = [trades EXCEPT ![e] = Append(@, TradeRow(j, n, c))]
                /\ UNCHANGED equity
             \/ /\ equity' = [equity EXCEPT ![e] = Append(@, TradeRow(j, n, c))]
                /\ UNCHANGED trades
      PROVE  work'[j].exp = e /\ Progress(e, j)'
  <2>1. PICK r : r = TradeRow(j, n, c)
    OBVIOUS
  <2>2. r \in ResultRows /\ r.job = j
    BY <1>1, <2>1 DEF TradeRow, ResultRows
  <2>3. \/ trades'[e] = Append(trades[e], r) /\ equity'[e] = equity[e]
        \/ equity'[e] = Append(equity[e], r) /\ trades'[e] = trades[e]
    BY <1>1, <1>8, <2>1 DEF StoreTypes
  <2>4. OnlyOf(Append(trades[e], r), j) /\ OnlyOf(Append(equity[e], r), j)
    BY <1>1, <2>2, OwnGrow DEF OwnRows
  <2>5. OwnRows(e, j)'
    <3>1. OnlyOf(trades'[e], j) /\ OnlyOf(equity'[e], j)
      BY <2>3, <2>4 DEF OwnRows
    <3> QED
      BY <3>1 DEF OwnRows, OnlyOf
  <2>6. Started(e, "RUNNING")'
    BY <1>8 DEF Started, Untold
  <2> QED
    BY <1>4, <1>6, <1>8, <2>5, <2>6 DEF Progress
<1>9. ASSUME UpdateStatus(e, "COMPLETED", [job |-> j, bars |-> c]),
             UNCHANGED <<audit, trades, equity>>,
             work'[j].script
                = <<Audit(<<"JOB_COMPLETED">>), Experiment(work[j].row, "COMPLETED")>>
      PROVE  work'[j].exp = e /\ Progress(e, j)'
  <2> DEFINE m == [job |-> j, bars |-> c]
             done == "COMPLETED"
  <2>1. m.job = j /\ m # None
    BY <1>1, RowAssumption DEF Metrics
  <2>2. m \in Metrics \cup {None} /\ done \in Statuses /\ UpdateStatus(e, done, m)
    BY <1>1, <1>9 DEF Metrics, Statuses
  <2> HIDE DEF m, done
  <2>3. runs'[e].status = "COMPLETED" /\ runs'[e].metrics = m
    BY <1>1, <2>1, <2>2, StatusUpdated DEF done
  <2>4. work'[j].exp = e /\ work'[j].row = work[j].row /\ work'[j].pc = "closing"
    <3>1. work'[j].script # <<>>
      BY <1>9
    <3> QED
      BY <1>5, <3>1
  <2>5. Complete(e, j)'
    BY <1>9, <2>1, <2>3 DEF Complete, OwnRows, OnlyOf
  <2>6. Reported(e, j)'
    BY <1>9, <2>4, <2>5 DEF Reported, Started, Untold
  <2> QED
    BY <2>4, <2>6 DEF Progress
<1> QED
  BY <1>3, <1>7, <1>8, <1>9

\* Every step of the job that a run is with.
LEMMA WorkerStep ==
    ASSUME RunsInv, [Next]_vars, NEW e \in Experiments, OneJob(e), NEW j \in Workers(e),
           LoadDefinition(j) \/ ReadRegistry(j) \/ ReadBars(j) \/ WriteNext(j)
    PROVE  OneJob(e)'
<1>1. j \in Jobs /\ Progress(e, j)
  BY WorkerIs DEF OneJob
<1>2. UNCHANGED <<queue, caller>> /\ \A k \in Jobs : k # j => work'[k] = work[k]
  <2>1. CASE ReadBars(j)
    <3>1. PICK c, events :
             work' = [work EXCEPT ![j].pc = "closing", ![j].record = None,
                         ![j].script = IF events # <<>> THEN FailScript(work[j].row, events)
                                       ELSE CompleteScript(j, work[j].row, c)]
      BY <1>1, <2>1, BarsRead
    <3> QED
      BY <2>1, <3>1 DEF ReadBars, RunsInv, TypeInv, ProcessTypes
  <2>2. CASE WriteNext(j)
    BY <1>1, <2>2, WriteAdvances
  <2>3. CASE LoadDefinition(j) \/ ReadRegistry(j)
    BY <2>3 DEF LoadDefinition, ReadRegistry, RunsInv, TypeInv, ProcessTypes
  <2> QED
    BY <2>1, <2>2, <2>3
<1>3. CASE LoadDefinition(j) \/ ReadRegistry(j) \/ ReadBars(j)
  BY <1>2, <1>3, ReadProgresses, BarsProgress, JobGoesOn
<1>4. CASE WriteNext(j)
  <2>1. work[j].pc \in {"opening", "marking", "closing", "rescue", "rescued"}
    BY <1>1, <1>4, WriteAdvances, WriterIs
  <2>2. CASE work[j].pc \in {"opening", "marking"}
    BY <1>2, <1>4, <2>2, OpeningProgresses, JobGoesOn
  <2>3. CASE work[j].pc = "closing" /\ Refused(e, j)
    BY <1>2, <1>4, <2>3, RefusedProgresses, JobGoesOn
  <2>4. CASE work[j].pc = "closing" /\ Reported(e, j)
    BY <1>2, <1>4, <2>4, ReportedProgresses, JobGoesOn
  <2>5. CASE ~Plain(j) /\ Started(e, "RUNNING") /\ OwnRows(e, j)
    BY <1>2, <1>4, <2>5, CompletingProgresses, JobGoesOn
  <2> QED
    BY <1>1, <2>1, <2>2, <2>3, <2>4, <2>5 DEF Progress
<1> QED
  BY <1>3, <1>4

-----------------------------------------------------------------------------
(* Submissions, the queue, and the invariant.                              *)

\* A run that is not yet there is with no one, and so is one that may be submitted without
\* overlapping another.
LEMMA SubmittedAlone ==
    ASSUME RunsInv, OneJobInv, NEW c \in Callers, SavePendingRun(c), NEW e,
           e = caller[c].exp, Clean(e)'
    PROVE  /\ e \in Experiments /\ NoRows(e)
           /\ Dispatching(e) = {} /\ Entries(e) = {} /\ Workers(e) = {}
<1>1. e \in Experiments /\ e # None
  BY RequestIs, DefinitionAssumption DEF SavePendingRun, RunsInv, TypeInv
<1>2. Clean(e) /\ ~IsActive(e) /\ \A j \in Running : work[j].exp # e
  BY DEF SavePendingRun, Clean
<1>3. Workers(e) = {}
  BY <1>1, <1>2 DEF Workers, Running, RunsInv, JobInv, JobOk, NoWork
<1>4. CASE NoRunYet(e)
  <2>1. Dispatching(e) = {}
    BY <1>4 DEF Dispatching, NoRunYet, RunsInv, CallerInv, Knows
  <2>2. Entries(e) = {}
    BY <1>4 DEF Entries, NoRunYet, RunsInv, QueueInv, Waits
  <2> QED
    BY <1>1, <1>3, <1>4, <2>1, <2>2 DEF NoRunYet
<1>5. CASE runs[e] # None /\ OneJob(e)
  <2>1. runs[e].status \notin {"PENDING", "RUNNING", "COMPLETED"}
    BY <1>2, <1>5 DEF IsActive, HasStatus
  <2>2. ~Fresh(e)
    BY <2>1 DEF Fresh
  <2>3. Dispatching(e) = {} /\ Entries(e) = {}
    BY <1>5, <2>2 DEF OneJob
  <2>4. Ended(e)
    BY <1>3, <1>5, <2>3 DEF OneJob
  <2>5. NoRows(e)
    BY <2>1, <2>4 DEF Ended, Finished, Complete
  <2> QED
    BY <1>1, <1>3, <2>3, <2>5
<1> QED
  BY <1>1, <1>2, <1>4, <1>5 DEF OneJobInv

\* The submission puts the run with its request.
LEMMA SubmitStep ==
    ASSUME RunsInv, OneJobInv, NEW c \in Callers, SavePendingRun(c), NEW e,
           e = caller[c].exp, Clean(e)'
    PROVE  runs'[e] # None /\ OneJob(e)'
<1>1. /\ e \in Experiments /\ NoRows(e)
      /\ Dispatching(e) = {} /\ Entries(e) = {} /\ Workers(e) = {}
  BY SubmittedAlone
<1>2. /\ runs' = [runs EXCEPT ![e] = [status |-> "PENDING", metrics |-> None]]
      /\ audit' = [audit EXCEPT ![e] = <<>>] /\ UNCHANGED <<trades, equity, queue, work>>
      /\ caller' = [caller EXCEPT ![c].pc = "dispatch"]
  BY DEF SavePendingRun, SaveRun
<1>3. StoreTypes /\ caller \in [Callers -> CallerStates]
  BY DEF RunsInv, TypeInv, ProcessTypes
<1>4. /\ runs'[e] = [status |-> "PENDING", metrics |-> None] /\ audit'[e] = <<>>
      /\ NoRows(e)'
  BY <1>1, <1>2, <1>3 DEF StoreTypes, NoRows
<1>5. runs'[e] # None
  BY <1>4, RowAssumption DEF RunRows, Statuses
<1>6. Fresh(e)'
  BY <1>4, ShortTrails DEF Fresh, Untold
<1>7. Entries(e)' = {} /\ Workers(e)' = {}
  BY <1>1, <1>2 DEF Entries, Workers
<1>8. AtMostOne(Dispatching(e)') /\ c \in Dispatching(e)'
  <2>1. \A d \in Callers : d # c => caller'[d] = caller[d]
    BY <1>2, <1>3
  <2>2. caller'[c].pc = "dispatch" /\ caller'[c].exp = e
    BY <1>2, <1>3, RequestIs DEF SavePendingRun, RunsInv, TypeInv
  <2> QED
    BY <1>1, <2>1, <2>2 DEF Dispatching, AtMostOne
<1> QED
  BY <1>5, <1>6, <1>7, <1>8 DEF OneJob, AtMostOne

\* The queue after a job is put into it, ...
LEMMA EntriesGrow ==
    ASSUME RunsInv, NEW c \in Callers, Dispatch(c), NEW e \in Experiments
    PROVE  IF caller[c].exp = e THEN Entries(e)' = Entries(e) \cup {Len(queue) + 1}
           ELSE Entries(e)' = Entries(e)
<1> DEFINE entry == <<jobs + 1, caller[c].exp>>
<1>1. queue \in Seq(Nat \X Experiments) /\ entry \in Nat \X Experiments /\ queue' = Append(queue, entry)
  BY RequestIs DEF RunsInv, TypeInv, ProcessTypes, Dispatch
<1>2. entry[2] = caller[c].exp
  OBVIOUS
<1> HIDE DEF entry
<1>3. /\ Len(queue) \in Nat /\ Len(queue') = Len(queue) + 1
      /\ \A i \in 1..Len(queue) : queue'[i] = queue[i]
      /\ queue'[Len(queue) + 1] = entry
  BY <1>1, AppendProperties, LenProperties
<1>4. 1..Len(queue') = 1..Len(queue) \cup {Len(queue) + 1}
  BY <1>3
<1> QED
  BY <1>2, <1>3, <1>4 DEF Entries

\* ... and after one is taken.
LEMMA EntriesShrink ==
    ASSUME RunsInv, NEW j \in Jobs, TakeJob(j), NEW e \in Experiments
    PROVE  /\ Entries(e)' = {i \in 1..Len(queue') : i + 1 \in Entries(e)}
           /\ 1 \in Entries(e) <=> Head(queue)[2] = e
           /\ Entries(e) \subseteq 1..Len(queue) /\ Len(queue) \in Nat \ {0}
           /\ Len(queue') = Len(queue) - 1
<1>1. queue \in Seq(Nat \X Experiments) /\ queue # <<>> /\ queue' = Tail(queue)
  BY DEF RunsInv, TypeInv, ProcessTypes, TakeJob
<1>2. /\ Len(queue) \in Nat \ {0} /\ Head(queue) = queue[1] /\ Len(queue') = Len(queue) - 1
      /\ \A i \in 1..Len(queue') : queue'[i] = queue[i + 1]
  BY <1>1, HeadTailProperties
<1>3. 1 \in 1..Len(queue) /\ \A i \in 1..Len(queue') : i + 1 \in 1..Len(queue)
  BY <1>2
<1> QED
  BY <1>2, <1>3 DEF Entries

\* A job is put into the queue: the run leaves its request, and stays as it was.
LEMMA DispatchStep ==
    ASSUME RunsInv, NEW c \in Callers, Dispatch(c), NEW e \in Experiments, OneJob(e)
    PROVE  OneJob(e)'
<1>0. /\ UNCHANGED <<runs, audit, trades, equity, work>> /\ caller' = [caller EXCEPT ![c] = IdleCaller]
      /\ caller[c].pc = "dispatch" /\ caller \in [Callers -> CallerStates]
  BY DEF Dispatch, store, RunsInv, TypeInv, ProcessTypes
<1>1. Workers(e)' = Workers(e) /\ \A d \in Callers : d # c => caller'[d] = caller[d]
  BY <1>0 DEF Workers
<1>2. caller'[c].pc = "idle"
  BY <1>0 DEF IdleCaller
<1>3. CASE caller[c].exp = e
  <2>1. c \in Dispatching(e)
    BY <1>0, <1>3 DEF Dispatching
  <2>2. Dispatching(e) = {c} /\ Entries(e) = {} /\ Workers(e) = {} /\ Fresh(e)
    BY <2>1 DEF OneJob, AtMostOne
  <2>3. Dispatching(e)' = {}
    BY <1>1, <1>2, <2>2 DEF Dispatching
  <2>4. Entries(e)' = {Len(queue) + 1}
    BY <1>3, <2>2, EntriesGrow
  <2>5. Fresh(e)'
    BY <1>0, <2>2 DEF Fresh, Untold, NoRows
  <2> QED
    BY <1>1, <2>2, <2>3, <2>4, <2>5 DEF OneJob, AtMostOne
<1>4. CASE caller[c].exp # e
  <2>1. Dispatching(e)' = Dispatching(e)
    BY <1>1, <1>2, <1>4 DEF Dispatching
  <2>2. Entries(e)' = Entries(e) /\ AtMostOne(Entries(e))
    BY <1>4, EntriesGrow DEF OneJob
  <2> QED
    BY <1>0, <1>1, <2>1, <2>2, LeftAlone
<1> QED
  BY <1>3, <1>4

\* A job is taken from the queue: the run goes with it from the queue to the thread.
LEMMA TakeStep ==
    ASSUME RunsInv, NEW j \in Jobs, TakeJob(j), NEW e \in Experiments, OneJob(e)
    PROVE  OneJob(e)'
<1> DEFINE begun == [NoWork EXCEPT !.pc = "opening", !.exp = Head(queue)[2],
                                   !.script = <<Status("RUNNING", None), Audit(<<"JOB_STARTED">>)>>]
<1>0. /\ UNCHANGED <<runs, audit, trades, equity, caller>> /\ work' = [work EXCEPT ![j] = begun]
      /\ work \in [Jobs -> WorkStates]
  BY DEF TakeJob, store, RunsInv, TypeInv, ProcessTypes
<1>1. /\ begun.pc = "opening" /\ begun.exp = Head(queue)[2]
      /\ begun.script = <<Status("RUNNING", None), Audit(<<"JOB_STARTED">>)>>
  BY DEF NoWork
<1> HIDE DEF begun
<1>2. work'[j] = begun /\ \A k \in Jobs : k # j => work'[k] = work[k]
  BY <1>0
<1>3. Dispatching(e)' = Dispatching(e) /\ (Fresh(e)' <=> Fresh(e))
  BY <1>0 DEF Dispatching, Fresh, Untold, NoRows
<1>4. work[j] = NoWork /\ e # None
  <2>1. 1 \in 1..Len(queue) /\ queue[1][1] = j
    BY HeadTailProperties DEF TakeJob, RunsInv, TypeInv, ProcessTypes
  <2> QED
    BY <2>1, DefinitionAssumption DEF RunsInv, QueueInv, Waits, JobInv, JobOk
<1>5. j \notin Workers(e)
  BY <1>4 DEF Workers, NoWork
<1>6. /\ Entries(e)' = {i \in 1..Len(queue') : i + 1 \in Entries(e)}
      /\ 1 \in Entries(e) <=> Head(queue)[2] = e
      /\ Entries(e) \subseteq 1..Len(queue) /\ Len(queue) \in Nat \ {0}
      /\ Len(queue') = Len(queue) - 1
  BY EntriesShrink
<1>7. CASE Head(queue)[2] = e
  <2>1. Entries(e) = {1} /\ Dispatching(e) = {} /\ Workers(e) = {} /\ Fresh(e)
    BY <1>6, <1>7 DEF OneJob, AtMostOne
  <2>2. Entries(e)' = {}
    BY <1>6, <2>1
  <2>3. Workers(e)' = {j}
    BY <1>1, <1>2, <1>7, <2>1 DEF Workers
  <2>4. Progress(e, j)'
    BY <1>1, <1>2, <1>3, <2>1 DEF Progress, Opening
  <2> QED
    BY <1>3, <2>1, <2>2, <2>3, <2>4 DEF OneJob, AtMostOne
<1>8. CASE Head(queue)[2] # e
  <2>1. Workers(e)' = Workers(e) /\ \A k \in Workers(e) : work'[k] = work[k]
    BY <1>1, <1>2, <1>5, <1>8 DEF Workers
  <2>2. AtMostOne(Entries(e)')
    <3>1. SUFFICES ASSUME NEW x \in Entries(e)', NEW y \in Entries(e)' PROVE x = y
      BY DEF AtMostOne
    <3>2. x \in Int /\ y \in Int /\ x + 1 \in Entries(e) /\ y + 1 \in Entries(e)
      BY <1>6
    <3>3. x + 1 = y + 1
      BY <3>2 DEF OneJob, AtMostOne
    <3> QED
      BY <3>2, <3>3
  <2>3. Entries(e)' = {} <=> Entries(e) = {}
    <3>1. ASSUME NEW x \in Entries(e) PROVE x - 1 \in Entries(e)'
      <4>1. x \in 1..Len(queue) /\ x # 1
        BY <1>6, <1>8
      <4>2. x - 1 \in 1..Len(queue') /\ (x - 1) + 1 = x
        BY <1>6, <4>1
      <4> QED
        BY <1>6, <4>2
    <3> QED
      BY <1>6, <3>1
  <2> QED
    BY <1>0, <1>3, <2>1, <2>2, <2>3, LeftAlone
<1> QED
  BY <1>7, <1>8

\* What a write of another run's job, and a submission of another run, leave of a run.
LEMMA WrittenElsewhere ==
    ASSUME RunsInv, NEW e \in Experiments, NEW j \in Jobs, WriteNext(j), work[j].exp # e
    PROVE  runs'[e] = runs[e] /\ audit'[e] = audit[e] /\ trades'[e] = trades[e] /\ equity'[e] = equity[e]
<1>1. PICK x, w : x = work[j].exp /\ w = Head(work[j].script)
  OBVIOUS
<1>2. x \in Experiments /\ runs[x] # None /\ x # e /\ StoreTypes /\ w \in Ops /\ Write(x, w)
  BY <1>1, WriteAdvances, WriterIs DEF WriteNext, RunsInv, TypeInv
<1>3. CASE w.op = "audit"
  <2>1. /\ audit' = [audit EXCEPT ![x] = @ \o w.events]
        /\ UNCHANGED <<exps, runs, trades, equity>>
    BY <1>2, <1>3, WriteIs
  <2> QED
    BY <1>2, <2>1 DEF StoreTypes
<1>4. CASE w.op = "trade"
  <2>1. /\ trades' = [trades EXCEPT ![x] = Append(@, w.row)]
        /\ UNCHANGED <<exps, runs, audit, equity>>
    BY <1>2, <1>4, WriteIs
  <2> QED
    BY <1>2, <2>1 DEF StoreTypes
<1>5. CASE w.op = "status"
  <2>1. /\ w.status \in Statuses /\ w.metrics \in Metrics \cup {None}
        /\ UpdateStatus(x, w.status, w.metrics) /\ UNCHANGED <<audit, trades, equity>>
    BY <1>2, <1>5, WriteIs
  <2> QED
    BY <1>2, <2>1, StatusUpdated
<1>6. CASE w.op = "equity"
  <2>1. /\ equity' = [equity EXCEPT ![x] = Append(@, w.row)]
        /\ UNCHANGED <<exps, runs, audit, trades>>
    BY <1>2, <1>6, WriteIs
  <2> QED
    BY <1>2, <2>1 DEF StoreTypes
<1>7. CASE w.op = "experiment"
  BY <1>2, <1>7, WriteIs
<1> QED
  BY <1>2, <1>3, <1>4, <1>5, <1>6, <1>7, WriteIs

LEMMA SubmittedElsewhere ==
    ASSUME RunsInv, NEW e \in Experiments, NEW c \in Callers, SavePendingRun(c),
           caller[c].exp # e
    PROVE  runs'[e] = runs[e] /\ audit'[e] = audit[e] /\ trades'[e] = trades[e] /\ equity'[e] = equity[e]
BY DEF SavePendingRun, SaveRun, RunsInv, TypeInv, StoreTypes

\* A step of a request that neither puts a run with itself nor takes it further.
LEMMA RequestElsewhere ==
    ASSUME RunsInv, NEW e \in Experiments, OneJob(e), NEW c \in Callers, NEW s,
           caller' = [caller EXCEPT ![c] = s], UNCHANGED <<queue, work>>,
           ~(caller[c].pc = "dispatch" /\ caller[c].exp = e), ~(s.pc = "dispatch" /\ s.exp = e),
           runs'[e] = runs[e], audit'[e] = audit[e], trades'[e] = trades[e],
           equity'[e] = equity[e]
    PROVE  OneJob(e)'
<1>1. caller'[c] = s /\ \A d \in Callers : d # c => caller'[d] = caller[d]
  BY DEF RunsInv, TypeInv, ProcessTypes
<1>2. Dispatching(e)' = Dispatching(e)
  BY <1>1 DEF Dispatching
<1>3. Entries(e)' = Entries(e) /\ Workers(e)' = Workers(e)
  BY DEF Entries, Workers
<1>4. AtMostOne(Entries(e))
  BY DEF OneJob
<1> QED
  BY <1>2, <1>3, <1>4, LeftAlone

\* A step of a job that works for another run, before and after it.
LEMMA JobElsewhere ==
    ASSUME RunsInv, NEW e \in Experiments, OneJob(e), NEW j \in Jobs,
           work[j].exp # e, work'[j].exp # e, \A k \in Jobs : k # j => work'[k] = work[k],
           UNCHANGED <<queue, caller>>,
           runs'[e] = runs[e], audit'[e] = audit[e], trades'[e] = trades[e],
           equity'[e] = equity[e]
    PROVE  OneJob(e)'
<1>1. Workers(e)' = Workers(e) /\ \A k \in Workers(e) : work'[k] = work[k]
  BY DEF Workers
<1>2. Dispatching(e)' = Dispatching(e) /\ Entries(e)' = Entries(e)
  BY DEF Dispatching, Entries
<1>3. AtMostOne(Entries(e))
  BY DEF OneJob
<1> QED
  BY <1>1, <1>2, <1>3, LeftAlone

\* Every step of a request.
LEMMA RequestsKeepOneJob ==
    ASSUME RunsInv, NEW e \in Experiments, OneJob(e), NEW c \in Callers,
           SavePendingRun(c) => caller[c].exp # e,
           \/ \E x \in Experiments, i \in BOOLEAN : BeginSubmit(c, x, i)
           \/ \E x \in Experiments : BeginDirect(c, x)
           \/ CallerStep(c) \/ RequestRaises(c)
    PROVE  OneJob(e)'
<1>0. caller[c] \in CallerStates
  BY DEF RunsInv, TypeInv, ProcessTypes
<1>1. CASE Dispatch(c)
  BY <1>1, DispatchStep
<1>2. CASE SavePendingRun(c)
  <2> DEFINE s == [caller[c] EXCEPT !.pc = "dispatch"]
  <2>1. caller' = [caller EXCEPT ![c] = s] /\ UNCHANGED <<queue, work>>
    BY <1>2 DEF SavePendingRun
  <2>2. caller[c].exp # e /\ s.exp # e
    BY <1>0, <1>2 DEF CallerStates, IdleCaller
  <2> HIDE DEF s
  <2>3. runs'[e] = runs[e] /\ audit'[e] = audit[e] /\ trades'[e] = trades[e] /\ equity'[e] = equity[e]
    BY <1>2, <2>2, SubmittedElsewhere
  <2> QED
    BY <2>1, <2>2, <2>3, RequestElsewhere
<1>3. ASSUME NEW s, caller' = [caller EXCEPT ![c] = s], s.pc # "dispatch",
             caller[c].pc # "dispatch", UNCHANGED <<runs, audit, trades, equity, queue, work>>
      PROVE  OneJob(e)'
  BY <1>3, RequestElsewhere
<1>4. ASSUME NEW x, NEW i, BeginSubmit(c, x, i) PROVE OneJob(e)'
  <2>1. PICK s : s = [pc |-> "check", exp |-> x, row |-> exps[x], idempotent |-> i]
    OBVIOUS
  <2>2. s.pc = "check" /\ caller' = [caller EXCEPT ![c] = s] /\ caller[c].pc = "idle"
    BY <1>4, <2>1 DEF BeginSubmit, MayBegin
  <2>3. UNCHANGED <<runs, audit, trades, equity, queue, work>>
    BY <1>4 DEF BeginSubmit, store
  <2> QED
    BY <1>3, <2>2, <2>3
<1>5. ASSUME NEW x, BeginDirect(c, x) PROVE OneJob(e)'
  <2>1. PICK s : s = [pc |-> "resolve", exp |-> x, row |-> None, idempotent |-> FALSE]
    OBVIOUS
  <2>2. s.pc = "resolve" /\ caller' = [caller EXCEPT ![c] = s] /\ caller[c].pc = "idle"
    BY <1>5, <2>1 DEF BeginDirect, MayBegin
  <2>3. UNCHANGED <<runs, audit, trades, equity, queue, work>>
    BY <1>5 DEF BeginDirect, store
  <2> QED
    BY <1>3, <2>2, <2>3
<1>6. CASE CheckExisting(c)
  <2>1. [caller[c] EXCEPT !.pc = "savePending"].pc = "savePending" /\ IdleCaller.pc = "idle"
    BY <1>0, <1>6 DEF CheckExisting, CallerStates, IdleCaller
  <2> QED
    BY <1>3, <1>6, <2>1 DEF CheckExisting, store
<1>7. CASE SavePending(c)
  <2>1. [caller[c] EXCEPT !.pc = "saveRun"].pc = "saveRun"
    BY <1>0, <1>7 DEF SavePending, CallerStates, IdleCaller
  <2> QED
    BY <1>3, <1>7, <2>1 DEF SavePending
<1>8. CASE EnsureDefinition(c)
  <2>1. [caller[c] EXCEPT !.pc = "saveRun"].pc = "saveRun"
    BY <1>0, <1>8 DEF EnsureDefinition, CallerStates, IdleCaller
  <2> QED
    BY <1>3, <1>8, <2>1 DEF EnsureDefinition
<1>9. CASE Resolve(c)
  <2>1. PICK row : caller' = [caller EXCEPT ![c].pc = "ensure", ![c].row = row]
    BY <1>9, ResolvedRow DEF RunsInv
  <2>2. PICK s : s = [caller[c] EXCEPT !.pc = "ensure", !.row = row]
    OBVIOUS
  <2>3. caller' = [caller EXCEPT ![c] = s]
    BY <2>1, <2>2 DEF RunsInv, TypeInv, ProcessTypes
  <2>4. s.pc = "ensure" /\ caller[c].pc = "resolve"
    BY <1>0, <1>9, <2>2 DEF Resolve, CallerStates, IdleCaller
  <2>5. UNCHANGED <<runs, audit, trades, equity, queue, work>>
    BY <1>9 DEF Resolve, store
  <2> QED
    BY <1>3, <2>3, <2>4, <2>5
<1>10. CASE RequestRaises(c)
  <2>1. IdleCaller.pc = "idle"
    BY DEF IdleCaller
  <2> QED
    BY <1>3, <1>10, <2>1 DEF RequestRaises, store
<1> QED
  BY <1>1, <1>2, <1>4, <1>5, <1>6, <1>7, <1>8, <1>9, <1>10 DEF CallerStep

\* Every step of a job.
LEMMA JobsKeepOneJob ==
    ASSUME RunsInv, [Next]_vars, NEW e \in Experiments, OneJob(e), NEW j \in Jobs,
           JobStep(j) \/ (WriteRaises(j) /\ work[j].exp # e)
    PROVE  OneJob(e)'
<1>0. work \in [Jobs -> WorkStates] /\ work[j] \in WorkStates /\ e # None
  BY DefinitionAssumption DEF RunsInv, TypeInv, ProcessTypes
<1>1. CASE TakeJob(j)
  BY <1>1, TakeStep
<1>2. CASE work[j].exp = e /\ JobStep(j) /\ ~TakeJob(j)
  <2>1. j \in Workers(e)
    BY <1>2 DEF Workers
  <2> QED
    BY <1>2, <2>1, WorkerStep DEF JobStep
<1> SUFFICES ASSUME work[j].exp # e, ~TakeJob(j) PROVE OneJob(e)'
  BY <1>1, <1>2
<1>3. CASE WriteNext(j)
  <2>1. /\ \A k \in Jobs : k # j => work'[k] = work[k]
        /\ work'[j] = AfterWrite(work[j]) /\ UNCHANGED <<queue, caller>>
    BY <1>3, WriteAdvances
  <2>2. work'[j].exp # e
    BY <1>0, <2>1 DEF AfterWrite, NoWork, WorkStates
  <2>3. runs'[e] = runs[e] /\ audit'[e] = audit[e] /\ trades'[e] = trades[e] /\ equity'[e] = equity[e]
    BY <1>3, WrittenElsewhere
  <2> QED
    BY <2>1, <2>2, <2>3, JobElsewhere
<1>4. ASSUME NEW s, work' = [work EXCEPT ![j] = s], s.exp # e,
             UNCHANGED <<runs, audit, trades, equity, queue, caller>>
      PROVE  OneJob(e)'
  <2>1. work'[j] = s /\ \A k \in Jobs : k # j => work'[k] = work[k]
    BY <1>0, <1>4
  <2> QED
    BY <1>4, <2>1, JobElsewhere
<1>5. CASE ReadBars(j)
  <2>1. PICK c, events :
           work' = [work EXCEPT ![j].pc = "closing", ![j].record = None,
                       ![j].script = IF events # <<>> THEN FailScript(work[j].row, events)
                                     ELSE CompleteScript(j, work[j].row, c)]
    BY <1>5, BarsRead
  <2>2. PICK script : script = IF events # <<>> THEN FailScript(work[j].row, events)
                               ELSE CompleteScript(j, work[j].row, c)
    OBVIOUS
  <2>3. PICK s : s = [work[j] EXCEPT !.pc = "closing", !.record = None, !.script = script]
    OBVIOUS
  <2>4. work' = [work EXCEPT ![j] = s]
    BY <1>0, <2>1, <2>2, <2>3
  <2>5. s.exp # e
    BY <1>0, <2>3 DEF WorkStates
  <2>6. UNCHANGED <<runs, audit, trades, equity, queue, caller>>
    BY <1>5 DEF ReadBars, store
  <2> QED
    BY <1>4, <2>4, <2>5, <2>6
<1>6. CASE LoadDefinition(j)
  <2>1. UNCHANGED <<runs, audit, trades, equity, queue, caller>>
    BY <1>6 DEF LoadDefinition, store
  <2>2. work'[j].exp = work[j].exp /\ \A k \in Jobs : k # j => work'[k] = work[k]
    BY <1>0, <1>6 DEF LoadDefinition, WorkStates
  <2> QED
    BY <2>1, <2>2, JobElsewhere
<1>7. CASE ReadRegistry(j)
  <2>1. UNCHANGED <<runs, audit, trades, equity, queue, caller>>
    BY <1>7 DEF ReadRegistry, store
  <2>2. work'[j].exp = work[j].exp /\ \A k \in Jobs : k # j => work'[k] = work[k]
    BY <1>0, <1>7 DEF ReadRegistry, WorkStates
  <2> QED
    BY <2>1, <2>2, JobElsewhere
<1>8. CASE WriteRaises(j)
  <2>1. UNCHANGED <<runs, audit, trades, equity, queue, caller>>
    BY <1>8 DEF WriteRaises, store
  <2>2. work'[j].exp # e /\ \A k \in Jobs : k # j => work'[k] = work[k]
    BY <1>0, <1>8 DEF WriteRaises, WorkStates, NoWork
  <2> QED
    BY <2>1, <2>2, JobElsewhere
<1> QED
  BY <1>3, <1>5, <1>6, <1>7, <1>8 DEF JobStep

\* A crash that cuts nothing of a run short leaves it ended.
LEMMA CrashKeepsOneJob ==
    ASSUME RunsInv, NEW e \in Experiments, OneJob(e), Crash, Clean(e)'
    PROVE  OneJob(e)'
<1>1. ~InFlight(e) /\ e # None
  BY DefinitionAssumption DEF Crash, Clean
<1>2. Dispatching(e) = {} /\ Entries(e) = {} /\ Workers(e) = {}
  BY <1>1 DEF InFlight, Dispatching, Entries, Workers
<1>3. Dispatching(e)' = {} /\ Entries(e)' = {} /\ Workers(e)' = {}
  BY <1>1 DEF Crash, IdleCaller, NoWork, Dispatching, Entries, Workers
<1>4. UNCHANGED <<runs, audit, trades, equity>>
  BY DEF Crash, store
<1> QED
  BY <1>2, <1>3, <1>4, LeftAlone DEF AtMostOne

\* A run that is neither submitted nor worked for stays without a row and without trades.
LEMMA NoRunStays ==
    ASSUME RunsInv, [Next]_vars, NEW e \in Experiments, NoRunYet(e),
           \A c \in Callers : SavePendingRun(c) => caller[c].exp # e
    PROVE  NoRunYet(e)'
<1>1. ASSUME NEW c \in Callers, SavePendingRun(c) PROVE NoRunYet(e)'
  BY <1>1, SubmittedElsewhere DEF NoRunYet, NoRows
<1>2. ASSUME NEW j \in Jobs, WriteNext(j) PROVE NoRunYet(e)'
  <2>1. work[j].exp # e
    BY <1>2, WriteAdvances, WriterIs DEF NoRunYet
  <2> QED
    BY <1>2, <2>1, WrittenElsewhere DEF NoRunYet, NoRows
<1>3. CASE UNCHANGED <<runs, trades, equity>>
  BY <1>3 DEF NoRunYet, NoRows
<1> QED
  BY ZenonT(30), <1>1, <1>2, <1>3
  DEF Next, Create, Request, BeginSubmit, BeginDirect, CallerStep, CheckExisting, SavePending,
      Resolve, EnsureDefinition, Dispatch, RequestRaises, JobStep, TakeJob, LoadDefinition,
      ReadRegistry, ReadBars, WriteRaises, Crash, store, vars

\* What a run was spared it was spared all along.
LEMMA CleanBefore ==
    ASSUME [Next]_vars, NEW e, Clean(e)'
    PROVE  /\ Clean(e)
           /\ \A j \in Jobs : WriteRaises(j) => work[j].exp # e
<1>1. overlapped \subseteq overlapped'
  <2>1. ASSUME NEW c \in Callers, SavePendingRun(c) PROVE overlapped \subseteq overlapped'
    BY <2>1 DEF SavePendingRun
  <2>2. UNCHANGED overlapped \/ \E c \in Callers : SavePendingRun(c)
    BY ZenonT(30)
    DEF Next, Create, Request, BeginSubmit, BeginDirect, CallerStep, CheckExisting, SavePending,
        Resolve, EnsureDefinition, Dispatch, RequestRaises, JobStep, TakeJob, LoadDefinition,
        ReadRegistry, ReadBars, WriteNext, WriteRaises, Crash, history, vars
  <2> QED
    BY <2>1, <2>2
<1>2. broken \subseteq broken'
  <2>1. CASE Crash
    BY <2>1 DEF Crash
  <2>2. ASSUME NEW c, RequestRaises(c) PROVE broken \subseteq broken'
    BY <2>2 DEF RequestRaises
  <2>3. ASSUME NEW j, WriteRaises(j) PROVE broken \subseteq broken'
    BY <2>3 DEF WriteRaises
  <2>4. CASE UNCHANGED broken
    BY <2>4
  <2> QED
    BY ZenonT(30), <2>1, <2>2, <2>3, <2>4
    DEF Next, Create, Request, BeginSubmit, BeginDirect, CallerStep, CheckExisting, SavePending,
        Resolve, EnsureDefinition, SavePendingRun, Dispatch, JobStep, TakeJob, LoadDefinition,
        ReadRegistry, ReadBars, WriteNext, history, vars
<1>3. \A j \in Jobs : WriteRaises(j) => work[j].exp # e
  BY DEF WriteRaises, Clean
<1> QED
  BY <1>1, <1>2, <1>3 DEF Clean

\* Every step keeps a run with one job.
LEMMA OneJobInvStep == RunsInv /\ OneJobInv /\ [Next]_vars => OneJobInv'
<1> SUFFICES ASSUME RunsInv, OneJobInv, [Next]_vars, NEW e \in Experiments, Clean(e)'
             PROVE  NoRunYet(e)' \/ (runs'[e] # None /\ OneJob(e)')
  BY DEF OneJobInv
<1>1. CASE \E c \in Callers : SavePendingRun(c) /\ caller[c].exp = e
  BY <1>1, SubmitStep
<1> SUFFICES ASSUME \A c \in Callers : SavePendingRun(c) => caller[c].exp # e
             PROVE  NoRunYet(e)' \/ (runs'[e] # None /\ OneJob(e)')
  BY <1>1
<1>2. Clean(e) /\ \A j \in Jobs : WriteRaises(j) => work[j].exp # e
  BY CleanBefore
<1>3. CASE NoRunYet(e)
  BY <1>3, NoRunStays
<1> SUFFICES ASSUME runs[e] # None, OneJob(e) PROVE OneJob(e)'
  <2>1. runs[e] # None => runs'[e] # None
    BY RowsKept DEF Kept
  <2> QED
    BY <1>2, <1>3, <2>1 DEF OneJobInv
<1>4. ASSUME UNCHANGED <<runs, audit, trades, equity, queue, caller, work>> PROVE OneJob(e)'
  <2>1. /\ Dispatching(e)' = Dispatching(e) /\ Workers(e)' = Workers(e)
        /\ Entries(e)' = Entries(e) /\ AtMostOne(Entries(e))
    BY <1>4 DEF Dispatching, Workers, Entries, OneJob
  <2> QED
    BY <1>4, <2>1, LeftAlone
<1>5. CASE Request
  BY <1>5, RequestsKeepOneJob DEF Request
<1>6. ASSUME NEW c \in Callers, CallerStep(c) \/ RequestRaises(c) PROVE OneJob(e)'
  BY <1>6, RequestsKeepOneJob
<1>7. ASSUME NEW j \in Jobs, JobStep(j) \/ WriteRaises(j) PROVE OneJob(e)'
  BY <1>2, <1>7, JobsKeepOneJob
<1>8. CASE Crash
  BY <1>8, CrashKeepsOneJob
<1>9. CASE \/ RegistryNext /\ UNCHANGED <<store, queue, caller, work, bounds, history>>
           \/ \E x \in Experiments : Create(x)
           \/ UNCHANGED vars
  BY <1>4, <1>9 DEF Create, store, vars
<1> QED
  BY <1>5, <1>6, <1>7, <1>8, <1>9 DEF Next

\* At the start there is no run.
LEMMA OneJobInvInit == Init => OneJobInv
BY DEF Init, OneJobInv, NoRunYet, NoRows

\* With one request, at one place of the queue, with one job, or ended: the life of a run
\* that was not submitted over and met no failure.
THEOREM RunsHaveOneJob == Spec => []OneJobInv
<1>1. RunsInv /\ OneJobInv /\ [Next]_vars => OneJobInv'
  BY OneJobInvStep
<1> QED
  BY <1>1, OneJobInvInit, RunsStayConsistent, PTL DEF Spec

\* What the tables hold of such a run, once no one is at work on it, is the outcome of one
\* job: of the job that completed, its one completion and its own trades and equity points;
\* of jobs that were refused, no completion, no metrics and no results (_run_job writes
\* results only when it was not refused, and a run with results is not submitted again
\* unless the client overrides the check).
THEOREM RunsTellOfOneJob == Spec => []OutcomeOfOneJob
<1>1. RunsInv /\ OneJobInv => OutcomeOfOneJob
  <2> SUFFICES ASSUME RunsInv, OneJobInv, NEW e \in Experiments,
                      runs[e] # None, ~InFlight(e), e \notin overlapped \cup broken
               PROVE  LET completed == runs[e].status = "COMPLETED"
                          job == runs[e].metrics.job
                      IN /\ Count(audit[e], "JOB_COMPLETED") = IF completed THEN 1 ELSE 0
                         /\ IF completed THEN OnlyOf(trades[e], job) /\ OnlyOf(equity[e], job)
                            ELSE runs[e].metrics = None /\ NoRows(e)
    BY DEF OutcomeOfOneJob, NoRows
  <2>1. OneJob(e)
    BY DEF OneJobInv, Clean, NoRunYet
  <2>2. Dispatching(e) = {} /\ Entries(e) = {} /\ Workers(e) = {}
    BY DEF InFlight, Dispatching, Entries, Workers
  <2>3. Ended(e)
    BY <2>1, <2>2 DEF OneJob
  <2>4. audit[e] \in Seq(EventTypes)
    BY DEF RunsInv, TypeInv, StoreTypes
  <2>5. CASE Started(e, "FAILED") /\ NoRows(e)
    BY <2>4, <2>5, Counted DEF Started, Untold
  <2>6. ASSUME NEW j \in Jobs, Finished(e, j)
        PROVE  /\ Count(audit[e], "JOB_COMPLETED") = 1 /\ runs[e].status = "COMPLETED"
               /\ OnlyOf(trades[e], runs[e].metrics.job) /\ OnlyOf(equity[e], runs[e].metrics.job)
    BY <2>4, <2>6, Counted DEF Finished, Complete, OwnRows
  <2> QED
    BY <2>3, <2>5, <2>6 DEF Ended
<1> QED
  BY <1>1, RunsHaveOneJob, RunsStayConsistent, PTL

=============================================================================
