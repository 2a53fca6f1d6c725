--------------------------- MODULE ExperimentRuns ---------------------------
(***************************************************************************)
(* The life of an experiment: the routes that create and submit it         *)
(* (apps/api/routes/experiments.py), the service that dispatches its jobs   *)
(* to a pool of worker threads and runs them                                *)
(* (services/backtest-engine/service.py), and the SQLite store they write   *)
(* to (services/backtest-engine/persistence.py).  Every call of the store   *)
(* is a transaction of its own, and a step of its own here: other threads,  *)
(* a failing write and a crash come between any two.  The store is a file   *)
(* and survives a crash; the executor's queue, the threads, the registry    *)
(* and the bars do not.                                                     *)
(***************************************************************************)
EXTENDS DatasetRegistry

CONSTANTS
    Experiments,      \* experiment ids
    Definition,       \* [Experiments -> definition]: what a client asks for
    TradesOf,         \* [Contents -> Nat]: trades a simulation of these bars makes
    Callers,          \* threads serving API requests
    PoolSize,         \* threads of the executor
    MaxJobs,          \* bound: jobs dispatched in all
    MaxFailures       \* bound: failing writes and crashes

KnownStrategies == {"Canonical_SMA", "ORB", "VWAP_Reversion", "SMA_Cross", "Canonical_BuyAndHold"}
SupportedStrategies == {"Canonical_SMA", "SMA_Cross", "Canonical_BuyAndHold", "BuyAndHold"}

ASSUME DefinitionAssumption ==
    /\ TradesOf \in [Contents -> Nat]
    /\ \A e \in Experiments : Definition[e].version \in Versions
    /\ MaxJobs \in Nat /\ None \notin Experiments

Jobs == 1..MaxJobs

\* The rows of the tables experiments and backtest_runs.
Statuses == {"CREATED", "PENDING", "RUNNING", "COMPLETED", "FAILED"}
Checksums == {None} \cup {Definition[e].checksum : e \in Experiments} \cup {d.checksum : d \in Declared}
ExperimentRows == [version : Versions, checksum : Checksums, status : Statuses]
Metrics == [job : Jobs, bars : Contents]
RunRows == [status : Statuses, metrics : Metrics \cup {None}]

ASSUME RowAssumption == None \notin ExperimentRows \cup Metrics \cup RunRows

VARIABLES
    exps,       \* [Experiments -> row of table experiments or None]
    runs,       \* [Experiments -> row of table backtest_runs or None]
    audit,      \* [Experiments -> Seq of event types]: table audit_events
    trades,     \* [Experiments -> Seq of rows]: table trades
    equity,     \* [Experiments -> Seq of rows]: table equity_curves
    queue,      \* the executor's queue of <<job, experiment>>
    caller,     \* [Callers -> where a request is and what it read]
    work,       \* [Jobs -> where a job is, what it read, what it has to write]
    jobs,       \* bound and job number: jobs dispatched so far
    failures,   \* bound: writes that failed and crashes so far
    overlapped, \* history: experiments submitted over a run that was active or still writing
    broken,     \* history: experiments a crash or a failed write touched
    lost        \* history: those whose job ended with its status unwritten

store == <<exps, runs, audit, trades, equity>>
bounds == <<jobs, failures>>
history == <<overlapped, broken, lost>>
vars == <<registryVars, store, queue, caller, work, bounds, history>>

IdleCaller == [pc |-> "idle", exp |-> None]
NoWork == [pc |-> "idle", exp |-> None, row |-> None, record |-> None, script |-> <<>>]

Init ==
    /\ RegistryInit
    /\ exps = [e \in Experiments |-> None]
    /\ runs = [e \in Experiments |-> None]
    /\ audit = [e \in Experiments |-> <<>>]
    /\ trades = [e \in Experiments |-> <<>>]
    /\ equity = [e \in Experiments |-> <<>>]
    /\ queue = <<>>
    /\ caller = [c \in Callers |-> IdleCaller]
    /\ work = [j \in Jobs |-> NoWork]
    /\ jobs = 0 /\ failures = 0
    /\ overlapped = {} /\ broken = {} /\ lost = {}

\* The jobs the threads of the pool are busy with.
Running == {j \in Jobs : work[j].pc # "idle"}

Restrained == UNCHANGED <<registryVars, bounds>>

-----------------------------------------------------------------------------
(* The store.                                                              *)

SaveExperiment(e, row, status) == exps' = [exps EXCEPT ![e] = [row EXCEPT !.status = status]]

\* save_run: INSERT OR REPLACE.  The row replaced is deleted first, and the
\* foreign key of audit_events cascades: the trail of the experiment goes
\* with it.  Trades and equity points have no such key and stay.
SaveRun(e) ==
    /\ runs' = [runs EXCEPT ![e] = [status |-> "PENDING", metrics |-> None]]
    /\ audit' = [audit EXCEPT ![e] = <<>>]
    /\ UNCHANGED <<exps, trades, equity>>

\* update_status: the metrics are kept when none are given.
UpdateStatus(e, status, metrics) ==
    runs' = [runs EXCEPT ![e].status = status,
                         ![e].metrics = IF metrics = None THEN @ ELSE metrics]

\* One write of a job: the tables it touches.
Write(e, w) ==
    CASE w.op = "audit" ->
            audit' = [audit EXCEPT ![e] = @ \o w.events] /\ UNCHANGED <<exps, runs, trades, equity>>
      [] w.op = "trade" ->
            trades' = [trades EXCEPT ![e] = Append(@, w.row)] /\ UNCHANGED <<exps, runs, audit, equity>>
      [] w.op = "equity" ->
            equity' = [equity EXCEPT ![e] = Append(@, w.row)] /\ UNCHANGED <<exps, runs, audit, trades>>
      [] w.op = "status" ->
            UpdateStatus(e, w.status, w.metrics) /\ UNCHANGED <<exps, audit, trades, equity>>
      [] w.op = "experiment" ->
            SaveExperiment(e, w.row, w.status) /\ UNCHANGED <<runs, audit, trades, equity>>

\* Events written one after the other are one step here.
Audit(events) == [op |-> "audit", events |-> events]
Status(status, metrics) == [op |-> "status", status |-> status, metrics |-> metrics]
Experiment(row, status) == [op |-> "experiment", row |-> row, status |-> status]

-----------------------------------------------------------------------------
(* The routes and the submission.                                          *)

\* validate_experiment_payload: what the create route lets through.
Validated(d) == d.strategy \in KnownStrategies /\ d.universe # {} /\ d.checksum # None

Row(version, checksum, status) == [version |-> version, checksum |-> checksum, status |-> status]

\* POST /experiments: the definition alone.
Create(e) ==
    /\ exps[e] = None
    /\ Validated(Definition[e])
    /\ exps' = [exps EXCEPT ![e] = Row(Definition[e].version, Definition[e].checksum, "CREATED")]
    /\ UNCHANGED <<runs, audit, trades, equity, queue, caller, work, history>>
    /\ Restrained

Submitting == {c \in Callers : caller[c].pc # "idle"}

\* bound: a request begins only if its job is within MaxJobs.
MayBegin(c) == caller[c].pc = "idle" /\ jobs + Cardinality(Submitting) < MaxJobs

\* POST /experiments/{id}/submit: the definition is read, then submit_experiment.
BeginSubmit(c, e, idempotent) ==
    /\ MayBegin(c)
    /\ exps[e] # None
    /\ caller' = [caller EXCEPT ![c] = [pc |-> "check", exp |-> e, row |-> exps[e],
                                        idempotent |-> idempotent]]
    /\ UNCHANGED <<store, queue, work, history>>
    /\ Restrained

\* submit_backtest called directly, on a fresh experiment id.
BeginDirect(c, e) ==
    /\ MayBegin(c)
    /\ exps[e] = None /\ \A d \in Callers : caller[d].exp # e
    /\ Definition[e].universe # {}
    /\ caller' = [caller EXCEPT ![c] = [pc |-> "resolve", exp |-> e, row |-> None,
                                        idempotent |-> FALSE]]
    /\ UNCHANGED <<store, queue, work, history>>
    /\ Restrained

HasStatus(e, statuses) == runs[e] # None /\ runs[e].status \in statuses

\* The statuses a second submission is answered from.
IsActive(e) == HasStatus(e, {"PENDING", "RUNNING", "COMPLETED"})

\* get_run, and the early return "already_submitted".
CheckExisting(c) ==
    /\ caller[c].pc = "check"
    /\ caller' = [caller EXCEPT ![c] =
                    IF IsActive(caller[c].exp) /\ caller[c].idempotent
                    THEN IdleCaller ELSE [@ EXCEPT !.pc = "savePending"]]
    /\ UNCHANGED <<store, queue, work, history>>
    /\ Restrained

SavePending(c) ==
    /\ caller[c].pc = "savePending"
    /\ SaveExperiment(caller[c].exp, caller[c].row, "PENDING")
    /\ caller' = [caller EXCEPT ![c].pc = "saveRun"]
    /\ UNCHANGED <<runs, audit, trades, equity, queue, work, history>>
    /\ Restrained

\* submit_backtest without a version or a checksum: those of the record
\* updated last, else a fixed version and a checksum of zeros (None here).
Resolve(c) ==
    /\ caller[c].pc = "resolve"
    /\ LET record == GetDataset(None)
           version == IF record = None THEN Definition[caller[c].exp].version ELSE latest
           checksum == IF record = None THEN None ELSE record.declared.checksum IN
       caller' = [caller EXCEPT ![c].pc = "ensure", ![c].row = Row(version, checksum, "CREATED")]
    /\ UNCHANGED <<store, queue, work, history>>
    /\ Restrained

\* A fresh definition is saved (submit_experiment has just saved its own).
EnsureDefinition(c) ==
    /\ caller[c].pc = "ensure"
    /\ exps' = [exps EXCEPT ![caller[c].exp] = IF @ = None THEN caller[c].row ELSE @]
    /\ caller' = [caller EXCEPT ![c].pc = "saveRun"]
    /\ UNCHANGED <<runs, audit, trades, equity, queue, work, history>>
    /\ Restrained

\* save_run.  history: a run already active is submitted over when the client
\* asked for it (idempotent=False), when another request came between, or when
\* the run reads FAILED and its job has still to write the definition.
SavePendingRun(c) ==
    /\ caller[c].pc = "saveRun"
    /\ LET e == caller[c].exp IN
       /\ SaveRun(e)
       /\ overlapped' = IF IsActive(e) \/ \E j \in Running : work[j].exp = e
                        THEN overlapped \cup {e} ELSE overlapped
    /\ caller' = [caller EXCEPT ![c].pc = "dispatch"]
    /\ UNCHANGED <<queue, work, broken, lost>>
    /\ Restrained

\* executor.submit
Dispatch(c) ==
    /\ caller[c].pc = "dispatch"
    /\ jobs' = jobs + 1
    /\ queue' = Append(queue, <<jobs + 1, caller[c].exp>>)
    /\ caller' = [caller EXCEPT ![c] = IdleCaller]
    /\ UNCHANGED <<registryVars, store, work, failures, history>>

CallerStep(c) ==
    CheckExisting(c) \/ SavePending(c) \/ Resolve(c) \/ EnsureDefinition(c)
        \/ SavePendingRun(c) \/ Dispatch(c)

-----------------------------------------------------------------------------
(* The job.                                                                *)

\* A refusal of _run_job is a condition and the events it writes.

\* What is asked for.
DefinitionRefusals(d) ==
    << <<d.universe = {}, <<"DATA_UNAVAILABLE">> >>,
       <<d.strategy \notin SupportedStrategies, <<"UNSUPPORTED_STRATEGY">> >> >>

\* The record of the version, as the registry has it.
RegistryRefusals(d, record) ==
    << <<record = None, <<"DATA_UNAVAILABLE">> >>,
       <<record # None /\ record.quality \in {"CORRUPTED", "REJECTED"},
         <<"DATASET_REJECTED", "DATA_UNAVAILABLE">> >>,
       <<record # None /\ record.declared.timeframe # d.timeframe,
         <<"TIMEFRAME_MISMATCH", "DATA_UNAVAILABLE">> >> >>

\* The bars against the record and against the definition.
BarRefusals(d, row, record, c) ==
    LET known == record # None
        found == c # None IN
    << <<~found, <<"DATA_UNAVAILABLE">> >>,
       <<known /\ found /\ CountOf[c] # record.declared.count,
         <<"BAR_COUNT_MISMATCH", "DATA_UNAVAILABLE">> >>,
       <<found /\ TimeframeOf[c] # d.timeframe,
         <<"TIMEFRAME_MISMATCH", "DATA_UNAVAILABLE">> >>,
       <<known /\ found /\ c # record.declared.checksum,
         <<"DATA_DRIFT", "CHECKSUM_MISMATCH", "DATA_UNAVAILABLE">> >>,
       <<found /\ c # row.checksum, <<"CHECKSUM_MISMATCH", "DATA_UNAVAILABLE">> >> >>

\* Each bar by itself; a flaw in any bar refuses the job with one event.
IntegrityRefusal(c) ==
    <<c # None /\ FlawsOf[c] # {}, <<"DATA_INTEGRITY_VIOLATION", "DATA_UNAVAILABLE">> >>

\* The symbols, in the record and then in the bars.
CoverageRefusals(d, record, c) ==
    << <<record # None /\ ~(d.universe \subseteq record.declared.symbols),
         <<"MISSING_SYMBOL", "DATA_UNAVAILABLE">> >>,
       <<c # None /\ ~(d.universe \subseteq SymbolsOf[c]), <<"DATA_UNAVAILABLE">> >> >>

\* The risk engine's opinion of a first order of 5 percent of the capital.
RiskRefusal(d) == <<~d.riskApproved, <<"RISK_REJECTED">> >>

\* All of them, in the order of the code.
Refusals(e, row, record, c) ==
    LET d == Definition[e] IN
    DefinitionRefusals(d) \o RegistryRefusals(d, record) \o BarRefusals(d, row, record, c)
        \o <<IntegrityRefusal(c)>> \o CoverageRefusals(d, record, c) \o <<RiskRefusal(d)>>

\* Mutant: the checksums are not compared.
FirstEventsAnyChecksum(rs) ==
    LET applying == {i \in DOMAIN rs : rs[i][1] /\ ~Contains(rs[i][2], "CHECKSUM_MISMATCH")} IN
    IF applying = {} THEN <<>> ELSE rs[Min(applying)][2]

\* The events of the first refusal of rs that applies; none if the job may run.
FirstEvents(rs) ==
    LET applying == {i \in DOMAIN rs : rs[i][1]} IN
    IF applying = {} THEN <<>> ELSE rs[Min(applying)][2]

\* Mutant: the event of the completion is written however the job ends.
FailScriptFinally(row, events) ==
    <<Audit(events), Status("FAILED", None), Experiment(row, "FAILED"), Audit(<<"JOB_COMPLETED">>)>>

\* What a refused job writes.
FailScript(row, events) ==
    <<Audit(events), Status("FAILED", None), Experiment(row, "FAILED")>>

TradeRow(job, i, c) == [job |-> job, n |-> i, bars |-> c]
Trades(job, c) == [i \in 1..TradesOf[c] |-> [op |-> "trade", row |-> TradeRow(job, i, c)]]
EquityPoints(job, c) == [i \in 1..CountOf[c] |-> [op |-> "equity", row |-> TradeRow(job, i, c)]]

\* Mutant: the run is reported complete before its results are written.
CompleteScriptEarly(job, row, c) ==
    <<Status("COMPLETED", [job |-> job, bars |-> c])>>
    \o Trades(job, c) \o EquityPoints(job, c)
    \o <<Audit(<<"JOB_COMPLETED">>), Experiment(row, "COMPLETED")>>

\* What a job that may run writes, in order.
CompleteScript(job, row, c) ==
    <<Audit((IF TradesOf[c] = 0 THEN <<>>
             ELSE <<"SIGNAL_GENERATED", "ORDER_PROPOSED", "RISK_CHECK_EVALUATED", "ORDER_FILLED">>)
            \o <<"PORTFOLIO_STATE_UPDATED">>)>>
    \o Trades(job, c) \o EquityPoints(job, c)
    \o <<Status("COMPLETED", [job |-> job, bars |-> c]), Audit(<<"JOB_COMPLETED">>),
         Experiment(row, "COMPLETED")>>

\* A free thread takes the first job of the queue.
TakeJob(j) ==
    /\ queue # <<>> /\ Head(queue)[1] = j
    /\ Cardinality(Running) < PoolSize
    /\ work' = [work EXCEPT ![j] =
                    [NoWork EXCEPT !.pc = "opening", !.exp = Head(queue)[2],
                                       !.script = <<Status("RUNNING", None), Audit(<<"JOB_STARTED">>)>>]]
    /\ queue' = Tail(queue)
    /\ UNCHANGED <<store, caller, history>>
    /\ Restrained

\* get_experiment: the row the job will write back at each change of status.
LoadDefinition(j) ==
    /\ work[j].pc \in {"load", "reload"}
    /\ LET row == exps[work[j].exp] IN
       work' = [work EXCEPT ![j].row = row,
                                ![j].pc = IF @ = "load" THEN "marking" ELSE "rescued",
                                ![j].script = <<Experiment(row, IF work[j].pc = "load"
                                                                THEN "RUNNING" ELSE "FAILED")>>]
    /\ UNCHANGED <<store, queue, caller, history>>
    /\ Restrained

\* The record of the version asked for is read ...
ReadRegistry(j) ==
    /\ work[j].pc = "registry"
    /\ work' = [work EXCEPT ![j].record = GetDataset(work[j].row.version),
                                ![j].pc = "bars"]
    /\ UNCHANGED <<store, queue, caller, history>>
    /\ Restrained

\* ... and then the bars; the job is refused, or simulated.
ReadBars(j) ==
    /\ work[j].pc = "bars"
    /\ LET s == work[j]
           c == BarsFor(s.row.version) IN
       \E refusals \in {Refusals(s.exp, s.row, s.record, c)} :
          LET events == FirstEvents(refusals) IN
          work' = [work EXCEPT ![j].pc = "closing", ![j].record = None,
                       ![j].script = IF events # <<>> THEN FailScript(s.row, events)
                                     ELSE CompleteScript(j, s.row, c)]
    /\ UNCHANGED <<store, queue, caller, history>>
    /\ Restrained

\* Where a job goes when its script is written.
AfterScript(pc) ==
    CASE pc = "opening" -> "load"
      [] pc = "marking" -> "registry"
      [] pc = "rescue" -> "reload"
      [] pc \in {"closing", "rescued"} -> "idle"

\* Where a job stands after a write: at the next one, at its next read, or at its end.
AfterWrite(s) ==
    IF Len(s.script) > 1 THEN [s EXCEPT !.script = Tail(s.script)]
    ELSE IF AfterScript(s.pc) = "idle" THEN NoWork
    ELSE [s EXCEPT !.script = <<>>, !.pc = AfterScript(s.pc)]

\* The next write of the script.
WriteNext(j) ==
    /\ work[j].script # <<>>
    /\ Write(work[j].exp, Head(work[j].script))
    /\ work' = [work EXCEPT ![j] = AfterWrite(work[j])]
    /\ UNCHANGED <<queue, caller, history>>
    /\ Restrained

JobStep(j) == TakeJob(j) \/ LoadDefinition(j) \/ ReadRegistry(j) \/ ReadBars(j) \/ WriteNext(j)

-----------------------------------------------------------------------------
(* Failures.                                                               *)

\* Mutant: the handler only reports the error.
RescueReporting == <<Audit(<<"JOB_ERROR">>)>>

\* What the exception handler of _run_job writes first.
Rescue == <<Audit(<<"JOB_ERROR">>), Status("FAILED", None)>>

\* bound: each failure counts once; one that persists in the handler is free.
Fails(again) ==
    /\ again \/ failures < MaxFailures
    /\ failures' = IF again THEN failures ELSE failures + 1

\* A write raises: the exception handler takes over; raised again inside it,
\* the job ends there (the future that holds the exception is never read).
WriteRaises(j) ==
    /\ work[j].script # <<>>
    /\ LET inHandler == work[j].pc \in {"rescue", "rescued"} IN
       /\ Fails(inHandler)
       /\ work' = [work EXCEPT ![j] =
                       IF inHandler THEN NoWork
                       ELSE [@ EXCEPT !.pc = "rescue", !.script = Rescue]]
       /\ lost' = IF work[j].pc = "rescue" THEN lost \cup {work[j].exp} ELSE lost
    /\ broken' = broken \cup {work[j].exp}
    /\ UNCHANGED <<registryVars, store, queue, caller, jobs, overlapped>>

\* A write of a request raises: the client gets an error.
RequestRaises(c) ==
    /\ caller[c].pc \in {"savePending", "ensure", "saveRun"}
    /\ Fails(FALSE)
    /\ broken' = broken \cup {caller[c].exp}
    /\ caller' = [caller EXCEPT ![c] = IdleCaller]
    /\ UNCHANGED <<registryVars, store, queue, work, jobs, overlapped, lost>>

InFlight(e) ==
    \/ \E c \in Callers : caller[c].exp = e
    \/ \E i \in 1..Len(queue) : queue[i][2] = e
    \/ \E j \in Jobs : work[j].exp = e

\* The process dies and starts again on the same file.
Crash ==
    /\ Fails(FALSE)
    /\ LET cut == {e \in Experiments : InFlight(e)} IN
       broken' = broken \cup cut /\ lost' = lost \cup cut
    /\ registry' = [v \in Versions |-> None]
    /\ latest' = None
    /\ bars' = [k \in Versions \cup {None} |-> None]
    /\ edits' = 0
    /\ queue' = <<>>
    /\ caller' = [c \in Callers |-> IdleCaller]
    /\ work' = [j \in Jobs |-> NoWork]
    /\ UNCHANGED <<store, jobs, overlapped>>

Request ==
    \E c \in Callers, e \in Experiments :
        (\E idempotent \in BOOLEAN : BeginSubmit(c, e, idempotent)) \/ BeginDirect(c, e)

Next ==
    \/ RegistryNext /\ UNCHANGED <<store, queue, caller, work, bounds, history>>
    \/ \E e \in Experiments : Create(e)
    \/ Request
    \/ \E c \in Callers : CallerStep(c) \/ RequestRaises(c)
    \/ \E j \in Jobs : JobStep(j) \/ WriteRaises(j)
    \/ Crash

\* A request that has begun is served, and the pool keeps running its jobs:
\* nothing is owed by clients, by the registry's users, or by failures.
Fairness ==
    /\ \A c \in Callers : WF_vars(CallerStep(c))
    /\ \A j \in Jobs : WF_vars(JobStep(j))

Spec == Init /\ [][Next]_vars /\ Fairness

-----------------------------------------------------------------------------
(* Properties.                                                             *)

\* The rows of a job are the first n of those that it makes of bars c, in order.
Recorded(rows, job, c, n) ==
    LET own == {i \in DOMAIN rows : rows[i].job = job} IN
    /\ {rows[i] : i \in own} = {TradeRow(job, k, c) : k \in 1..n}
    /\ \A i, k \in own : i < k => rows[i].n < rows[k].n

\* A run whose status is COMPLETED has metrics, and every trade and equity
\* point those metrics were computed from is in its tables, in order: a
\* client that sees COMPLETED may read the results (_run_job writes the
\* status last; persistence.py commits each row on its own).
CompletedIsBacked ==
    \A e \in Experiments :
        runs[e] # None /\ runs[e].status = "COMPLETED" =>
            LET m == runs[e].metrics IN
            /\ m # None
            /\ Recorded(trades[e], m.job, m.bars, TradesOf[m.bars])
            /\ Recorded(equity[e], m.job, m.bars, CountOf[m.bars])

\* Every result recorded for an experiment was computed from the bars its
\* definition names by checksum, whatever versions were registered, replaced
\* or quarantined meanwhile ("every backtest must be reproducible").
ResultsReproducible ==
    \A e \in Experiments :
        runs[e] # None /\ runs[e].metrics # None => runs[e].metrics.bars = exps[e].checksum

Count(seq, x) == Cardinality({i \in DOMAIN seq : seq[i] = x})

OnlyOf(rows, job) == \A i \in 1..Len(rows) : rows[i].job = job

\* What the tables hold of a finished run is the outcome of one job, also when
\* earlier jobs of the experiment were refused: of a completed run, one completion
\* in the trail, and no trade or equity point but those of the job its metrics are
\* of (clients read both by the experiment alone); of another, no completion, no
\* metrics and no results.  Trades and equity points are never deleted, so this
\* breaks once a submission overlaps an active run, a write fails or the
\* process dies.
OutcomeOfOneJob ==
    \A e \in Experiments :
        runs[e] # None /\ ~InFlight(e) /\ e \notin overlapped \cup broken =>
            LET completed == runs[e].status = "COMPLETED"
                job == runs[e].metrics.job
            IN /\ Count(audit[e], "JOB_COMPLETED") = IF completed THEN 1 ELSE 0
               /\ IF completed THEN OnlyOf(trades[e], job) /\ OnlyOf(equity[e], job)
                  ELSE runs[e].metrics = None /\ trades[e] = <<>> /\ equity[e] = <<>>

\* A submitted run ends: it is completed or failed, unless the process died
\* with it or the failure could not be written either.
SubmittedRunEnds ==
    \A e \in Experiments :
        HasStatus(e, {"PENDING", "RUNNING"}) ~>
            (HasStatus(e, {"COMPLETED", "FAILED"}) \/ e \in lost)

=============================================================================
