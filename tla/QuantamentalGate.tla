--------------------------- MODULE QuantamentalGate ---------------------------
(***************************************************************************)
(* Which stocks may be traded: NewsFundamentalAgent                        *)
(* (news_fundamental_agent.py), StockDecisionEngine                        *)
(* (stock_decision_engine.py), and the research bot that publishes a        *)
(* selection with the strategy of the next session                          *)
(* (research_engine/decision_bot.py).  One process carries out one call at *)
(* a time; every call of a collector asks a feed again, and is a step.      *)
(* Scores are in hundredths of a point.                                    *)
(***************************************************************************)
EXTENDS MarketFeeds, SequencesExt

CONSTANTS
    Universe,      \* Seq(Symbols): the candidates of a selection, in order
    Upsides,       \* what analysts may answer, in percent, beside nothing
    Evaluations,   \* sets of backtest results, each [robust, merit, strategy]
    MinScore,      \* min_selection_score, in hundredths
    MaxPortfolio,  \* max_portfolio_size
    MaxCalls       \* bound: calls begun

ASSUME GateAssumption ==
    /\ Universe \in Seq(Symbols) /\ Universe # <<>>
    /\ MinScore \in Nat /\ MaxPortfolio \in Nat

VARIABLES
    op,         \* the call being carried out, or the last one with its answer
    evaluated,  \* the symbols with a row in quantamental_manifests
    trail,      \* the row last added to trade_decisions
    selection,  \* the row last added to stock_selections
    file,       \* the day's decision_<date>.json: {} or {its decision}
    row,        \* the day's row of research_strategy_decisions: {} or {its decision}
    calls       \* bound: calls begun so far, which number the bot's decisions

gateVars == <<op, evaluated, trail, selection, file, row, calls>>

NoOp == [kind |-> "none", pc |-> "done", sym |-> None, rest |-> <<>>, news |-> None, snap |-> None,
         manifest |-> None, second |-> None, candidates |-> <<>>, answer |-> None]

GateInit ==
    /\ op = NoOp
    /\ evaluated = {} /\ trail = None /\ selection = None
    /\ file = {} /\ row = {} /\ calls = 0

\* A table of the audit: the new row, or the old one when the write fails and
\* the failure is only logged.
Logged(old, new) == {old, new}

-----------------------------------------------------------------------------
(* The agent.                                                              *)

\* composite_score: 60 percent of the score centred at 50, 40 of the sentiment.
Composite(s, snap, sentiment) == 12 * FundamentalScore(s, snap) - 6000 + 40 * sentiment

\* Severe news of an article of high urgency.
Alarming(p, bound) == \E i \in p.items : i.high /\ i.score <= bound

\* The manifest evaluate_symbol makes of the two feeds.
Manifest(s, snap, news) ==
    LET c == Composite(s, snap, news.page.sentiment) IN
    [composite |-> c, sentiment |-> news.page.sentiment,
     allow |-> ~Disqualified(snap) /\ ~Alarming(news.page, -85) /\ c > -4000]

Step(kinds, pc) == op.kind \in kinds /\ op.pc = pc

\* An exception ends the call; the research bot goes on without a selection.
Raised ==
    IF op.kind = "research" THEN [op EXCEPT !.pc = "allocate", !.candidates = <<>>]
    ELSE [op EXCEPT !.pc = "raised"]

\* evaluate_symbol, first the news ...
EvaluateNews ==
    /\ Step({"entry", "selection", "research"}, "news")
    /\ LET news == FetchNews(op.sym) IN
       op' = IF news = None THEN Raised ELSE [op EXCEPT !.news = news, !.pc = "snapshot"]
    /\ UNCHANGED <<evaluated, trail, selection, file, row, calls>>

\* ... then the fundamentals, the manifest, and its row.
EvaluateSnapshot ==
    /\ Step({"entry", "selection", "research"}, "snapshot")
    /\ LET snap == FetchSnapshot(op.sym) IN
       IF snap = None THEN op' = Raised /\ UNCHANGED evaluated
       ELSE /\ op' = [op EXCEPT !.snap = snap, !.pc = "second",
                                !.manifest = Manifest(op.sym, snap, op.news)]
            /\ evaluated' \in Logged(evaluated, evaluated \cup {op.sym})
    /\ UNCHANGED <<trail, selection, file, row, calls>>

-----------------------------------------------------------------------------
(* Entries and holdings.                                                   *)

\* bound: no more than MaxCalls.
Ready ==
    /\ op.pc \in {"done", "raised"}
    /\ calls < MaxCalls /\ calls' = calls + 1

Begin(kind, s, rest) ==
    /\ Ready
    /\ op' = [NoOp EXCEPT !.kind = kind, !.pc = "news", !.sym = s, !.rest = rest]
    /\ UNCHANGED <<evaluated, trail, selection, file, row>>

Verdict(action, scale, conviction) == [action |-> action, scale |-> scale, conviction |-> conviction]

\* What TradeDecisionResult takes for a conviction_score.
Convictions == 0..10000

\* The call ends with a verdict and its row.  TradeDecisionResult checks its
\* ranges when it is built: out of them the call raises, and nothing is logged.
Answer(o, verdict) ==
    /\ IF verdict.conviction \in Convictions
       THEN /\ op' = [o EXCEPT !.answer = verdict, !.pc = "done"]
            /\ trail' \in Logged(trail, [kind |-> o.kind, sym |-> o.sym, verdict |-> verdict])
       ELSE op' = Raised /\ UNCHANGED trail
    /\ UNCHANGED <<evaluated, selection, file, row>>

Fail == op' = Raised /\ UNCHANGED <<evaluated, trail, selection, file, row, calls>>

\* evaluate_entry_decision without a technical BUY.
EntryWithoutSignal(s) ==
    Ready /\ Answer([NoOp EXCEPT !.kind = "entry", !.sym = s], Verdict("WAIT", 0, 0))

Sturdy(snap) == snap.tier \in {"PRIME_QUALITY", "SOUND"}

\* The rules of an entry, the first that applies.
EntryRules(disqualified, m, second) ==
    FirstOf(<< <<disqualified, Verdict("VETO", 0, 0)>>,
               <<m.sentiment <= -40, Verdict("VETO", 0, 1500)>>,
               <<m.composite >= 5000 /\ Sturdy(second),
                 Verdict("APPROVE_BUY", 100, Min({9500, m.composite + 2500}))>>,
               <<m.composite >= MinScore, Verdict("APPROVE_BUY", 75, m.composite)>>,
               <<TRUE, Verdict("WAIT", 0, m.composite)>> >>)

\* Mutant: the second snapshot is not looked at.
EntryVerdictOfManifest(m, second) == EntryRules(~m.allow, m, second)

\* evaluate_entry_decision, from the manifest and a second snapshot.
EntryVerdict(m, second) == EntryRules(~m.allow \/ Disqualified(second), m, second)

DecideEntry ==
    /\ Step({"entry"}, "second")
    /\ LET second == FetchSnapshot(op.sym) IN
       IF second = None THEN Fail
       ELSE UNCHANGED calls /\ Answer([op EXCEPT !.second = second], EntryVerdict(op.manifest, second))

\* evaluate_holding_risk: alarming news end it before the fundamentals are asked for.
HoldingNews ==
    /\ Step({"holding"}, "news")
    /\ LET news == FetchNews(op.sym) IN
       IF news = None THEN Fail
       ELSE IF Alarming(news.page, -75) \/ \E i \in news.page.items : i.scandal
       THEN UNCHANGED calls /\ Answer([op EXCEPT !.news = news], Verdict("EMERGENCY_EXIT", 0, 0))
       ELSE /\ op' = [op EXCEPT !.news = news, !.pc = "snapshot"]
            /\ UNCHANGED <<evaluated, trail, selection, file, row, calls>>

HoldingSnapshot ==
    /\ Step({"holding"}, "snapshot")
    /\ LET snap == FetchSnapshot(op.sym) IN
       IF snap = None THEN Fail
       ELSE /\ UNCHANGED calls
            /\ Answer([op EXCEPT !.snap = snap],
                      IF Disqualified(snap) THEN Verdict("EMERGENCY_EXIT", 0, 0) ELSE Verdict("WAIT", 100, 8000))

-----------------------------------------------------------------------------
(* Selections.                                                             *)

BeginSelection(kind) == Begin(kind, Head(Universe), Tail(Universe))

\* What the analysts' upside adds to a score.
Bonus(upside) ==
    IF upside = None THEN 0
    ELSE IF upside > 15 THEN Min({1000, 30 * upside})
    ELSE IF upside < 0 THEN -500 ELSE 0

\* One candidate.  The second snapshot gives the tier its health; its red
\* flags are read only if the manifest, made from the first one, forbids trading.
Candidate(second, upside) ==
    LET score == op.manifest.composite + Bonus(upside)
        tier == FirstOf(<< <<~op.manifest.allow, 4>>, <<score >= 5000 /\ Sturdy(second), 1>>,
                           <<score >= 3500, 2>>, <<score >= MinScore, 3>>, <<TRUE, 4>> >>) IN
    [sym |-> op.sym, score |-> score, tier |-> tier, second |-> second,
     live |-> op.news.live /\ op.snap.live /\ second.live]

Eligible(c) == c.tier # 4

\* The second snapshot and the consensus; the next symbol, or the ranking.
\* fetch_analyst_consensus never raises.
AddCandidate ==
    /\ Step({"selection", "research"}, "second")
    /\ LET second == FetchSnapshot(op.sym) IN
       IF second = None THEN Fail
       ELSE \E upside \in {None} \cup (IF offline THEN {} ELSE Upsides) :
            /\ op' = [NoOp EXCEPT !.kind = op.kind, !.answer = op.answer,
                          !.candidates = Append(op.candidates, Candidate(second, upside)),
                          !.pc = IF op.rest = <<>> THEN "rank" ELSE "news",
                          !.sym = IF op.rest = <<>> THEN None ELSE Head(op.rest),
                          !.rest = IF op.rest = <<>> THEN <<>> ELSE Tail(op.rest)]
            /\ UNCHANGED <<evaluated, trail, selection, file, row, calls>>

\* sort(reverse=True): eligible first, then by score rounded to tenths, ties in order.
Precedes(cs, i, j) ==
    LET key(c) == (IF Eligible(c) THEN 100000 ELSE 0) + (c.score + 5) \div 10 IN
    key(cs[i]) > key(cs[j]) \/ (key(cs[i]) = key(cs[j]) /\ i < j)

Ranking(cs) ==
    [k \in DOMAIN cs |-> cs[CHOOSE j \in DOMAIN cs :
                                Cardinality({i \in DOMAIN cs : Precedes(cs, i, j)}) = k - 1]]

FirstN(seq, n) == SubSeq(seq, 1, Min({n, Len(seq)}))

Selected(cs) == FirstN(SelectSeq(Ranking(cs), Eligible), MaxPortfolio)

TopPicks(cs) ==
    LET best == FirstN(SelectSeq(Ranking(cs), LAMBDA c : c.tier = 1), 3) IN
    IF best # <<>> THEN best ELSE FirstN(Selected(cs), 2)

Names(cs) == [i \in DOMAIN cs |-> cs[i].sym]

\* The selection, its row, and the answer.
FinishSelection ==
    /\ Step({"selection", "research"}, "rank")
    /\ LET s == [selected |-> Names(Selected(op.candidates)), top |-> Names(TopPicks(op.candidates)),
                 excluded |-> Names(SelectSeq(Ranking(op.candidates), LAMBDA c : ~Eligible(c)))] IN
       /\ selection' \in Logged(selection, s)
       /\ op' = IF op.kind = "research" THEN [op EXCEPT !.pc = "allocate"]
                ELSE [op EXCEPT !.answer = s, !.pc = "done"]
    /\ UNCHANGED <<evaluated, trail, file, row, calls>>

-----------------------------------------------------------------------------
(* The research bot.                                                       *)

\* sorted by (is_robust, dsr * profit_factor); WAIT unless the first is robust.
Allocation(results) ==
    LET best == {r \in results : \A q \in results :
                    \/ r.robust /\ ~q.robust
                    \/ r.robust = q.robust /\ r.merit >= q.merit} IN
    IF \E r \in best : r.robust THEN {[strategy |-> r.strategy, risk |-> 1] : r \in best}
    ELSE {[strategy |-> "WAIT", risk |-> 0]}

\* run_eod_research_cycle: the backtests, the allocation, then a selection whose
\* failure leaves the decision without one.
BeginResearch(results) ==
    /\ Ready
    /\ \E a \in Allocation(results) :
        op' = [NoOp EXCEPT !.kind = "research", !.pc = "news", !.sym = Head(Universe),
                           !.rest = Tail(Universe), !.answer = a]
    /\ UNCHANGED <<evaluated, trail, selection, file, row>>

Torn == [id |-> 0]

\* Mutant: the database is told before the file is written.
OpenFileStored ==
    /\ Step({"research"}, "allocate")
    /\ file' = {Torn}
    /\ row' = {[id |-> calls]}
    /\ op' = [op EXCEPT !.pc = "write"]
    /\ UNCHANGED <<evaluated, trail, selection, calls>>

\* open(manifest_path, "w"): the day's earlier decision is gone ...
OpenFile ==
    /\ Step({"research"}, "allocate")
    /\ file' = {Torn}
    /\ op' = [op EXCEPT !.pc = "write"]
    /\ UNCHANGED <<evaluated, trail, selection, row, calls>>

Decision == [id |-> calls, allocation |-> op.answer,
             selected |-> IF op.candidates = <<>> THEN None ELSE Names(Selected(op.candidates))]

\* ... json.dump, which may fail ...
WriteFile ==
    /\ Step({"research"}, "write")
    /\ \/ file' = {Decision} /\ op' = [op EXCEPT !.pc = "store"]
       \/ file' = file /\ op' = [op EXCEPT !.pc = "raised"]
    /\ UNCHANGED <<evaluated, trail, selection, row, calls>>

\* ... and _persist_to_database, whose failure is only logged.
StoreDecision ==
    /\ Step({"research"}, "store")
    /\ row' \in Logged(row, {Decision})
    /\ op' = [op EXCEPT !.pc = "done"]
    /\ UNCHANGED <<evaluated, trail, selection, file, calls>>

\* The process dies; the tables and the file stay.
GateCrash == op.pc # "done" /\ op' = NoOp /\ UNCHANGED <<evaluated, trail, selection, file, row, calls>>

DecisionCalls ==
    \/ \E s \in Symbols : EntryWithoutSignal(s) \/ Begin("entry", s, <<>>) \/ Begin("holding", s, <<>>)
    \/ BeginSelection("selection")
    \/ DecideEntry \/ HoldingNews \/ HoldingSnapshot

ResearchCalls ==
    \/ \E results \in Evaluations : BeginResearch(results)
    \/ OpenFile \/ WriteFile \/ StoreDecision \/ GateCrash

SharedCalls == EvaluateNews \/ EvaluateSnapshot \/ AddCandidate \/ FinishSelection

-----------------------------------------------------------------------------
(* Properties.                                                             *)

Done(kind) == op.kind = kind /\ op.pc = "done"

\* Where synthetic data is not allowed, an approval and a place among the
\* selected rest on live news and on live fundamentals at both of their
\* readings, whatever the feeds did between them (RELEASE_EVIDENCE.md:65,
\* "DataUnavailableError raised, no synthetic fallback").
ApprovalsOnLiveEvidence ==
    Strict =>
        /\ Done("entry") /\ op.answer.action = "APPROVE_BUY" =>
                op.news.live /\ op.snap.live /\ op.second.live
        /\ Done("holding") /\ op.answer.action = "WAIT" => op.news.live /\ op.snap.live
        /\ \A i \in DOMAIN op.candidates : op.candidates[i].live

\* No entry is approved against a red flag in either reading of the
\* fundamentals, an alarming article, or a sentiment of -40 and below; and no
\* holding is kept against one: each verdict is taken after the feeds may have
\* changed (stock_decision_engine.py:507, "Hard Disqualification Veto").
NoTradeAgainstRedFlags ==
    /\ Done("entry") /\ op.answer.action = "APPROVE_BUY" =>
            /\ ~Disqualified(op.snap) /\ ~Disqualified(op.second)
            /\ ~Alarming(op.news.page, -85) /\ op.news.page.sentiment > -40
    /\ Done("holding") /\ op.answer.action = "WAIT" =>
            ~Disqualified(op.snap) /\ ~Alarming(op.news.page, -75)

\* The decision that the assistant reports from the database has been written
\* to the file that the daemon trades from: the file holds it, or a later one,
\* or the remains of writing a later one (decision_bot.py writes the file first).
ReportedIsPublished ==
    \A r \in row : \E f \in file : f.id >= r.id \/ (f = Torn /\ calls > r.id)

=============================================================================
