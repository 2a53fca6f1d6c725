-------------------------- MODULE IntelligenceProofs --------------------------
(***************************************************************************)
(* Proofs about IntelligenceAssistant: what approvals, selections and        *)
(* published decisions rest on, and what a marked tier has been through, for *)
(* any symbols, feeds, fixtures, universe and backtest results.             *)
(***************************************************************************)
EXTENDS IntelligenceAssistant, TLAPS

(* Rules, the first of which that applies.                                 *)

LEMMA Five ==
    ASSUME NEW a, NEW b, NEW c, NEW d, NEW e, NEW ps, ps = <<a, b, c, d, e>>
    PROVE  ps[1] = a /\ ps[2] = b /\ ps[3] = c /\ ps[4] = d /\ ps[5] = e
OBVIOUS

\* A rule that holds and has none before it that does gives the verdict.
LEMMA FirstHolds ==
    ASSUME NEW ps, NEW n \in Nat, DOMAIN ps = 1..n, NEW k \in 1..n, ps[k][1],
           \A j \in 1..n : j < k => ~ps[j][1]
    PROVE  FirstOf(ps) = ps[k][2]
<1>a. PICK S : S = {i \in DOMAIN ps : ps[i][1]}
  OBVIOUS
<1>1. k \in S /\ S \subseteq 1..n
  BY <1>a, Zenon
<1>2. \A j \in S : ~ (j < k)
  BY <1>a, Zenon
<1>3. \A j \in S : k <= j
  BY <1>1, <1>2
<1>4. Min(S) \in S /\ \A j \in S : Min(S) <= j
  BY <1>1, <1>3 DEF Min
<1>5. Min(S) = k
  <2>1. \A j \in 1..n : j \in Int
    OBVIOUS
  <2>2. Min(S) \in Int /\ k \in Int
    BY <1>1, <1>4, <2>1, Zenon
  <2>3. Min(S) <= k /\ k <= Min(S)
    BY <1>1, <1>3, <1>4, Zenon
  <2> QED
    BY <2>2, <2>3
<1> QED
  BY <1>a, <1>5, Zenon DEF FirstOf

\* An approved entry has passed the rules that veto it, the second snapshot's among them.
LEMMA ApprovedPassesVetoes ==
    ASSUME NEW m, NEW second, EntryVerdict(m, second).action = "APPROVE_BUY"
    PROVE  m.allow /\ ~Disqualified(second) /\ ~(m.sentiment <= -40)
<1> DEFINE c1 == ~m.allow \/ Disqualified(second)
           c2 == m.sentiment <= -40
           c3 == m.composite >= 5000 /\ Sturdy(second)
           c4 == m.composite >= MinScore
           v1 == Verdict("VETO", 0, 0)
           v2 == Verdict("VETO", 0, 1500)
           v3 == Verdict("APPROVE_BUY", 100, Min({9500, m.composite + 2500}))
           v4 == Verdict("APPROVE_BUY", 75, m.composite)
           v5 == Verdict("WAIT", 0, m.composite)
           rules == << <<c1, v1>>, <<c2, v2>>, <<c3, v3>>, <<c4, v4>>, <<TRUE, v5>> >>
<1>1. EntryVerdict(m, second) = FirstOf(rules)
  BY DEF EntryVerdict, EntryRules
<1>2. v1.action = "VETO" /\ v2.action = "VETO"
  BY DEF Verdict
<1> HIDE DEF v1, v2, v3, v4, v5, c1, c2, c3, c4
<1>3. DOMAIN rules = 1..5
  OBVIOUS
<1>4. rules[1] = <<c1, v1>> /\ rules[2] = <<c2, v2>>
  BY Five, Zenon
<1> HIDE DEF rules
<1>5. /\ rules[1][1] <=> c1
      /\ rules[2][1] <=> c2
  BY <1>4
<1>6. rules[1][2] = v1 /\ rules[2][2] = v2
  BY <1>4
<1>7. c1 => FirstOf(rules) = v1
  <2>1. 5 \in Nat /\ 1 \in 1..5 /\ \A j \in 1..5 : ~(j < 1)
    OBVIOUS
  <2> QED
    BY <1>3, <1>5, <1>6, <2>1, FirstHolds, Zenon
<1>8. ~c1 /\ c2 => FirstOf(rules) = v2
  <2>1. 5 \in Nat /\ 2 \in 1..5 /\ \A j \in 1..5 : j < 2 => j = 1
    OBVIOUS
  <2> QED
    BY <1>3, <1>5, <1>6, <2>1, FirstHolds, Zenon
<1>9. ~c1 /\ ~c2
  BY <1>1, <1>2, <1>7, <1>8
<1> QED
  BY <1>9 DEF c1, c2

-----------------------------------------------------------------------------
(* The feeds.                                                              *)

Feeds ==
    /\ page \in [Symbols -> Pages \cup {None}]
    /\ offline \in BOOLEAN /\ fallback \in BOOLEAN

\* Evidence that a strict collector may hand out.
Fresh(x) == Strict => x.live

LEMMA RangeOfIntegers == ASSUME NEW a, NEW b, NEW x \in a..b PROVE x \in Int
OBVIOUS

\* What a collector hands out is fresh, and an average is a number.
LEMMA FetchedNews ==
    ASSUME Feeds, NEW s \in Symbols, FetchNews(s) # None
    PROVE  Fresh(FetchNews(s)) /\ FetchNews(s).page.sentiment \in Int
<1>1. \A p \in Pages \cup {FixturePage[t] : t \in Symbols} : p.sentiment \in Int
  BY FeedAssumption, RangeOfIntegers, Zenon DEF IsPage
<1>2. CASE ~offline /\ page[s] # None
  <2>1. FetchNews(s) = [live |-> TRUE, page |-> page[s]]
    BY <1>2 DEF FetchNews
  <2>2. page[s] \in Pages
    BY <1>2 DEF Feeds
  <2> QED
    BY <1>1, <2>1, <2>2 DEF Fresh
<1>3. CASE ~(~offline /\ page[s] # None)
  <2>1. ~Strict /\ FetchNews(s) = [live |-> FALSE, page |-> FixturePage[s]]
    BY <1>3 DEF FetchNews, OfflineNews
  <2> QED
    BY <1>1, <2>1 DEF Fresh
<1> QED
  BY <1>2, <1>3

LEMMA FetchedSnapshot ==
    ASSUME NEW s, FetchSnapshot(s) # None
    PROVE  Fresh(FetchSnapshot(s))
<1>1. CASE ~offline /\ info[s] # None
  <2>1. FetchSnapshot(s) = LiveSnapshot(s, info[s])
    BY <1>1 DEF FetchSnapshot
  <2>2. LiveSnapshot(s, info[s]).live
    BY DEF LiveSnapshot
  <2> QED
    BY <2>1, <2>2 DEF Fresh
<1>2. CASE ~(~offline /\ info[s] # None)
  BY <1>2 DEF FetchSnapshot, Fresh
<1> QED
  BY <1>1, <1>2

-----------------------------------------------------------------------------
(* Operations.                                                             *)

\* What an operation carries with it.
Operation(o) ==
    o = [kind |-> o.kind, pc |-> o.pc, sym |-> o.sym, rest |-> o.rest, news |-> o.news,
         snap |-> o.snap, manifest |-> o.manifest, second |-> o.second,
         candidates |-> o.candidates, answer |-> o.answer]

Typed(o) ==
    /\ Operation(o)
    /\ o.pc \in {"news", "snapshot", "second"} => o.sym \in Symbols
    /\ o.rest \in Seq(Symbols)
    /\ \E S : o.candidates \in Seq(S)

\* Evidence gathered so far: a holding that has come to its fundamentals was not
\* let go for its news, and the manifest was made of what was read before it.
Gathered(o) ==
    /\ o.pc \in {"snapshot", "second"} => Fresh(o.news) /\ o.news.page.sentiment \in Int
    /\ o.pc = "snapshot" /\ o.kind = "holding" => ~Alarming(o.news.page, -75)
    /\ o.pc = "second" => Fresh(o.snap) /\ o.manifest = Manifest(o.sym, o.snap, o.news)

Candidates(o) == \A i \in DOMAIN o.candidates : Fresh(o.candidates[i])

\* What an approval, and a holding kept, were decided on.
Decided(o) ==
    /\ o.kind = "entry" /\ o.pc = "done" /\ o.answer.action = "APPROVE_BUY" =>
          /\ Fresh(o.news) /\ Fresh(o.snap) /\ Fresh(o.second)
          /\ ~Disqualified(o.snap) /\ ~Disqualified(o.second)
          /\ ~Alarming(o.news.page, -85) /\ o.news.page.sentiment > -40
    /\ o.kind = "holding" /\ o.pc = "done" /\ o.answer.action = "WAIT" =>
          /\ Fresh(o.news) /\ Fresh(o.snap)
          /\ ~Disqualified(o.snap) /\ ~Alarming(o.news.page, -75)

Grounded(o) == Typed(o) /\ Gathered(o) /\ Candidates(o) /\ Decided(o)

GateInv == Feeds /\ Grounded(op)

\* An operation that begins.
Begun(k, pc, s, rest, a) ==
    [kind |-> k, pc |-> pc, sym |-> s, rest |-> rest, news |-> None, snap |-> None,
     manifest |-> None, second |-> None, candidates |-> <<>>, answer |-> a]

LEMMA BegunIsGrounded ==
    ASSUME NEW k, NEW pc \in {"news", "done"}, NEW s \in Symbols \cup {None},
           NEW rest \in Seq(Symbols), NEW a,
           pc = "news" => s \in Symbols,
           pc = "done" => k = "none" \/ (k = "entry" /\ a.action = "WAIT"),
           NEW o, o = Begun(k, pc, s, rest, a)
    PROVE  Grounded(o) /\ o.pc = pc
<1>1. <<>> \in Seq(Symbols) /\ DOMAIN <<>> = {}
  OBVIOUS
<1>2. /\ o.kind = k /\ o.pc = pc /\ o.sym = s /\ o.rest = rest /\ o.candidates = <<>> /\ o.answer = a
      /\ Operation(o)
  BY DEF Begun, Operation
<1> QED
  BY <1>1, <1>2 DEF Grounded, Typed, Gathered, Candidates, Decided

LEMMA NoOpIsGrounded == Grounded(NoOp)
<1>1. NoOp = Begun("none", "done", None, <<>>, None)
  BY DEF NoOp, Begun
<1>2. <<>> \in Seq(Symbols)
  OBVIOUS
<1> QED
  BY <1>1, <1>2, BegunIsGrounded

\* An operation that goes on, or ends, without publishing.
Onward(o) ==
    /\ o.kind = op.kind
    /\ op.pc \notin {"done", "raised"} /\ o.pc \notin {"write", "store"}

\* An operation that an exception ends.
LEMMA RaisedIsGrounded ==
    ASSUME Grounded(op), op.pc \notin {"done", "raised"}
    PROVE  Grounded(Raised) /\ Onward(Raised)
<1>1. CASE op.kind = "research"
  <2>a. PICK o : o = Raised
    OBVIOUS
  <2>1. o = [op EXCEPT !.pc = "allocate", !.candidates = <<>>]
    BY <1>1, <2>a DEF Raised
  <2>2. o = [kind |-> op.kind, pc |-> "allocate", sym |-> op.sym, rest |-> op.rest, news |-> op.news,
             snap |-> op.snap, manifest |-> op.manifest, second |-> op.second,
             candidates |-> <<>>, answer |-> op.answer]
    BY <2>1 DEF Grounded, Typed, Operation
  <2>3. <<>> \in Seq(Symbols) /\ DOMAIN <<>> = {}
    OBVIOUS
  <2> QED
    BY <1>1, <2>a, <2>2, <2>3 DEF Grounded, Typed, Operation, Gathered, Candidates, Decided, Onward
<1>2. CASE op.kind # "research"
  <2>a. PICK o : o = Raised
    OBVIOUS
  <2>1. o = [op EXCEPT !.pc = "raised"]
    BY <1>2, <2>a DEF Raised
  <2>2. o = [kind |-> op.kind, pc |-> "raised", sym |-> op.sym, rest |-> op.rest, news |-> op.news,
             snap |-> op.snap, manifest |-> op.manifest, second |-> op.second,
             candidates |-> op.candidates, answer |-> op.answer]
    BY <2>1 DEF Grounded, Typed, Operation
  <2> QED
    BY <1>2, <2>a, <2>2 DEF Grounded, Typed, Operation, Gathered, Candidates, Decided, Onward
<1> QED
  BY <1>1, <1>2

\* Operations with some of their fields given.
Fields(o, pc, news, snap, manifest, second, answer) ==
    [kind |-> o.kind, pc |-> pc, sym |-> o.sym, rest |-> o.rest, news |-> news, snap |-> snap,
     manifest |-> manifest, second |-> second, candidates |-> o.candidates, answer |-> answer]

\* What the fields of such an operation are.
LEMMA FieldsOf ==
    ASSUME NEW o, NEW pc, NEW news, NEW snap, NEW manifest, NEW second, NEW answer, NEW u,
           u = Fields(o, pc, news, snap, manifest, second, answer)
    PROVE  /\ Operation(u)
           /\ u.kind = o.kind /\ u.pc = pc /\ u.sym = o.sym /\ u.rest = o.rest /\ u.news = news
           /\ u.snap = snap /\ u.manifest = manifest /\ u.second = second
           /\ u.candidates = o.candidates /\ u.answer = answer
BY DEF Operation, Fields

LEMMA EvaluateNewsStep ==
    ASSUME GateInv, EvaluateNews
    PROVE  Grounded(op') /\ Onward(op')
<1>a. PICK news : news = FetchNews(op.sym)
  OBVIOUS
<1>1. op.pc = "news" /\ op.sym \in Symbols /\ op.kind # "holding"
  BY DEF EvaluateNews, Step, GateInv, Grounded, Typed
<1>2. CASE news = None
  <2>1. op' = Raised
    BY <1>a, <1>2 DEF EvaluateNews
  <2> QED
    BY <1>1, <2>1, RaisedIsGrounded DEF GateInv
<1>3. CASE news # None
  <2>a. PICK o : o = op'
    OBVIOUS
  <2>1. o = [op EXCEPT !.news = news, !.pc = "snapshot"]
    BY <1>a, <1>3, <2>a DEF EvaluateNews
  <2>2. Fresh(news) /\ news.page.sentiment \in Int
    BY <1>a, <1>1, <1>3, FetchedNews DEF GateInv
  <2>3. o = Fields(op, "snapshot", news, op.snap, op.manifest, op.second, op.answer)
    BY <2>1 DEF GateInv, Grounded, Typed, Operation, Fields
  <2>4. Grounded(o) /\ Onward(o)
    BY <1>1, <2>2, <2>3, FieldsOf DEF GateInv, Grounded, Typed, Gathered, Candidates, Decided, Onward
  <2> QED
    BY <2>a, <2>4
<1> QED
  BY <1>2, <1>3

LEMMA EvaluateSnapshotStep ==
    ASSUME GateInv, EvaluateSnapshot
    PROVE  Grounded(op') /\ Onward(op')
<1>a. PICK snap : snap = FetchSnapshot(op.sym)
  OBVIOUS
<1>1. op.pc = "snapshot" /\ op.sym \in Symbols /\ op.kind # "holding"
  BY DEF EvaluateSnapshot, Step, GateInv, Grounded, Typed
<1>2. CASE snap = None
  <2>1. op' = Raised
    BY <1>a, <1>2 DEF EvaluateSnapshot
  <2> QED
    BY <1>1, <2>1, RaisedIsGrounded DEF GateInv
<1>3. CASE snap # None
  <2>a. PICK manifest : manifest = Manifest(op.sym, snap, op.news)
    OBVIOUS
  <2>b. PICK o : o = op'
    OBVIOUS
  <2>1. o = [op EXCEPT !.snap = snap, !.pc = "second", !.manifest = manifest]
    BY <1>a, <1>3, <2>a, <2>b DEF EvaluateSnapshot
  <2>2. Fresh(snap)
    BY <1>a, <1>3, FetchedSnapshot
  <2>3. o = Fields(op, "second", op.news, snap, manifest, op.second, op.answer)
    BY <2>1 DEF GateInv, Grounded, Typed, Operation, Fields
  <2>4. Grounded(o) /\ Onward(o)
    BY <1>1, <2>2, <2>3, <2>a, FieldsOf DEF GateInv, Grounded, Typed, Gathered, Candidates, Decided, Onward
  <2> QED
    BY <2>b, <2>4
<1> QED
  BY <1>2, <1>3

\* A manifest that allows an entry.
LEMMA ManifestAllows ==
    ASSUME NEW s, NEW snap, NEW news, NEW m, m = Manifest(s, snap, news)
    PROVE  /\ m.sentiment = news.page.sentiment
           /\ m.allow => ~Disqualified(snap) /\ ~Alarming(news.page, -85)
<1>a. PICK c : c = Composite(s, snap, news.page.sentiment)
  OBVIOUS
<1> DEFINE d == ~Disqualified(snap) /\ ~Alarming(news.page, -85) /\ c > -4000
<1>1. m = [composite |-> c, sentiment |-> news.page.sentiment, allow |-> d]
  BY <1>a DEF Manifest
<1> HIDE DEF d
<1>2. m.sentiment = news.page.sentiment /\ m.allow = d
  BY <1>1
<1>3. CASE Disqualified(snap) \/ Alarming(news.page, -85)
  <2>1. d = FALSE
    BY <1>3, SMT DEF d
  <2> QED
    BY <1>2, <2>1
<1>4. CASE ~(Disqualified(snap) \/ Alarming(news.page, -85))
  BY <1>2, <1>4
<1> QED
  BY <1>3, <1>4

\* What a call that answers makes of the operation.
LEMMA AnsweredOperation ==
    ASSUME NEW o, Operation(o), NEW verdict, Answer(o, verdict)
    PROVE  op' = Raised \/ op' = Fields(o, "done", o.news, o.snap, o.manifest, o.second, verdict)
<1>a. PICK u : u = [o EXCEPT !.answer = verdict, !.pc = "done"]
  OBVIOUS
<1>1. op' = Raised \/ op' = u
  BY <1>a, SMT DEF Answer
<1>2. u = Fields(o, "done", o.news, o.snap, o.manifest, o.second, verdict)
  BY <1>a DEF Operation, Fields
<1> QED
  BY <1>1, <1>2

LEMMA DecideEntryStep ==
    ASSUME GateInv, DecideEntry
    PROVE  Grounded(op') /\ Onward(op')
<1>a. PICK second : second = FetchSnapshot(op.sym)
  OBVIOUS
<1>1. op.pc = "second" /\ op.kind = "entry"
  BY DEF DecideEntry, Step
<1>2. CASE second = None
  BY <1>a, <1>1, <1>2, RaisedIsGrounded DEF DecideEntry, Fail, GateInv
<1>3. CASE second # None
  <2>a. PICK o : o = [op EXCEPT !.second = second]
    OBVIOUS
  <2>b. PICK v : v = EntryVerdict(op.manifest, second)
    OBVIOUS
  <2>1. Answer(o, v)
    BY <1>a, <1>3, <2>a, <2>b DEF DecideEntry
  <2>2. o = Fields(op, "second", op.news, op.snap, op.manifest, second, op.answer)
    BY <1>1, <2>a DEF GateInv, Grounded, Typed, Operation, Fields
  <2>3. CASE op' = Raised
    BY <1>1, <2>3, RaisedIsGrounded DEF GateInv
  <2>4. CASE op' = Fields(o, "done", o.news, o.snap, o.manifest, o.second, v)
    <3>a. PICK u : u = Fields(o, "done", o.news, o.snap, o.manifest, o.second, v)
      OBVIOUS
    <3>1. Fresh(second)
      BY <1>a, <1>3, FetchedSnapshot
    <3>2. /\ Fresh(op.news) /\ Fresh(op.snap) /\ op.news.page.sentiment \in Int
          /\ op.manifest = Manifest(op.sym, op.snap, op.news)
      BY <1>1 DEF GateInv, Grounded, Gathered
    <3>3. v.action = "APPROVE_BUY" =>
            /\ ~Disqualified(op.snap) /\ ~Disqualified(second)
            /\ ~Alarming(op.news.page, -85) /\ op.news.page.sentiment > -40
      <4> SUFFICES ASSUME v.action = "APPROVE_BUY"
                   PROVE  /\ ~Disqualified(op.snap) /\ ~Disqualified(second)
                          /\ ~Alarming(op.news.page, -85) /\ op.news.page.sentiment > -40
        OBVIOUS
      <4>1. op.manifest.allow /\ ~Disqualified(second) /\ ~(op.manifest.sentiment <= -40)
        BY <2>b, ApprovedPassesVetoes
      <4>2. /\ op.manifest.sentiment = op.news.page.sentiment
            /\ ~Disqualified(op.snap) /\ ~Alarming(op.news.page, -85)
        BY <3>2, <4>1, ManifestAllows
      <4> QED
        BY <3>2, <4>1, <4>2
    <3>4. /\ o.news = op.news /\ o.snap = op.snap /\ o.second = second /\ o.kind = "entry"
          /\ o.rest = op.rest /\ o.candidates = op.candidates
      BY <1>1, <2>2, FieldsOf
    <3>5. /\ Operation(u) /\ u.kind = "entry" /\ u.pc = "done" /\ u.rest = op.rest
          /\ u.news = op.news /\ u.snap = op.snap /\ u.second = second
          /\ u.candidates = op.candidates /\ u.answer = v
      BY <3>a, <3>4, FieldsOf
    <3>6. Grounded(u) /\ Onward(u)
      BY <1>1, <3>1, <3>2, <3>3, <3>5 DEF GateInv, Grounded, Typed, Gathered, Candidates, Decided, Onward
    <3> QED
      BY <2>4, <3>a, <3>6
  <2>5. Operation(o)
    BY <2>2, FieldsOf
  <2> QED
    BY <2>1, <2>3, <2>4, <2>5, AnsweredOperation
<1> QED
  BY <1>2, <1>3

LEMMA HoldingNewsStep ==
    ASSUME GateInv, HoldingNews
    PROVE  Grounded(op') /\ Onward(op')
<1>a. PICK news : news = FetchNews(op.sym)
  OBVIOUS
<1>1. op.pc = "news" /\ op.kind = "holding" /\ op.sym \in Symbols
  BY DEF HoldingNews, Step, GateInv, Grounded, Typed
<1>2. CASE news = None
  BY <1>a, <1>1, <1>2, RaisedIsGrounded DEF HoldingNews, Fail, GateInv
<1>3. CASE news # None /\ (Alarming(news.page, -75) \/ \E i \in news.page.items : i.scandal)
  <2>a. PICK o : o = [op EXCEPT !.news = news]
    OBVIOUS
  <2>b. PICK v : v = Verdict("EMERGENCY_EXIT", 0, 0)
    OBVIOUS
  <2>1. Answer(o, v)
    BY <1>a, <1>3, <2>a, <2>b DEF HoldingNews
  <2>2. o = Fields(op, "news", news, op.snap, op.manifest, op.second, op.answer)
    BY <1>1, <2>a DEF GateInv, Grounded, Typed, Operation, Fields
  <2>3. Operation(o)
    BY <2>2, FieldsOf
  <2>4. CASE op' = Raised
    BY <1>1, <2>4, RaisedIsGrounded DEF GateInv
  <2>5. CASE op' = Fields(o, "done", o.news, o.snap, o.manifest, o.second, v)
    <3>a. PICK u : u = Fields(o, "done", o.news, o.snap, o.manifest, o.second, v)
      OBVIOUS
    <3>1. v.action = "EMERGENCY_EXIT"
      BY <2>b DEF Verdict
    <3>2. /\ Operation(u) /\ u.kind = "holding" /\ u.pc = "done" /\ u.rest = op.rest
          /\ u.candidates = op.candidates /\ u.answer = v
      BY <1>1, <2>2, <3>a, FieldsOf
    <3>3. Grounded(u) /\ Onward(u)
      BY <1>1, <3>1, <3>2 DEF GateInv, Grounded, Typed, Gathered, Candidates, Decided, Onward
    <3> QED
      BY <2>5, <3>a, <3>3
  <2> QED
    BY <2>1, <2>3, <2>4, <2>5, AnsweredOperation
<1>4. CASE news # None /\ ~(Alarming(news.page, -75) \/ \E i \in news.page.items : i.scandal)
  <2>a. PICK o : o = op'
    OBVIOUS
  <2>1. o = [op EXCEPT !.news = news, !.pc = "snapshot"]
    BY <1>a, <1>4, <2>a DEF HoldingNews
  <2>2. o = Fields(op, "snapshot", news, op.snap, op.manifest, op.second, op.answer)
    BY <2>1 DEF GateInv, Grounded, Typed, Operation, Fields
  <2>3. Fresh(news) /\ news.page.sentiment \in Int
    BY <1>a, <1>1, <1>4, FetchedNews DEF GateInv
  <2>4. Grounded(o) /\ Onward(o)
    BY <1>1, <1>4, <2>2, <2>3, FieldsOf DEF GateInv, Grounded, Typed, Gathered, Candidates, Decided, Onward
  <2> QED
    BY <2>a, <2>4
<1> QED
  BY <1>2, <1>3, <1>4

LEMMA HoldingSnapshotStep ==
    ASSUME GateInv, HoldingSnapshot
    PROVE  Grounded(op') /\ Onward(op')
<1>a. PICK snap : snap = FetchSnapshot(op.sym)
  OBVIOUS
<1>1. op.pc = "snapshot" /\ op.kind = "holding"
  BY DEF HoldingSnapshot, Step
<1>2. CASE snap = None
  BY <1>a, <1>1, <1>2, RaisedIsGrounded DEF HoldingSnapshot, Fail, GateInv
<1>3. CASE snap # None
  <2>a. PICK o : o = [op EXCEPT !.snap = snap]
    OBVIOUS
  <2>b. PICK v : v = IF Disqualified(snap) THEN Verdict("EMERGENCY_EXIT", 0, 0) ELSE Verdict("WAIT", 100, 8000)
    OBVIOUS
  <2>1. Answer(o, v)
    BY <1>a, <1>3, <2>a, <2>b DEF HoldingSnapshot
  <2>2. o = Fields(op, "snapshot", op.news, snap, op.manifest, op.second, op.answer)
    BY <1>1, <2>a DEF GateInv, Grounded, Typed, Operation, Fields
  <2>3. Operation(o)
    BY <2>2, FieldsOf
  <2>4. CASE op' = Raised
    BY <1>1, <2>4, RaisedIsGrounded DEF GateInv
  <2>5. CASE op' = Fields(o, "done", o.news, o.snap, o.manifest, o.second, v)
    <3>a. PICK u : u = Fields(o, "done", o.news, o.snap, o.manifest, o.second, v)
      OBVIOUS
    <3>1. v.action = "WAIT" => ~Disqualified(snap)
      BY <2>b DEF Verdict
    <3>2. Fresh(snap)
      BY <1>a, <1>3, FetchedSnapshot
    <3>3. Fresh(op.news) /\ ~Alarming(op.news.page, -75)
      BY <1>1 DEF GateInv, Grounded, Gathered
    <3>4. /\ o.news = op.news /\ o.snap = snap /\ o.kind = "holding"
          /\ o.rest = op.rest /\ o.candidates = op.candidates
      BY <1>1, <2>2, FieldsOf
    <3>5. /\ Operation(u) /\ u.kind = "holding" /\ u.pc = "done" /\ u.rest = op.rest
          /\ u.news = op.news /\ u.snap = snap
          /\ u.candidates = op.candidates /\ u.answer = v
      BY <3>a, <3>4, FieldsOf
    <3>6. Grounded(u) /\ Onward(u)
      BY <1>1, <3>1, <3>2, <3>3, <3>5 DEF GateInv, Grounded, Typed, Gathered, Candidates, Decided, Onward
    <3> QED
      BY <2>5, <3>a, <3>6
  <2> QED
    BY <2>1, <2>3, <2>4, <2>5, AnsweredOperation
<1> QED
  BY <1>2, <1>3

LEMMA EntryWithoutSignalStep ==
    ASSUME NEW s \in Symbols, EntryWithoutSignal(s)
    PROVE  Grounded(op') /\ op'.pc = "done"
<1>a. PICK o : o = [NoOp EXCEPT !.kind = "entry", !.sym = s]
  OBVIOUS
<1>b. PICK v : v = Verdict("WAIT", 0, 0)
  OBVIOUS
<1>1. o = Begun("entry", "done", s, <<>>, None)
  BY <1>a DEF NoOp, Begun
<1>2. v.action = "WAIT" /\ v.conviction \in Convictions
  BY <1>b DEF Verdict, Convictions
<1>3. Answer(o, v)
  BY <1>a, <1>b DEF EntryWithoutSignal
<1>c. PICK u : u = [o EXCEPT !.answer = v, !.pc = "done"]
  OBVIOUS
<1>4. op' = u
  BY <1>2, <1>3, <1>c, SMT DEF Answer
<1>5. u = Begun("entry", "done", s, <<>>, v)
  BY <1>1, <1>c DEF Begun
<1>6. <<>> \in Seq(Symbols)
  OBVIOUS
<1> QED
  BY <1>2, <1>4, <1>5, <1>6, BegunIsGrounded

LEMMA BeginStep ==
    ASSUME NEW k, NEW s \in Symbols, NEW rest \in Seq(Symbols), Begin(k, s, rest)
    PROVE  Grounded(op') /\ op'.pc = "news"
<1>a. PICK o : o = op'
  OBVIOUS
<1>1. o = [NoOp EXCEPT !.kind = k, !.pc = "news", !.sym = s, !.rest = rest]
  BY <1>a DEF Begin
<1>2. o = Begun(k, "news", s, rest, None)
  BY <1>1 DEF NoOp, Begun
<1>3. Grounded(o) /\ o.pc = "news"
  BY <1>2, BegunIsGrounded
<1> QED
  BY <1>a, <1>3

\* The universe has a first symbol.
LEMMA FirstOfUniverse == Head(Universe) \in Symbols /\ Tail(Universe) \in Seq(Symbols)
BY GateAssumption

LEMMA BeginResearchStep ==
    ASSUME NEW results, BeginResearch(results)
    PROVE  Grounded(op') /\ op'.pc = "news"
<1>a. PICK a \in Allocation(results) :
        op' = [NoOp EXCEPT !.kind = "research", !.pc = "news", !.sym = Head(Universe),
                           !.rest = Tail(Universe), !.answer = a]
  BY DEF BeginResearch
<1>b. PICK o : o = op'
  OBVIOUS
<1>1. o = Begun("research", "news", Head(Universe), Tail(Universe), a)
  BY <1>a, <1>b DEF NoOp, Begun
<1>2. Grounded(o) /\ o.pc = "news"
  BY <1>1, FirstOfUniverse, BegunIsGrounded
<1> QED
  BY <1>b, <1>2

\* A candidate was made of what was read of its symbol.
LEMMA CandidateIsFresh ==
    ASSUME NEW second, NEW upside, Fresh(second), Fresh(op.news), Fresh(op.snap)
    PROVE  Fresh(Candidate(second, upside))
<1>1. Candidate(second, upside).live = (op.news.live /\ op.snap.live /\ second.live)
  BY DEF Candidate
<1> QED
  BY <1>1 DEF Fresh

\* A sequence and one more.
LEMMA Appended ==
    ASSUME NEW S, NEW seq \in Seq(S), NEW x
    PROVE  /\ Append(seq, x) \in Seq(S \cup {x})
           /\ \A i \in DOMAIN Append(seq, x) :
                 (i \in DOMAIN seq /\ Append(seq, x)[i] = seq[i]) \/ Append(seq, x)[i] = x
<1>1. seq \in Seq(S \cup {x}) /\ x \in S \cup {x} /\ Len(seq) \in Nat /\ DOMAIN seq = 1..Len(seq)
  OBVIOUS
<1>2. /\ Append(seq, x) \in Seq(S \cup {x}) /\ Len(Append(seq, x)) = Len(seq) + 1
      /\ \A i \in 1..Len(seq) + 1 : Append(seq, x)[i] = IF i <= Len(seq) THEN seq[i] ELSE x
  BY <1>1
<1>3. DOMAIN Append(seq, x) = 1..Len(seq) + 1
  BY <1>2
<1> QED
  BY <1>1, <1>2, <1>3

LEMMA AddCandidateStep ==
    ASSUME GateInv, AddCandidate
    PROVE  Grounded(op') /\ Onward(op')
<1>a. PICK second : second = FetchSnapshot(op.sym)
  OBVIOUS
<1>1. op.pc = "second" /\ op.kind \in {"selection", "research"}
  BY DEF AddCandidate, Step
<1>2. CASE second = None
  BY <1>a, <1>1, <1>2, RaisedIsGrounded DEF AddCandidate, Fail, GateInv
<1>3. CASE second # None
  <2>a. PICK upside : 
            op' = [NoOp EXCEPT !.kind = op.kind, !.answer = op.answer,
                          !.candidates = Append(op.candidates, Candidate(second, upside)),
                          !.pc = IF op.rest = <<>> THEN "rank" ELSE "news",
                          !.sym = IF op.rest = <<>> THEN None ELSE Head(op.rest),
                          !.rest = IF op.rest = <<>> THEN <<>> ELSE Tail(op.rest)]
    BY <1>a, <1>3 DEF AddCandidate
  <2>b. PICK o : o = op'
    OBVIOUS
  <2>c. PICK c : c = Candidate(second, upside)
    OBVIOUS
  <2>d. PICK S : op.candidates \in Seq(S)
    BY DEF GateInv, Grounded, Typed
  <2>e. PICK cs : cs = Append(op.candidates, c)
    OBVIOUS
  <2>1. /\ Operation(o)
        /\ o.kind = op.kind /\ o.answer = op.answer /\ o.candidates = cs
        /\ o.pc = IF op.rest = <<>> THEN "rank" ELSE "news"
        /\ o.sym = IF op.rest = <<>> THEN None ELSE Head(op.rest)
        /\ o.rest = IF op.rest = <<>> THEN <<>> ELSE Tail(op.rest)
    BY <2>a, <2>b, <2>c, <2>e DEF NoOp, Operation
  <2>2. Fresh(c)
    <3>1. Fresh(second)
      BY <1>a, <1>3, FetchedSnapshot
    <3>2. Fresh(op.news) /\ Fresh(op.snap)
      BY <1>1 DEF GateInv, Grounded, Gathered
    <3> QED
      BY <2>c, <3>1, <3>2, CandidateIsFresh
  <2>3. /\ cs \in Seq(S \cup {c})
        /\ \A i \in DOMAIN cs : (i \in DOMAIN op.candidates /\ cs[i] = op.candidates[i]) \/ cs[i] = c
    BY <2>d, <2>e, Appended
  <2>4. Candidates(o)
    BY <2>1, <2>2, <2>3 DEF GateInv, Grounded, Candidates
  <2>5. Typed(o)
    <3>1. op.rest \in Seq(Symbols)
      BY DEF GateInv, Grounded, Typed
    <3>2. op.rest # <<>> => Head(op.rest) \in Symbols /\ Tail(op.rest) \in Seq(Symbols)
      BY <3>1
    <3>3. o.rest \in Seq(Symbols) /\ (o.pc \in {"news", "snapshot", "second"} => o.sym \in Symbols)
      BY <2>1, <3>1, <3>2
    <3> QED
      BY <2>1, <2>3, <3>3 DEF Typed
  <2>6. Gathered(o) /\ Decided(o) /\ Onward(o)
    BY <1>1, <2>1 DEF Gathered, Decided, Onward
  <2> QED
    BY <2>b, <2>4, <2>5, <2>6 DEF Grounded
<1> QED
  BY <1>2, <1>3

\* Steps after the last symbol read no feed.
LEMMA LaterStep ==
    ASSUME GateInv, op.kind \in {"selection", "research"}, NEW pc, NEW answer,
           pc \in {"allocate", "done", "write", "store", "raised"}, NEW o,
           o = Fields(op, pc, op.news, op.snap, op.manifest, op.second, answer)
    PROVE  Grounded(o)
<1>1. /\ Operation(o) /\ o.kind = op.kind /\ o.pc = pc /\ o.rest = op.rest
      /\ o.candidates = op.candidates
  BY FieldsOf
<1> QED
  BY <1>1 DEF GateInv, Grounded, Typed, Gathered, Candidates, Decided

LEMMA LaterSteps ==
    ASSUME GateInv, FinishSelection \/ OpenFile \/ WriteFile \/ StoreDecision
    PROVE  Grounded(op')
<1>a. PICK o : o = op'
  OBVIOUS
<1>1. op.kind \in {"selection", "research"} /\ Operation(op)
  BY DEF FinishSelection, OpenFile, WriteFile, StoreDecision, Step, GateInv, Grounded, Typed
<1>2. (\E pc \in {"allocate", "write", "store", "done", "raised"} : o = [op EXCEPT !.pc = pc])
        \/ \E s : o = [op EXCEPT !.answer = s, !.pc = "done"]
  BY <1>a DEF FinishSelection, OpenFile, WriteFile, StoreDecision
<1>3. ASSUME NEW pc \in {"allocate", "write", "store", "done", "raised"}, o = [op EXCEPT !.pc = pc]
      PROVE  Grounded(o)
  <2>1. o = Fields(op, pc, op.news, op.snap, op.manifest, op.second, op.answer)
    BY <1>1, <1>3 DEF Operation, Fields
  <2> QED
    BY <1>1, <2>1, LaterStep
<1>4. ASSUME NEW s, o = [op EXCEPT !.answer = s, !.pc = "done"]
      PROVE  Grounded(o)
  <2>1. o = Fields(op, "done", op.news, op.snap, op.manifest, op.second, s)
    BY <1>1, <1>4 DEF Operation, Fields
  <2> QED
    BY <1>1, <2>1, LaterStep
<1> QED
  BY <1>a, <1>2, <1>3, <1>4

\* What holds of the operation looks at no feed but through Strict.
LEMMA GroundedNext ==
    ASSUME UNCHANGED <<offline, fallback>>, Grounded(op')
    PROVE  Grounded(op)'
<1>1. Strict' = Strict
  BY DEF Strict
<1> QED
  BY <1>1 DEF Grounded, Typed, Operation, Gathered, Candidates, Decided, Fresh

LEMMA GateInvInit == Init => GateInv
<1> SUFFICES ASSUME Init
             PROVE  GateInv
  OBVIOUS
<1>1. Feeds
  BY FeedAssumption DEF Init, FeedsInit, Feeds
<1>2. Grounded(op)
  BY NoOpIsGrounded DEF Init, GateInit
<1> QED
  BY <1>1, <1>2 DEF GateInv

\* Every step of the decision engine and of the research bot keeps what it decides grounded.
LEMMA GateSteps ==
    ASSUME GateInv, DecisionCalls \/ ResearchCalls \/ SharedCalls
    PROVE  Grounded(op')
<1>1. ASSUME NEW s \in Symbols,
             EntryWithoutSignal(s) \/ Begin("entry", s, <<>>) \/ Begin("holding", s, <<>>)
      PROVE  Grounded(op')
  <2>1. <<>> \in Seq(Symbols)
    OBVIOUS
  <2> QED
    BY <1>1, <2>1, EntryWithoutSignalStep, BeginStep
<1>2. ASSUME BeginSelection("selection")
      PROVE  Grounded(op')
  BY <1>2, FirstOfUniverse, BeginStep DEF BeginSelection
<1>3. CASE GateCrash
  BY <1>3, NoOpIsGrounded DEF GateCrash
<1>4. ASSUME NEW results, BeginResearch(results)
      PROVE  Grounded(op')
  BY <1>4, BeginResearchStep
<1>5. CASE FinishSelection \/ OpenFile \/ WriteFile \/ StoreDecision
  BY <1>5, LaterSteps
<1>6. CASE EvaluateNews \/ EvaluateSnapshot \/ AddCandidate
  BY <1>6, EvaluateNewsStep, EvaluateSnapshotStep, AddCandidateStep
<1>7. CASE DecideEntry \/ HoldingNews \/ HoldingSnapshot
  BY <1>7, DecideEntryStep, HoldingNewsStep, HoldingSnapshotStep
<1> QED
  BY <1>1, <1>2, <1>3, <1>4, <1>5, <1>6, <1>7 DEF DecisionCalls, ResearchCalls, SharedCalls

LEMMA GateInvStep == GateInv /\ [Next]_vars => GateInv'
<1> SUFFICES ASSUME GateInv, [Next]_vars
             PROVE  GateInv'
  OBVIOUS
<1>1. CASE FeedsChange /\ UNCHANGED <<gateVars, program, assistantVars>>
  <2>1. UNCHANGED <<offline, fallback>> /\ op' = op
    BY <1>1 DEF FeedsChange, gateVars
  <2>2. page' \in [Symbols -> Pages \cup {None}]
    BY <1>1 DEF FeedsChange, GateInv, Feeds
  <2>3. Grounded(op)'
    BY <2>1, GroundedNext DEF GateInv
  <2> QED
    BY <2>1, <2>2, <2>3 DEF GateInv, Feeds
<1>2. CASE (DecisionCalls \/ ResearchCalls \/ SharedCalls) /\ UNCHANGED feedVars
  <2>1. Feeds'
    BY <1>2 DEF GateInv, Feeds, feedVars
  <2>2. Grounded(op')
    BY <1>2, GateSteps
  <2>3. Grounded(op)'
    BY <1>2, <2>2, GroundedNext DEF feedVars
  <2> QED
    BY <2>1, <2>3 DEF GateInv
<1>3. CASE UNCHANGED <<feedVars, gateVars>>
  <2>1. UNCHANGED <<offline, fallback, page, op>>
    BY <1>3 DEF feedVars, gateVars
  <2>2. Grounded(op)'
    BY <2>1, GroundedNext DEF GateInv
  <2> QED
    BY <2>1, <2>2 DEF GateInv, Feeds
<1> QED
  BY <1>1, <1>2, <1>3 DEF Next, vars

-----------------------------------------------------------------------------
(* What is published.                                                      *)

\* The database names no decision that the file has not held: while a cycle of the
\* research bot goes on its number is new, and before the database is told the file
\* holds the decision of that number.
PublishInv ==
    /\ calls \in Nat
    /\ \A f \in file : f.id \in 0..calls
    /\ \A r \in row : r.id \in 0..calls
    /\ op.kind = "research" /\ op.pc \notin {"done", "raised"} => \A r \in row : r.id < calls
    /\ op.pc = "store" => \E f \in file : f.id = calls
    /\ ReportedIsPublished

LEMMA PublishInvInit == Init => PublishInv
BY DEF Init, GateInit, NoOp, PublishInv, ReportedIsPublished

\* A step that publishes nothing.
LEMMA Unpublished ==
    ASSUME PublishInv, UNCHANGED <<file, row>>,
           \/ UNCHANGED <<op, calls>>
           \/ calls' = calls /\ Onward(op')
           \/ calls' = calls /\ op' = NoOp
           \/ calls' = calls + 1 /\ op'.pc \in {"done", "news"}
    PROVE  PublishInv'
<1>1. calls' \in Nat /\ (calls' = calls \/ calls' = calls + 1)
  BY DEF PublishInv
<1>2. (\A f \in file : f.id \in 0..calls')  /\ (\A r \in row : r.id \in 0..calls')
  BY <1>1 DEF PublishInv
<1>3. op'.kind = "research" /\ op'.pc \notin {"done", "raised"} => \A r \in row : r.id < calls'
  BY DEF PublishInv, Onward, NoOp
<1>4. op'.pc = "store" => \E f \in file : f.id = calls'
  BY DEF PublishInv, Onward, NoOp
<1>5. \A r \in row : \E f \in file : f.id >= r.id \/ (f = Torn /\ calls' > r.id)
  <2> TAKE r \in row
  <2>1. PICK f \in file : f.id >= r.id \/ (f = Torn /\ calls > r.id)
    BY DEF PublishInv, ReportedIsPublished
  <2>2. r.id \in Int
    BY DEF PublishInv
  <2>3. f.id >= r.id \/ (f = Torn /\ calls' > r.id)
    BY <1>1, <2>1, <2>2 DEF PublishInv
  <2> QED
    BY <2>3
<1> QED
  BY <1>1, <1>2, <1>3, <1>4, <1>5 DEF PublishInv, ReportedIsPublished, Torn

LEMMA OpenFileStep ==
    ASSUME GateInv, PublishInv, OpenFile
    PROVE  PublishInv'
<1>1. op.kind = "research" /\ op.pc = "allocate" /\ file' = {Torn} /\ row' = row /\ calls' = calls
  BY DEF OpenFile, Step
<1>a. PICK o : o = op'
  OBVIOUS
<1>2. o.kind = "research" /\ o.pc = "write"
  BY <1>1, <1>a DEF OpenFile, GateInv, Grounded, Typed, Operation
<1>3. \A r \in row : r.id < calls /\ r.id \in 0..calls
  BY <1>1 DEF PublishInv
<1>4. Torn.id = 0 /\ calls \in Nat
  BY DEF Torn, PublishInv
<1> QED
  BY <1>1, <1>a, <1>2, <1>3, <1>4 DEF PublishInv, ReportedIsPublished, Torn

LEMMA WriteFileStep ==
    ASSUME GateInv, PublishInv, WriteFile
    PROVE  PublishInv'
<1>1. op.kind = "research" /\ op.pc = "write" /\ row' = row /\ calls' = calls
  BY DEF WriteFile, Step
<1>a. PICK o : o = op'
  OBVIOUS
<1>2. \A r \in row : r.id < calls /\ r.id \in 0..calls
  BY <1>1 DEF PublishInv
<1>3. CASE file' = {Decision} /\ op' = [op EXCEPT !.pc = "store"]
  <2>1. o.kind = "research" /\ o.pc = "store"
    BY <1>1, <1>3, <1>a DEF GateInv, Grounded, Typed, Operation
  <2>2. Decision.id = calls /\ calls \in Nat
    BY DEF Decision, PublishInv
  <2>b. PICK d : d = Decision
    OBVIOUS
  <2> QED
    BY <1>1, <1>2, <1>3, <1>a, <2>1, <2>2, <2>b DEF PublishInv, ReportedIsPublished
<1>4. CASE file' = file /\ op' = [op EXCEPT !.pc = "raised"]
  <2>1. o.pc = "raised"
    BY <1>1, <1>4, <1>a DEF GateInv, Grounded, Typed, Operation
  <2> QED
    BY <1>1, <1>2, <1>4, <1>a, <2>1 DEF PublishInv, ReportedIsPublished, Torn
<1> QED
  BY <1>3, <1>4 DEF WriteFile

LEMMA StoreDecisionStep ==
    ASSUME GateInv, PublishInv, StoreDecision
    PROVE  PublishInv'
<1>1. op.pc = "store" /\ file' = file /\ calls' = calls /\ row' \in {row, {Decision}}
  BY DEF StoreDecision, Step, Logged
<1>a. PICK o : o = op'
  OBVIOUS
<1>2. o.pc = "done"
  BY <1>a DEF StoreDecision, GateInv, Grounded, Typed, Operation
<1>b. PICK f \in file : f.id = calls
  BY <1>1 DEF PublishInv
<1>c. PICK d : d = Decision
  OBVIOUS
<1>3. d.id = calls /\ calls \in Nat
  BY <1>c DEF Decision, PublishInv
<1>4. CASE row' = row
  BY <1>1, <1>2, <1>4, <1>a DEF PublishInv, ReportedIsPublished, Torn
<1>5. CASE row' = {d}
  BY <1>1, <1>2, <1>3, <1>5, <1>a, <1>b DEF PublishInv, ReportedIsPublished
<1> QED
  BY <1>1, <1>4, <1>5, <1>c

LEMMA FinishSelectionOnward ==
    ASSUME GateInv, FinishSelection
    PROVE  Onward(op')
<1>a. PICK o : o = op'
  OBVIOUS
<1>1. op.pc = "rank" /\ Operation(op)
  BY DEF FinishSelection, Step, GateInv, Grounded, Typed
<1>2. o = [op EXCEPT !.pc = "allocate"] \/ \E s : o = [op EXCEPT !.answer = s, !.pc = "done"]
  BY <1>a DEF FinishSelection
<1>3. o.kind = op.kind /\ o.pc \in {"allocate", "done"}
  BY <1>1, <1>2 DEF Operation
<1> QED
  BY <1>a, <1>1, <1>3 DEF Onward

LEMMA PublishSteps ==
    ASSUME GateInv, PublishInv, DecisionCalls \/ ResearchCalls \/ SharedCalls
    PROVE  PublishInv'
<1>1. ASSUME NEW s \in Symbols,
             EntryWithoutSignal(s) \/ Begin("entry", s, <<>>) \/ Begin("holding", s, <<>>)
      PROVE  PublishInv'
  <2>1. <<>> \in Seq(Symbols)
    OBVIOUS
  <2>2. op'.pc \in {"done", "news"}
    BY <1>1, <2>1, EntryWithoutSignalStep, BeginStep
  <2>3. calls' = calls + 1 /\ UNCHANGED <<file, row>>
    BY <1>1, Zenon DEF EntryWithoutSignal, Answer, Begin, Ready
  <2> QED
    BY <2>2, <2>3, Unpublished
<1>2. CASE BeginSelection("selection")
  <2>1. op'.pc \in {"done", "news"}
    BY <1>2, FirstOfUniverse, BeginStep DEF BeginSelection
  <2>2. calls' = calls + 1 /\ UNCHANGED <<file, row>>
    BY <1>2 DEF BeginSelection, Begin, Ready
  <2> QED
    BY <2>1, <2>2, Unpublished
<1>3. CASE GateCrash
  BY <1>3, Unpublished DEF GateCrash
<1>4. ASSUME NEW results, BeginResearch(results)
      PROVE  PublishInv'
  <2>1. op'.pc \in {"done", "news"}
    BY <1>4, BeginResearchStep
  <2>2. calls' = calls + 1 /\ UNCHANGED <<file, row>>
    BY <1>4 DEF BeginResearch, Ready
  <2> QED
    BY <2>1, <2>2, Unpublished
<1>5. CASE OpenFile \/ WriteFile \/ StoreDecision
  BY <1>5, OpenFileStep, WriteFileStep, StoreDecisionStep
<1>6. CASE EvaluateNews \/ EvaluateSnapshot \/ AddCandidate \/ FinishSelection
  <2>1. Onward(op')
    BY <1>6, EvaluateNewsStep, EvaluateSnapshotStep, AddCandidateStep, FinishSelectionOnward
  <2>2. UNCHANGED <<file, row, calls>>
    BY <1>6 DEF EvaluateNews, EvaluateSnapshot, AddCandidate, FinishSelection, Fail
  <2> QED
    BY <2>1, <2>2, Unpublished
<1>7. CASE DecideEntry \/ HoldingNews \/ HoldingSnapshot
  <2>1. Onward(op')
    BY <1>7, DecideEntryStep, HoldingNewsStep, HoldingSnapshotStep
  <2>2. UNCHANGED <<file, row, calls>>
    <3>1. \A o, v : Answer(o, v) => UNCHANGED <<file, row>>
      BY Zenon DEF Answer
    <3>2. CASE DecideEntry
      BY <3>1, <3>2, SMT DEF DecideEntry, Fail
    <3>3. CASE HoldingNews
      BY <3>1, <3>3, SMT DEF HoldingNews, Fail
    <3>4. CASE HoldingSnapshot
      BY <3>1, <3>4, SMT DEF HoldingSnapshot, Fail
    <3> QED
      BY <1>7, <3>2, <3>3, <3>4
  <2> QED
    BY <2>1, <2>2, Unpublished
<1> QED
  BY <1>1, <1>2, <1>3, <1>4, <1>5, <1>6, <1>7 DEF DecisionCalls, ResearchCalls, SharedCalls

LEMMA PublishInvStep == GateInv /\ PublishInv /\ [Next]_vars => PublishInv'
<1> SUFFICES ASSUME GateInv, PublishInv, [Next]_vars
             PROVE  PublishInv'
  OBVIOUS
<1>1. CASE DecisionCalls \/ ResearchCalls \/ SharedCalls
  BY <1>1, PublishSteps
<1>2. CASE UNCHANGED gateVars
  BY <1>2, Unpublished DEF gateVars
<1> QED
  BY <1>1, <1>2 DEF Next, vars

-----------------------------------------------------------------------------
(* The assistant.                                                          *)

CycleType ==
    /\ cycle = [pc |-> cycle.pc, tier |-> cycle.tier, rest |-> cycle.rest, time |-> cycle.time]
    /\ cycle.pc \in {"asleep", "due", "collect", "evaluate", "mark"}
    /\ cycle.tier \in 1..3 /\ cycle.rest \in Seq(Symbols) /\ cycle.time \in 0..now

AssistantTypes ==
    /\ now \in Nat /\ marked \in [TierNames -> Int]
    /\ harvest \in [TierNames -> [Symbols -> Int]]
    /\ failed \in [TierNames -> [Symbols -> Int]]
    /\ CycleType

\* The tier has been through the symbol at that time or later.
Through(t, s, time) == harvest[t][s] >= time \/ failed[t][s] >= time

\* A symbol that the cycle has yet to come to.
Ahead(s) == At("collect") /\ \E j \in DOMAIN cycle.rest : cycle.rest[j] = s

\* No mark is later than the cycle's own time, and of each symbol of the universe
\* that the cycle's tier does not have ahead the tier has been through.
HarvestInv ==
    /\ \A t \in TierNames : marked[t] <= now /\ (~At("asleep") => marked[t] <= cycle.time)
    /\ At("collect") => cycle.rest # <<>>
    /\ At("collect") \/ At("evaluate") \/ At("mark") =>
         \A i \in DOMAIN Universe : Ahead(Universe[i]) \/ Through(Tier, Universe[i], cycle.time)
    /\ MarkedMeansHarvested

AssistantInv == AssistantTypes /\ HarvestInv

LEMMA AssistantInvInit == Init => AssistantInv
<1> SUFFICES ASSUME Init
             PROVE  AssistantInv
  OBVIOUS
<1>1. <<>> \in Seq(Symbols)
  OBVIOUS
<1>2. cycle = [pc |-> "asleep", tier |-> 1, rest |-> <<>>, time |-> 0] /\ now = 0
  BY DEF Init, Asleep
<1>3. CycleType
  BY <1>1, <1>2 DEF CycleType
<1>4. AssistantTypes
  BY <1>2, <1>3 DEF Init, AssistantTypes
<1>5. \A t \in TierNames : marked[t] = -1
  BY DEF Init
<1>6. HarvestInv
  BY <1>2, <1>5 DEF HarvestInv, At, MarkedMeansHarvested
<1> QED
  BY <1>4, <1>6 DEF AssistantInv

LEMMA TierIsNamed ==
    ASSUME CycleType
    PROVE  Tier \in TierNames
BY DEF CycleType, Tier, Tiers, TierNames

\* The cycle after a tier, or its sleep.
LEMMA NextTierIs ==
    ASSUME CycleType, now \in Nat, NEW c, c = NextTier
    PROVE  /\ c = [pc |-> c.pc, tier |-> c.tier, rest |-> c.rest, time |-> c.time]
           /\ c.pc \in {"asleep", "due"} /\ c.tier \in 1..3 /\ c.rest \in Seq(Symbols)
           /\ c.time \in 0..now /\ (c.pc = "due" => c.time = cycle.time)
<1>1. <<>> \in Seq(Symbols) /\ Len(Tiers) = 3
  BY DEF Tiers
<1>2. 0 \in 0..now
  BY DEF CycleType
<1>3. CASE cycle.tier = Len(Tiers)
  <2>1. c = [pc |-> "asleep", tier |-> 1, rest |-> <<>>, time |-> 0]
    BY <1>3 DEF NextTier, Asleep
  <2> QED
    BY <2>1, <1>1, <1>2
<1>4. CASE cycle.tier # Len(Tiers)
  <2>1. c = [cycle EXCEPT !.pc = "due", !.tier = @ + 1]
    BY <1>4 DEF NextTier
  <2>2. c = [pc |-> "due", tier |-> cycle.tier + 1, rest |-> cycle.rest, time |-> cycle.time]
    BY <2>1 DEF CycleType
  <2> QED
    BY <2>2, <1>1, <1>4 DEF CycleType
<1> QED
  BY <1>3, <1>4

\* A step to a cycle that is in no tier.
LEMMA BetweenTiers ==
    ASSUME AssistantInv, now' = now, NEW c, c = cycle',
           c = [pc |-> c.pc, tier |-> c.tier, rest |-> c.rest, time |-> c.time],
           c.pc \in {"asleep", "due"}, c.tier \in 1..3, c.rest \in Seq(Symbols), c.time \in 0..now,
           \/ UNCHANGED <<harvest, failed>>
           \/ /\ harvest' \in [TierNames -> [Symbols -> Int]]
              /\ failed' \in [TierNames -> [Symbols -> Int]],
           marked' \in [TierNames -> Int],
           \A t \in TierNames : marked'[t] <= now /\ (c.pc = "due" => marked'[t] <= c.time),
           MarkedMeansHarvested'
    PROVE  AssistantInv'
<1>1. CycleType'
  BY DEF CycleType
<1>2. AssistantTypes'
  BY <1>1 DEF AssistantInv, AssistantTypes
<1>3. HarvestInv'
  BY DEF HarvestInv, At
<1> QED
  BY <1>2, <1>3 DEF AssistantInv

LEMMA SameMarks ==
    ASSUME MarkedMeansHarvested, UNCHANGED <<marked, harvest, failed>>
    PROVE  MarkedMeansHarvested'
BY DEF MarkedMeansHarvested

LEMMA TickStep ==
    ASSUME AssistantInv, Tick
    PROVE  AssistantInv'
<1>1. now' = now + 1 /\ UNCHANGED <<marked, harvest, cycle, failed>>
  BY DEF Tick
<1>2. CycleType' /\ now' \in Nat
  BY <1>1 DEF AssistantInv, AssistantTypes, CycleType
<1>3. \A t \in TierNames : marked[t] <= now'
  BY <1>1 DEF AssistantInv, AssistantTypes, HarvestInv
<1>4. MarkedMeansHarvested'
  BY <1>1, SameMarks DEF AssistantInv, HarvestInv
<1> QED
  BY <1>1, <1>2, <1>3, <1>4
     DEF AssistantInv, AssistantTypes, HarvestInv, At, Ahead, Through, Tier

LEMMA WakeStep ==
    ASSUME AssistantInv, Wake
    PROVE  AssistantInv'
<1>a. PICK c : c = cycle'
  OBVIOUS
<1>1. c = [pc |-> "due", tier |-> 1, rest |-> <<>>, time |-> now]
  BY <1>a DEF Wake, Asleep
<1>2. <<>> \in Seq(Symbols) /\ now \in 0..now
  BY DEF AssistantInv, AssistantTypes
<1>3. UNCHANGED <<now, marked, harvest, failed>>
  BY DEF Wake
<1>4. MarkedMeansHarvested'
  BY <1>3, SameMarks DEF AssistantInv, HarvestInv
<1>5. marked' \in [TierNames -> Int] /\ \A t \in TierNames : marked'[t] <= now
  BY <1>3 DEF AssistantInv, AssistantTypes, HarvestInv
<1>6. /\ c = [pc |-> c.pc, tier |-> c.tier, rest |-> c.rest, time |-> c.time]
      /\ c.pc = "due" /\ c.tier \in 1..3 /\ c.rest \in Seq(Symbols) /\ c.time = now
  BY <1>1, <1>2
<1> QED
  BY <1>a, <1>2, <1>3, <1>4, <1>5, <1>6, BetweenTiers

\* Leaving a tier, or going back to sleep, with the marks as they are.
LEMMA Leaving ==
    ASSUME AssistantInv, ~At("asleep"), cycle' \in {NextTier, Asleep},
           UNCHANGED <<now, marked, harvest, failed>>
    PROVE  AssistantInv'
<1>a. PICK c : c = cycle'
  OBVIOUS
<1>1. MarkedMeansHarvested'
  BY SameMarks DEF AssistantInv, HarvestInv
<1>2. /\ marked' \in [TierNames -> Int]
      /\ \A t \in TierNames : marked'[t] <= now /\ marked'[t] <= cycle.time
  BY DEF AssistantInv, AssistantTypes, HarvestInv
<1>3. CASE c = NextTier
  BY <1>a, <1>1, <1>2, <1>3, NextTierIs, BetweenTiers DEF AssistantInv, AssistantTypes
<1>4. CASE c = Asleep
  <2>1. c = [pc |-> "asleep", tier |-> 1, rest |-> <<>>, time |-> 0]
    BY <1>4 DEF Asleep
  <2>2. <<>> \in Seq(Symbols) /\ 0 \in 0..now
    BY DEF AssistantInv, AssistantTypes
  <2>3. /\ c = [pc |-> c.pc, tier |-> c.tier, rest |-> c.rest, time |-> c.time]
        /\ c.pc = "asleep" /\ c.tier \in 1..3 /\ c.rest \in Seq(Symbols) /\ c.time \in 0..now
    BY <2>1, <2>2
  <2> QED
    BY <1>a, <1>1, <1>2, <2>3, BetweenTiers
<1> QED
  BY <1>a, <1>3, <1>4

LEMMA CheckDueStep ==
    ASSUME AssistantInv, CheckDue
    PROVE  AssistantInv'
<1>1. At("due") /\ UNCHANGED <<now, marked, harvest, failed>>
  BY DEF CheckDue
<1>2. CASE ~Due
  <2>1. cycle' = NextTier
    BY <1>2 DEF CheckDue
  <2> QED
    BY <1>1, <2>1, Leaving DEF At
<1>3. CASE Due
  <2>a. PICK c : c = cycle'
    OBVIOUS
  <2>1. c = [cycle EXCEPT !.pc = "collect", !.rest = Universe]
    BY <1>3, <2>a DEF CheckDue
  <2>2. c = [pc |-> "collect", tier |-> cycle.tier, rest |-> Universe, time |-> cycle.time]
    BY <2>1 DEF AssistantInv, AssistantTypes, CycleType
  <2>3. CycleType'
    BY <1>1, <2>2, <2>a, GateAssumption DEF AssistantInv, AssistantTypes, CycleType
  <2>4. MarkedMeansHarvested'
    BY <1>1, SameMarks DEF AssistantInv, HarvestInv
  <2>5. AssistantTypes'
    BY <1>1, <2>3 DEF AssistantInv, AssistantTypes
  <2>6. HarvestInv'
    BY <1>1, <2>2, <2>4, <2>a, GateAssumption DEF AssistantInv, HarvestInv, At, Ahead
  <2> QED
    BY <2>5, <2>6 DEF AssistantInv
<1> QED
  BY <1>2, <1>3

LEMMA EvaluateUniverseStep ==
    ASSUME AssistantInv, EvaluateUniverse
    PROVE  AssistantInv'
<1>1. At("evaluate") /\ UNCHANGED <<now, marked, harvest, failed>>
  BY DEF EvaluateUniverse
<1>a. PICK c : c = cycle'
  OBVIOUS
<1>2. c = [pc |-> "mark", tier |-> cycle.tier, rest |-> cycle.rest, time |-> cycle.time]
  BY <1>a DEF EvaluateUniverse, AssistantInv, AssistantTypes, CycleType
<1>3. CycleType'
  BY <1>1, <1>2, <1>a DEF AssistantInv, AssistantTypes, CycleType
<1>4. MarkedMeansHarvested'
  BY <1>1, SameMarks DEF AssistantInv, HarvestInv
<1>5. AssistantTypes'
  BY <1>1, <1>3 DEF AssistantInv, AssistantTypes
<1>6. \A i \in DOMAIN Universe : Through(Tier, Universe[i], cycle.time)
  BY <1>1 DEF AssistantInv, HarvestInv, At, Ahead
<1>7. HarvestInv'
  BY <1>1, <1>2, <1>4, <1>6, <1>a DEF AssistantInv, HarvestInv, At, Through, Tier
<1> QED
  BY <1>5, <1>7 DEF AssistantInv

LEMMA MarkStep ==
    ASSUME AssistantInv, Mark
    PROVE  AssistantInv'
<1>1. At("mark") /\ UNCHANGED <<now, harvest, failed>> /\ cycle' = NextTier
  BY DEF Mark
<1>2. marked' = [marked EXCEPT ![Tier] = cycle.time]
  BY DEF Mark
<1>3. Tier \in TierNames /\ cycle.time \in 0..now
  BY TierIsNamed DEF AssistantInv, AssistantTypes, CycleType
<1>4. /\ marked' \in [TierNames -> Int]
      /\ \A t \in TierNames : marked'[t] = IF t = Tier THEN cycle.time ELSE marked[t]
  BY <1>2, <1>3 DEF AssistantInv, AssistantTypes
<1>5. \A t \in TierNames : marked'[t] <= now /\ marked'[t] <= cycle.time
  BY <1>1, <1>3, <1>4 DEF AssistantInv, AssistantTypes, HarvestInv, At
<1>6. \A i \in DOMAIN Universe : Through(Tier, Universe[i], cycle.time)
  BY <1>1 DEF AssistantInv, HarvestInv, At, Ahead
<1>7. MarkedMeansHarvested'
  BY <1>1, <1>4, <1>6 DEF AssistantInv, HarvestInv, MarkedMeansHarvested, Through
<1>a. PICK c : c = cycle'
  OBVIOUS
<1>8. c = NextTier
  BY <1>1, <1>a
<1>9. /\ c = [pc |-> c.pc, tier |-> c.tier, rest |-> c.rest, time |-> c.time]
      /\ c.pc \in {"asleep", "due"} /\ c.tier \in 1..3 /\ c.rest \in Seq(Symbols)
      /\ c.time \in 0..now /\ (c.pc = "due" => c.time = cycle.time)
  BY <1>8, NextTierIs DEF AssistantInv, AssistantTypes
<1> QED
  BY <1>1, <1>4, <1>5, <1>7, <1>9, <1>a, BetweenTiers

\* What a pass of the collector stamps.
LEMMA StampedTimes ==
    ASSUME AssistantTypes, NEW times \in [TierNames -> [Symbols -> Int]], NEW some \in SUBSET Symbols,
           NEW new, new = Stamped(times, some)
    PROVE  /\ new \in [TierNames -> [Symbols -> Int]]
           /\ \A s \in some : new[Tier][s] = cycle.time
           /\ \A t \in TierNames, s \in Symbols :
                 new[t][s] = times[t][s] \/ (t = Tier /\ new[t][s] = cycle.time)
<1>1. Tier \in TierNames /\ cycle.time \in Int
  BY TierIsNamed DEF AssistantTypes, CycleType
<1>a. PICK stamp : stamp = [s \in Symbols |-> IF s \in some THEN cycle.time ELSE times[Tier][s]]
  OBVIOUS
<1>2. new = [times EXCEPT ![Tier] = stamp]
  BY <1>a DEF Stamped
<1>3. stamp \in [Symbols -> Int] /\ \A s \in some : stamp[s] = cycle.time
  BY <1>1, <1>a
<1>4. \A s \in Symbols : stamp[s] = times[Tier][s] \/ stamp[s] = cycle.time
  BY <1>a
<1> QED
  BY <1>1, <1>2, <1>3, <1>4

\* Having collected for some symbols, whatever came of it, the rest is as it was.
LEMMA CollectedFor ==
    ASSUME AssistantInv, At("collect"), NEW some \in SUBSET Symbols,
           \/ harvest' = Stamped(harvest, some) /\ failed' = failed
           \/ failed' = Stamped(failed, some) /\ harvest' = harvest,
           UNCHANGED <<now, marked>>
    PROVE  /\ harvest' \in [TierNames -> [Symbols -> Int]]
           /\ failed' \in [TierNames -> [Symbols -> Int]]
           /\ \A s \in some : harvest'[Tier][s] >= cycle.time \/ failed'[Tier][s] >= cycle.time
           /\ \A t \in TierNames, s \in Symbols, time \in Int :
                 time <= cycle.time /\ (harvest[t][s] >= time \/ failed[t][s] >= time)
                    => harvest'[t][s] >= time \/ failed'[t][s] >= time
           /\ MarkedMeansHarvested'
<1>1. Tier \in TierNames /\ cycle.time \in Int
  BY TierIsNamed DEF AssistantInv, AssistantTypes, CycleType
<1>2. AssistantTypes
  BY DEF AssistantInv
<1>3. /\ harvest' \in [TierNames -> [Symbols -> Int]]
      /\ failed' \in [TierNames -> [Symbols -> Int]]
      /\ \A s \in some : harvest'[Tier][s] = cycle.time \/ failed'[Tier][s] = cycle.time
      /\ \A t \in TierNames, s \in Symbols :
            /\ harvest'[t][s] = harvest[t][s] \/ harvest'[t][s] = cycle.time
            /\ failed'[t][s] = failed[t][s] \/ failed'[t][s] = cycle.time
  <2>a. PICK new : new = harvest' OBVIOUS
  <2>b. PICK fails : fails = failed' OBVIOUS
  <2>1. CASE new = Stamped(harvest, some) /\ fails = failed
    <3>1. harvest \in [TierNames -> [Symbols -> Int]] /\ failed \in [TierNames -> [Symbols -> Int]]
      BY <1>2 DEF AssistantTypes
    <3>2. /\ new \in [TierNames -> [Symbols -> Int]]
          /\ \A s \in some : new[Tier][s] = cycle.time
          /\ \A t \in TierNames, s \in Symbols :
                new[t][s] = harvest[t][s] \/ (t = Tier /\ new[t][s] = cycle.time)
      BY <1>2, <2>1, <3>1, StampedTimes, SMT
    <3> QED
      BY <2>1, <2>a, <2>b, <3>1, <3>2
  <2>2. CASE fails = Stamped(failed, some) /\ new = harvest
    <3>1. failed \in [TierNames -> [Symbols -> Int]] /\ harvest \in [TierNames -> [Symbols -> Int]]
      BY <1>2 DEF AssistantTypes
    <3>2. /\ fails \in [TierNames -> [Symbols -> Int]]
          /\ \A s \in some : fails[Tier][s] = cycle.time
          /\ \A t \in TierNames, s \in Symbols :
                fails[t][s] = failed[t][s] \/ (t = Tier /\ fails[t][s] = cycle.time)
      BY <1>2, <2>2, <3>1, StampedTimes, SMT
    <3> QED
      BY <2>2, <2>a, <2>b, <3>1, <3>2
  <2> QED
    BY <2>1, <2>2, <2>a, <2>b
<1>4. \A s \in some : harvest'[Tier][s] >= cycle.time \/ failed'[Tier][s] >= cycle.time
  BY <1>1, <1>3
<1>5. \A t \in TierNames, s \in Symbols, time \in Int :
         time <= cycle.time /\ (harvest[t][s] >= time \/ failed[t][s] >= time)
            => harvest'[t][s] >= time \/ failed'[t][s] >= time
  <2> TAKE t \in TierNames, s \in Symbols, time \in Int
  <2>1. /\ harvest[t][s] \in Int /\ failed[t][s] \in Int
        /\ harvest'[t][s] \in Int /\ failed'[t][s] \in Int
    BY <1>2, <1>3 DEF AssistantTypes
  <2>2. /\ harvest'[t][s] = harvest[t][s] \/ harvest'[t][s] = cycle.time
        /\ failed'[t][s] = failed[t][s] \/ failed'[t][s] = cycle.time
    BY <1>3
  <2> QED
    BY <1>1, <2>1, <2>2
<1>6. \A t \in TierNames : marked[t] <= cycle.time /\ marked[t] \in Int
  BY DEF AssistantInv, AssistantTypes, HarvestInv, At
<1>7. \A i \in DOMAIN Universe : Universe[i] \in Symbols
  BY GateAssumption
<1>8. MarkedMeansHarvested'
  BY <1>5, <1>6, <1>7 DEF AssistantInv, HarvestInv, MarkedMeansHarvested
<1> QED
  BY <1>3, <1>4, <1>5, <1>8

\* Collecting goes on, or the tier's symbols are through.
LEMMA CollectedOn ==
    ASSUME AssistantInv, At("collect"), NEW some \in SUBSET Symbols, NEW left \in Seq(Symbols),
           \/ harvest' = Stamped(harvest, some) /\ failed' = failed
           \/ failed' = Stamped(failed, some) /\ harvest' = harvest,
           UNCHANGED <<now, marked>>,
           NEW pc, pc = (IF left = <<>> THEN Collected ELSE "collect"),
           cycle' = [cycle EXCEPT !.rest = left, !.pc = pc],
           \A j \in DOMAIN cycle.rest :
              cycle.rest[j] \in some \/ \E k \in DOMAIN left : left[k] = cycle.rest[j]
    PROVE  AssistantInv'
<1>a. PICK c : c = cycle'
  OBVIOUS
<1>1. c = [pc |-> pc, tier |-> cycle.tier, rest |-> left, time |-> cycle.time]
  BY <1>a DEF AssistantInv, AssistantTypes, CycleType
<1>2. pc \in {"collect", "evaluate", "mark"} /\ (pc = "collect" => left # <<>>) /\ (pc # "collect" => left = <<>>)
  BY DEF Collected
<1>3. /\ harvest' \in [TierNames -> [Symbols -> Int]]
      /\ failed' \in [TierNames -> [Symbols -> Int]]
      /\ \A s \in some : harvest'[Tier][s] >= cycle.time \/ failed'[Tier][s] >= cycle.time
      /\ \A t \in TierNames, s \in Symbols, time \in Int :
            time <= cycle.time /\ (harvest[t][s] >= time \/ failed[t][s] >= time)
               => harvest'[t][s] >= time \/ failed'[t][s] >= time
      /\ MarkedMeansHarvested'
  BY CollectedFor
<1>4. AssistantTypes'
  BY <1>1, <1>2, <1>3, <1>a DEF AssistantInv, AssistantTypes, CycleType
<1>5. Tier \in TierNames /\ cycle.time \in Int /\ cycle.time <= cycle.time
  BY TierIsNamed DEF AssistantInv, AssistantTypes, CycleType
<1>6. Tier' = Tier /\ cycle'.time = cycle.time
  BY <1>1, <1>a DEF Tier
<1>7. ASSUME NEW i \in DOMAIN Universe
      PROVE  (Ahead(Universe[i]) \/ Through(Tier, Universe[i], cycle.time))'
  <2>a. PICK s \in Symbols : s = Universe[i]
    BY GateAssumption
  <2>1. CASE Through(Tier, s, cycle.time)
    <3>1. harvest'[Tier][s] >= cycle.time \/ failed'[Tier][s] >= cycle.time
      BY <1>3, <1>5, <2>1 DEF Through
    <3> QED
      BY <1>6, <2>a, <3>1 DEF Through
  <2>2. CASE s \in some
    <3>1. harvest'[Tier][s] >= cycle.time \/ failed'[Tier][s] >= cycle.time
      BY <1>3, <2>2
    <3> QED
      BY <1>6, <2>a, <3>1 DEF Through
  <2>3. CASE \E k \in DOMAIN left : left[k] = s
    <3>1. left # <<>>
      BY <2>3
    <3>2. c.pc = "collect" /\ c.rest = left
      BY <1>1, <1>2, <3>1
    <3> QED
      BY <1>a, <2>3, <2>a, <3>2 DEF Ahead, At
  <2>4. Ahead(s) \/ Through(Tier, s, cycle.time)
    BY <2>a DEF AssistantInv, HarvestInv
  <2> QED
    BY <2>1, <2>2, <2>3, <2>4 DEF Ahead
<1>8. /\ c.pc = "collect" => c.rest # <<>>
      /\ c.pc # "asleep" /\ c.time = cycle.time
  BY <1>1, <1>2
<1>9. \A t \in TierNames : marked'[t] <= now' /\ marked'[t] <= cycle'.time
  BY <1>6 DEF AssistantInv, HarvestInv, At
<1>10. HarvestInv'
  BY <1>3, <1>6, <1>7, <1>8, <1>9, <1>a DEF HarvestInv, At
<1> QED
  BY <1>4, <1>10 DEF AssistantInv

LEMMA CollectStep ==
    ASSUME AssistantInv, Collect
    PROVE  AssistantInv'
<1>1. At("collect") /\ UNCHANGED <<now, marked>>
  BY DEF Collect
<1>2. cycle.rest \in Seq(Symbols) /\ cycle.rest # <<>>
  BY <1>1 DEF AssistantInv, AssistantTypes, CycleType, HarvestInv
<1>3. Symbols \in SUBSET Symbols /\ <<>> \in Seq(Symbols)
  OBVIOUS
<1>4. CASE Tier = "MACRO_WATCH"
  <2>1. \/ /\ harvest' = Stamped(harvest, Symbols) /\ failed' = failed
           /\ cycle' = [cycle EXCEPT !.rest = <<>>, !.pc = Collected]
        \/ failed' = Stamped(failed, Symbols) /\ harvest' = harvest /\ cycle' = NextTier
    BY <1>4 DEF Collect
  <2>2. CASE /\ harvest' = Stamped(harvest, Symbols) /\ failed' = failed
             /\ cycle' = [cycle EXCEPT !.rest = <<>>, !.pc = Collected]
    <3>1. \A j \in DOMAIN cycle.rest : cycle.rest[j] \in Symbols
      BY <1>2
    <3>a. PICK pc : pc = Collected
      OBVIOUS
    <3> QED
      BY <1>1, <1>3, <2>2, <3>1, <3>a, CollectedOn
  <2>3. CASE failed' = Stamped(failed, Symbols) /\ harvest' = harvest /\ cycle' = NextTier
    <3>a. PICK c : c = cycle'
      OBVIOUS
    <3>1. /\ harvest' \in [TierNames -> [Symbols -> Int]]
          /\ failed' \in [TierNames -> [Symbols -> Int]]
          /\ MarkedMeansHarvested'
      BY <1>1, <1>3, <2>3, CollectedFor
    <3>2. /\ c = [pc |-> c.pc, tier |-> c.tier, rest |-> c.rest, time |-> c.time]
          /\ c.pc \in {"asleep", "due"} /\ c.tier \in 1..3 /\ c.rest \in Seq(Symbols)
          /\ c.time \in 0..now /\ (c.pc = "due" => c.time = cycle.time)
      BY <2>3, <3>a, NextTierIs DEF AssistantInv, AssistantTypes
    <3>3. /\ marked' \in [TierNames -> Int]
          /\ \A t \in TierNames : marked'[t] <= now /\ marked'[t] <= cycle.time
      BY <1>1 DEF AssistantInv, AssistantTypes, HarvestInv, At
    <3> QED
      BY <1>1, <3>1, <3>2, <3>3, <3>a, BetweenTiers
  <2> QED
    BY <2>1, <2>2, <2>3
<1>5. CASE Tier # "MACRO_WATCH"
  <2>a. PICK some : some = {Head(cycle.rest)}
    OBVIOUS
  <2>b. PICK left : left = Tail(cycle.rest)
    OBVIOUS
  <2>c. PICK pc : pc = IF left = <<>> THEN Collected ELSE "collect"
    OBVIOUS
  <2>1. \/ harvest' = Stamped(harvest, some) /\ failed' = failed
        \/ failed' = Stamped(failed, some) /\ harvest' = harvest
    BY <1>5, <2>a DEF Collect
  <2>2. cycle' = [cycle EXCEPT !.rest = left, !.pc = pc]
    BY <1>1, <1>5, <2>b, <2>c DEF Collect, At
  <2>3. some \in SUBSET Symbols /\ left \in Seq(Symbols)
    BY <1>2, <2>a, <2>b
  <2>4. \A j \in DOMAIN cycle.rest :
           cycle.rest[j] \in some \/ \E k \in DOMAIN left : left[k] = cycle.rest[j]
    <3> TAKE j \in DOMAIN cycle.rest
    <3>1. CASE j = 1
      BY <1>2, <2>a, <3>1
    <3>2. CASE j # 1
      <4>1. j - 1 \in DOMAIN left /\ left[j - 1] = cycle.rest[j]
        BY <1>2, <2>b, <3>2
      <4> QED
        BY <4>1
    <3> QED
      BY <3>1, <3>2
  <2> QED
    BY <1>1, <2>1, <2>2, <2>3, <2>4, <2>c, CollectedOn
<1> QED
  BY <1>4, <1>5

LEMMA AssistantInvStep == AssistantInv /\ [Next]_vars => AssistantInv'
<1> SUFFICES ASSUME AssistantInv, [Next]_vars
             PROVE  AssistantInv'
  OBVIOUS
<1>1. CASE UNCHANGED assistantVars
  BY <1>1 DEF assistantVars, AssistantInv, AssistantTypes, CycleType, HarvestInv, At, Ahead, Through,
              Tier, MarkedMeansHarvested
<1>2. CASE Tick \/ DaemonStep
  BY <1>2, TickStep, WakeStep, CheckDueStep, CollectStep, EvaluateUniverseStep, MarkStep DEF DaemonStep
<1>3. CASE MarkFails \/ DaemonCrash
  <2>1. ~At("asleep") /\ UNCHANGED <<now, marked, harvest, failed>> /\ cycle' \in {NextTier, Asleep}
    BY <1>3 DEF MarkFails, DaemonCrash, At
  <2> QED
    BY <2>1, Leaving
<1> QED
  BY <1>1, <1>2, <1>3 DEF Next, vars

-----------------------------------------------------------------------------
IntelligenceInv == GateInv /\ PublishInv /\ AssistantInv

\* Whatever the feeds answer, fail to answer and change between two calls, and
\* wherever a program dies, the three programs keep their invariants.
THEOREM IntelligenceStaysSound == Spec => []IntelligenceInv
<1>1. Init => IntelligenceInv
  BY GateInvInit, PublishInvInit, AssistantInvInit DEF IntelligenceInv
<1>2. IntelligenceInv /\ [Next]_vars => IntelligenceInv'
  BY GateInvStep, PublishInvStep, AssistantInvStep DEF IntelligenceInv
<1> QED
  BY <1>1, <1>2, PTL DEF Spec

\* Strict approvals, holdings kept and candidates rest on live data (fetch_symbol_news
\* and fetch_fundamental_snapshot raise rather than fall back).
THEOREM DecisionsRestOnLiveEvidence == Spec => []ApprovalsOnLiveEvidence
<1>1. IntelligenceInv => ApprovalsOnLiveEvidence
  BY DEF IntelligenceInv, GateInv, Grounded, Decided, Candidates, Fresh, ApprovalsOnLiveEvidence, Done
<1> QED
  BY <1>1, IntelligenceStaysSound, PTL

\* Nothing is approved, and no holding kept, against a red flag or alarming news
\* (evaluate_entry_decision, evaluate_holding_risk).
THEOREM RedFlagsAreHeeded == Spec => []NoTradeAgainstRedFlags
<1>1. IntelligenceInv => NoTradeAgainstRedFlags
  BY DEF IntelligenceInv, GateInv, Grounded, Decided, NoTradeAgainstRedFlags, Done
<1> QED
  BY <1>1, IntelligenceStaysSound, PTL

\* The database reports only what the daemon's file has held (run_eod_research_cycle
\* writes the file first).
THEOREM ReportsArePublished == Spec => []ReportedIsPublished
<1>1. IntelligenceInv => ReportedIsPublished
  BY DEF IntelligenceInv, PublishInv
<1> QED
  BY <1>1, IntelligenceStaysSound, PTL

\* A tier that is marked was gone through (run_scheduled_cycle marks it last).
THEOREM MarksAreEarned == Spec => []MarkedMeansHarvested
<1>1. IntelligenceInv => MarkedMeansHarvested
  BY DEF IntelligenceInv, AssistantInv, HarvestInv
<1> QED
  BY <1>1, IntelligenceStaysSound, PTL

=============================================================================
