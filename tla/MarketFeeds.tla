----------------------------- MODULE MarketFeeds -----------------------------
(***************************************************************************)
(* The feeds of services/market-intelligence and what is made of them: the *)
(* news and fundamentals collectors (collector_service.py) with their       *)
(* fallbacks, and the scores of fundamental_engine.py.  The feeds belong to *)
(* other people: they change between any two calls.  Ratios are percents,   *)
(* debt to equity is in hundredths; the text of an article is reduced to    *)
(* the score, the urgency and the scandal words found in it.                *)
(***************************************************************************)
EXTENDS Integers, Sequences, FiniteSets, FiniteSetsExt

CONSTANTS
    Symbols,      \* the universe
    Banks,        \* those whose ticker says BANK or FIN
    Fixture,      \* [Symbols -> snapshot or None]: the benchmark fixtures
    FixturePage,  \* [Symbols -> page]: the offline headlines
    Pages,        \* what the news feeds may answer, beside nothing
    Infos,        \* what the fundamentals feed may answer, beside nothing
    FirstFeeds,   \* bound: the <<pages, infos>> the feeds may begin with
    MaxChanges,   \* bound: how often a feed changes
    None          \* no answer, no fixture, no value

\* analyze_text: the score of an article, whether it is urgent (a score of 80
\* or more always is), and whether it has words of a scandal.
IsItem(i) ==
    /\ i.score \in -100..100 /\ i.high \in BOOLEAN /\ i.scandal \in BOOLEAN
    /\ i.score >= 80 \/ i.score <= -80 => i.high

\* A page is what is found of a symbol: its articles, and their average
\* weighted by age, confidence and urgency, somewhere between their extremes.
IsPage(p) ==
    /\ p.items # {} /\ \A i \in p.items : IsItem(i)
    /\ p.sentiment \in Min({i.score : i \in p.items})..Max({i.score : i \in p.items})

ASSUME FeedAssumption ==
    /\ Banks \subseteq Symbols
    /\ \A p \in Pages \cup {FixturePage[s] : s \in Symbols} : IsPage(p)
    /\ None \notin Pages \cup Infos
    /\ FirstFeeds \subseteq [Symbols -> Pages \cup {None}] \X [Symbols -> Infos \cup {None}]

VARIABLES
    offline,    \* force_offline of the collectors
    fallback,   \* allow_synthetic_fallback of the collectors
    page,       \* [Symbols -> page or None]: what the news feeds would answer
    info,       \* [Symbols -> record or None]: what the fundamentals feed would answer
    changes     \* bound: how often a feed changed

feedVars == <<offline, fallback, page, info, changes>>

FeedsInit ==
    /\ offline \in BOOLEAN /\ fallback \in BOOLEAN
    /\ \E first \in FirstFeeds : page = first[1] /\ info = first[2]
    /\ changes = 0

\* A feed answers something else from now on, or nothing.
FeedsChange ==
    /\ changes < MaxChanges
    /\ changes' = changes + 1
    /\ \/ \E s \in Symbols, p \in Pages \cup {None} : page' = [page EXCEPT ![s] = p] /\ UNCHANGED info
       \/ \E s \in Symbols, i \in Infos \cup {None} : info' = [info EXCEPT ![s] = i] /\ UNCHANGED page
    /\ UNCHANGED <<offline, fallback>>

-----------------------------------------------------------------------------
(* The collectors.                                                         *)

\* The online collectors that must not fall back.
Strict == ~offline /\ ~fallback

\* The offline headlines: nothing tells them from live ones but their source.
OfflineNews(s) == [live |-> FALSE, page |-> FixturePage[s]]

\* Mutant: a feed that answers nothing is replaced whatever the caller allows.
FetchNewsSilently(s) ==
    IF ~offline /\ page[s] # None THEN [live |-> TRUE, page |-> page[s]] ELSE OfflineNews(s)

\* fetch_symbol_news; None: DataUnavailableError.  A feed that fails is
\* skipped, so that a page of nothing is all a failure amounts to.
FetchNews(s) ==
    IF ~offline /\ page[s] # None THEN [live |-> TRUE, page |-> page[s]]
    ELSE IF Strict THEN None
    ELSE OfflineNews(s)

\* debtToEquity: above 5 it is taken for a percentage.
Ratio(raw) == IF raw > 500 THEN raw \div 100 ELSE raw

\* Python's "value or default": zero is taken for a value that is missing.
Or(value, default) == IF value \in {None, 0} THEN default ELSE value

Given(s, field, default) == IF Fixture[s] = None THEN default ELSE Fixture[s][field]

RedFlags(s, de, roe, margin, growth) ==
    {f \in {"EXTREME_DEBT_BURDEN", "CHRONIC_NEGATIVE_EARNINGS", "SEVERE_REVENUE_CONTRACTION"} :
        \/ f = "EXTREME_DEBT_BURDEN" /\ s \notin Banks /\ de # None /\ de > 250
        \/ f = "CHRONIC_NEGATIVE_EARNINGS" /\ roe < -5 /\ margin < 0
        \/ f = "SEVERE_REVENUE_CONTRACTION" /\ growth < -20}

\* _create_snapshot_from_yfinance: the score and the tier are the fixture's,
\* or a constant, whatever the ratios say.
LiveSnapshot(s, i) ==
    LET de == IF i.de # None THEN Ratio(i.de) ELSE Given(s, "de", None)
        roe == Or(i.roe, Given(s, "roe", 12))
        margin == Or(i.margin, Given(s, "margin", 15))
        growth == Or(i.growth, Given(s, "growth", 8)) IN
    [de |-> de, roe |-> roe, margin |-> margin, growth |-> growth,
     pe |-> Or(i.pe, Given(s, "pe", None)), fScore |-> Given(s, "fScore", 6),
     tier |-> Given(s, "tier", "SOUND"), flags |-> RedFlags(s, de, roe, margin, growth), live |-> TRUE]

\* The default for a symbol nothing is known of.
SyntheticSnapshot ==
    [de |-> 50, roe |-> 12, margin |-> 12, growth |-> 5, pe |-> 20, fScore |-> 5,
     tier |-> "AVERAGE", flags |-> {}, live |-> FALSE]

\* A benchmark fixture: it raises no red flag, whatever its ratios.
FixtureSnapshot(s) ==
    LET f == Fixture[s] IN
    [de |-> f.de, roe |-> f.roe, margin |-> f.margin, growth |-> f.growth, pe |-> f.pe,
     fScore |-> f.fScore, tier |-> f.tier, flags |-> {}, live |-> FALSE]

\* fetch_fundamental_snapshot; None: DataUnavailableError.
FetchSnapshot(s) ==
    IF ~offline /\ info[s] # None THEN LiveSnapshot(s, info[s])
    ELSE IF Strict \/ (Fixture[s] = None /\ ~fallback) THEN None
    ELSE IF Fixture[s] # None THEN FixtureSnapshot(s)
    ELSE SyntheticSnapshot

\* is_disqualified: every flag the collector raises is a severe one.
Disqualified(snap) == snap.flags # {}

-----------------------------------------------------------------------------
(* FundamentalAnalyzer.evaluate_snapshot.                                  *)

\* The second component of the first pair whose condition holds.
FirstOf(pairs) == pairs[Min({i \in DOMAIN pairs : pairs[i][1]})][2]

\* The points of the first bound that x reaches.
Points(x, bands) ==
    FirstOf([i \in DOMAIN bands |-> <<x >= bands[i][1], bands[i][2]>>] \o << <<TRUE, 0>> >>)

Profitability(snap) ==
    Points(snap.roe, << <<20, 20>>, <<12, 15>>, <<1, 8>> >>)
    + Points(snap.margin, << <<20, 15>>, <<10, 10>>, <<1, 5>> >>)

\* A ratio above 5 is taken for a percentage here as well.
Solvency(s, snap) ==
    IF s \in Banks THEN 20
    ELSE IF snap.de = None THEN 12
    ELSE Points(-Ratio(snap.de), << <<-30, 25>>, <<-80, 18>>, <<-150, 10>> >>)

Growth(snap) == Points(snap.growth, << <<20, 20>>, <<8, 15>>, <<1, 8>> >>)

Valuation(pe) ==
    IF pe = None THEN 5
    ELSE FirstOf(<< <<pe <= 0, 5>>, <<pe < 10, 8>>, <<pe <= 30, 10>>, <<pe <= 60, 5>>, <<TRUE, 0>> >>)

\* The total in ninths of a point: a Piotroski score of 9 is worth 10 points.
Ninths(s, snap) ==
    9 * (Profitability(snap) + Solvency(s, snap) + Growth(snap) + Valuation(snap.pe)) + 10 * snap.fScore

\* The score, rounded to tenths of a point.
FundamentalScore(s, snap) == (20 * Ninths(s, snap) + 9) \div 18

=============================================================================
