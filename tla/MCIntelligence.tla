---------------------------- MODULE MCIntelligence ----------------------------
(* An instance of IntelligenceAssistant for TLC: a symbol with a benchmark   *)
(* fixture, and one that nothing is known of.                                *)
EXTENDS IntelligenceAssistant

CONSTANTS A, B

MCSymbols == {A, B}
MCUniverse == <<A, B>>
Item(score, high, scandal) == [score |-> score, high |-> high, scandal |-> scandal]
CalmPage == [items |-> {Item(10, FALSE, FALSE)}, sentiment |-> 10]
GoodPage == [items |-> {Item(90, TRUE, FALSE)}, sentiment |-> 90]
RaidPage == [items |-> {Item(90, TRUE, FALSE), Item(-90, TRUE, TRUE)}, sentiment |-> 70]
MCPages == {GoodPage, RaidPage}
MCFixturePage == [s \in MCSymbols |-> CalmPage]
MCFixture ==
    [s \in MCSymbols |->
        IF s = B THEN None
        ELSE [de |-> 46, roe |-> 14, margin |-> 12, growth |-> 30, pe |-> 21, fScore |-> 7,
              tier |-> "PRIME_QUALITY"]]
Info(de, roe, margin, growth, pe) == [de |-> de, roe |-> roe, margin |-> margin, growth |-> growth, pe |-> pe]
MCInfos == {Info(1000, 25, 25, 25, 20), Info(30000, 25, 0, 25, 70)}
MCFirstFeeds ==
    {<<[s \in MCSymbols |-> GoodPage], [s \in MCSymbols |-> Info(1000, 25, 25, 25, 20)]>>,
     <<[s \in MCSymbols |-> None], [s \in MCSymbols |-> None]>>}
MCUpsides == {20, -3}
Result(strategy, robust, merit) == [strategy |-> strategy, robust |-> robust, merit |-> merit]
MCEvaluations == {{}, {Result("EMA", TRUE, 2), Result("VWAP", FALSE, 3)}}
MCInterval == [t \in TierNames |-> IF t = "FUNDAMENTALS_DEEP" THEN 2 ELSE 1]

=============================================================================
