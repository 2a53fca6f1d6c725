-------------------------- MODULE MCExperimentRuns --------------------------
(* An instance of ExperimentRuns for TLC. *)
EXTENDS ExperimentRuns

CONSTANTS e1, c1, c2, v1, v2, good, other, s1

MCExperiments == {e1}
MCCallers == {c1, c2}
MCVersions == {v1, v2}
MCContents == {good, other}
MCDefinition ==
    [e \in {e1} |-> [version |-> v1, checksum |-> good, universe |-> {s1}, strategy |-> "Canonical_SMA",
                     timeframe |-> "1d", riskApproved |-> TRUE]]
MCCountOf == [c \in MCContents |-> 1]
MCTimeframeOf == [c \in MCContents |-> "1d"]
MCSymbolsOf == [c \in MCContents |-> {s1}]
MCFlawsOf == [c \in MCContents |-> {}]
MCLoads == {<<good, v1>>, <<other, v2>>}
MCTradesOf == [c \in MCContents |-> 1]
DeclaredOf(c) == [checksum |-> c, count |-> 1, timeframe |-> "1d", symbols |-> {s1}]
MCDeclarations == [v \in MCVersions |-> IF v = v1 THEN {DeclaredOf(good)} ELSE {}]

=============================================================================
