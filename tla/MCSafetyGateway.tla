--------------------------- MODULE MCSafetyGateway ---------------------------
(* Values for the constants of SafetyGateway. *)
EXTENDS SafetyGateway

CONSTANTS a, t1

MCEquities == {85, 100}
MCThreads == {t1}
MCIOFaults == {"replace", "marker"}
MCOrderIds == {a}
MCCosts == {3}
MCBalances == {2, 3}
=============================================================================
