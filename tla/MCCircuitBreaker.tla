--------------------------- MODULE MCCircuitBreaker ---------------------------
(* Values for the constants of CircuitBreaker. *)
EXTENDS CircuitBreaker

\* 100 -> 97 is a daily loss of 3%, 100 -> 85 both a daily loss and a drawdown
\* of 15%; after a re-arm at 97, 100 is a new peak.
MCEquities == {85, 97, 100}
NoThreads == {}
MCIOFaults == IOCalls
=============================================================================
