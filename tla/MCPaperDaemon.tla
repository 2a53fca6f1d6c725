---------------------------- MODULE MCPaperDaemon ----------------------------
(* Values for the constants of PaperDaemon. *)
EXTENDS PaperDaemon, TLC

CONSTANTS A, B

TwoSymbols == {A, B}
Symmetry == Permutations(TwoSymbols)

\* 100 -> 97 is a daily loss of 3%, over the killswitch's 2.5%.
MCEquities == {97, 100}
=============================================================================
