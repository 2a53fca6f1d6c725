---------------------------- MODULE MCPaperSession ----------------------------
(* Values for the constants of PaperSession. *)
EXTENDS PaperSession

CONSTANTS s1, A

OneSession == {s1}
OneSymbol == {A}

\* Buying 2 at 101 and 4 at 111 averages to 107 2/3, which rounds up; three buys
\* are more than 1000; four shares marked down by 10 lose more than 3% of it.
SmallCapital == [n \in Sessions |-> 1000]
SmallQuantities == {2, 4}
SmallPrices == {100, 110}

=============================================================================
