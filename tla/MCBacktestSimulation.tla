------------------------ MODULE MCBacktestSimulation ------------------------
(* An instance of BacktestSimulation for TLC. *)
EXTENDS BacktestSimulation

CONSTANTS a, b

MCSymbols == <<a, b>>
Shape(o, h, l, c) == [open |-> o, high |-> h, low |-> l, close |-> c]
MCBarShapes == {Shape(100, 112, 100, 112), Shape(100, 101, 97, 101), Shape(80, 80, 80, 80)}
MCStrategies == {"sma", "hold"}
MCHookRejects == {}

=============================================================================
