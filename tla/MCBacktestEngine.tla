-------------------------- MODULE MCBacktestEngine --------------------------
(* Model-checking instances of BacktestEngine.                             *)
EXTENDS BacktestEngine

CONSTANTS a, b

\* One symbol trades at 1 or 2, the other at 4.
TwoScales == [s \in Symbols |-> IF s = a THEN {1, 2} ELSE {4}]
=============================================================================
