--------------------------- MODULE MCRiskPipeline ---------------------------
(* Model-checking instances of RiskPipeline.                               *)
EXTENDS RiskPipeline, TLC

Symmetry == Permutations(Symbols)
=============================================================================
