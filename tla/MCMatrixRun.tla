---------------------------- MODULE MCMatrixRun ----------------------------
(* Model-checking instance of MatrixRun.                                   *)
EXTENDS MatrixRun

MCAllowedSets == {{1, 2, 3}, {1, 3}}
MCSkippable == {1}
=============================================================================
