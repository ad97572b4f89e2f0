--------------------------- MODULE MCCapitalPool ---------------------------
(* Model-checking instances of CapitalPool.                                *)
EXTENDS CapitalPool, TLC

\* FTMO limits, and a profile that is stricter in one of them.
FTMO   == [maxOpen |-> 3, maxDailyLossPct |-> 5, maxDrawdownPct |-> 10]
Strict == [maxOpen |-> 1, maxDailyLossPct |-> 5, maxDrawdownPct |-> 10]
TwoProfiles == {FTMO, Strict}

SmallPnLs == {-6, 6}

Symmetry == Permutations(Strategies) \cup Permutations(Symbols)
=============================================================================
