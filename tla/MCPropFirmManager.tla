------------------------- MODULE MCPropFirmManager -------------------------
(* Model-checking instances of PropFirmManager.                            *)
EXTENDS PropFirmManager, TLC

\* The FTMO limits, and a stricter profile.  A 10% day breaks consistency.
FTMO   == [maxDailyLoss |-> 5, maxDrawdown |-> 10, consistency |-> TRUE,
           threshold |-> 8, target1 |-> 10, target2 |-> 5, minDays |-> 1]
Strict == [maxDailyLoss |-> 3, maxDrawdown |-> 6, consistency |-> FALSE,
           threshold |-> 0, target1 |-> 10, target2 |-> 5, minDays |-> 1]
BothContents == {FTMO, Strict}
FivePercent == {-5, 5}

\* Profile ids are interchangeable, and so are reconcilers.
Symmetry == Permutations(Ids) \cup Permutations(Reconcilers)
=============================================================================
