------------------------- MODULE MCPropFirmEnforcer -------------------------
(* Model-checking instances of PropFirmEnforcer.                           *)
EXTENDS PropFirmEnforcer

\* Of a balance of 200: a 5% loss, which halts a day on its own, a 2.5% loss,
\* which soft-halts it and halts it when it comes twice, and a 2.5% gain.
Fills == {-10, -5, 5}
=============================================================================
