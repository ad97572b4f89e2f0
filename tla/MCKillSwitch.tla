---------------------------- MODULE MCKillSwitch ----------------------------
(* Model-checking instance of KillSwitch.                                  *)
EXTENDS KillSwitch
=============================================================================
