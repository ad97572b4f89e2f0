------------------------------ MODULE MCWSHub ------------------------------
(* Model-checking instance of WSHub.                                       *)
EXTENDS WSHub
=============================================================================
