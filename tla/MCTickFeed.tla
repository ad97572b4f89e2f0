---------------------------- MODULE MCTickFeed ----------------------------
(* Model-checking instance of TickFeed.                                    *)
EXTENDS TickFeed
=============================================================================
