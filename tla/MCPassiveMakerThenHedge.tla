-------------------- MODULE MCPassiveMakerThenHedge --------------------
(* A small instance of PassiveMakerThenHedge for TLC. *)
EXTENDS PassiveMakerThenHedge

CONSTANTS c1, c2
MCCallers == {c1, c2}
=============================================================================
