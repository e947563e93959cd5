------------------------------- MODULE MCPool -------------------------------
(***************************************************************************)
(* Values of the constants of Pool for the model checker.                  *)
(***************************************************************************)
EXTENDS Pool

CONSTANTS c1, c2, c3, overview, check, heartbeat, event
=============================================================================
