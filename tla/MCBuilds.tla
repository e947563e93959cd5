------------------------------ MODULE MCBuilds ------------------------------
(***************************************************************************)
(* Values of the constants of Builds for the model checker: the artifact   *)
(* devices come with, which is the configured one, and two newer ones.     *)
(***************************************************************************)
EXTENDS Builds

CONSTANTS a1, a2, a3, none, u1, d1

Codes == [a \in Artifacts |-> CASE a = a1 -> 1 [] a = a2 -> 2 [] a = a3 -> 3]
=============================================================================
