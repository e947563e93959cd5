----------------------------- MODULE MCDevices ------------------------------
(***************************************************************************)
(* Values of the constants of Devices for the model checker.               *)
(***************************************************************************)
EXTENDS Devices

CONSTANTS r1, r2, none

Unavailable == [code |-> 1, min |-> 0, force |-> FALSE, available |-> FALSE]
Forced == [code |-> 2, min |-> 2, force |-> TRUE, available |-> TRUE]

OffersHere == {Unavailable, Forced}
ResOffersHere == {[version |-> r1, level |-> "normal"], [version |-> r2, level |-> "forced"]}
=============================================================================
