---------------------------- MODULE MCResources ----------------------------
(***************************************************************************)
(* Values of the constants of Resources for the model checker: version v1  *)
(* on two channels (r1, r2) and version v2 on the first one (r3).  Device  *)
(* d1 follows the first channel, d2 the second.                            *)
(***************************************************************************)
EXTENDS Resources, TLC

CONSTANTS r1, r2, r3, v1, v2, d1, d2

VersionByRow == [k \in Rows |-> IF k = r3 THEN v2 ELSE v1]
Channels == [k \in Rows |-> Devices \cap {IF k = r2 THEN d2 ELSE d1}]
LowAndHigh == [d \in Devices |-> IF d = d1 THEN 10 ELSE 70]

AnyVersion == {Devices}
NoneOrAny == {{}, Devices}  \* the app version of the devices is out of the range or in it

HalfOrFull == {0, 50, 150}  \* 0 and 150 are read as 100
Half == {50}
=============================================================================
