----------------------------- MODULE MCReleases -----------------------------
(***************************************************************************)
(* Values of the constants of Releases for the model checker.              *)
(***************************************************************************)
EXTENDS Releases, TLC

CONSTANTS e1, r1, r2, d1, d2, u1, dev, stable

OnDev == [k \in Rows |-> dev]
(* r2 repackages r1's version; e1 is the oldest version.                   *)
Codes == [k \in Rows |-> IF k = e1 THEN 1 ELSE 2]
Numbers == [k \in Rows |-> CASE k = e1 -> 1 [] k = r1 -> 2 [] OTHER -> 3]
AskDev == [d \in Devices |-> dev]
OneUser == [d \in Devices |-> u1]
LowAndHigh == [d \in Devices |-> IF d = d1 THEN 10 ELSE 70]

ForAll == {AllTarget}
ForOneDevice == {AllTarget, [type |-> "device_id", value |-> d1]}

Full == {100}
Half == {50}
HalfOrFull == {0, 50, 150}  \* 0 and 150 are read as 100
=============================================================================
