------------------------------ MODULE MCAccess ------------------------------
(***************************************************************************)
(* Values of the constants of Access for the model checker: an             *)
(* administrator and a reader of releases, each with a token.              *)
(***************************************************************************)
EXTENDS Access, TLC

CONSTANTS admin, reader, sys, rel, entry, q1, q2

SystemGrant == {Perm("system", "*"), Perm("release", "*")}
ReadGrant == {ReleaseRead}
WriteGrant == {SystemWrite}

AllGrants == {SystemGrant, ReadGrant, WriteGrant, {}}

RoutedHere == {AdminAccess, SystemWrite}

UsersHere == << [account |-> admin, role |-> sys, enabled |-> TRUE],
                [account |-> reader, role |-> rel, enabled |-> TRUE] >>
RolesHere == << [code |-> sys, permissions |-> SystemGrant, enabled |-> TRUE],
                [code |-> rel, permissions |-> ReadGrant, enabled |-> TRUE] >>
EntriesHere == << [key |-> entry, enabled |-> TRUE] >>

Alike == Permutations(Requests)
=============================================================================
