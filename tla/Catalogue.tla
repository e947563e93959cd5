----------------------------- MODULE Catalogue -----------------------------
(***************************************************************************)
(* What a resource store promises to the devices that look a resource up,  *)
(* whatever its tables: nothing but publishing puts an entry into          *)
(* circulation, and a lookup finds, of the live entries that reach the     *)
(* device, the one that was published last.                                *)
(***************************************************************************)
EXTENDS Integers

CONSTANTS
    Entries,     \* resource versions
    NoEntry,     \* no resource, not one of the Entries
    Devices

(* draft: registered; withdrawn: paused or recalled.                        *)
Stages == {"absent", "draft", "live", "withdrawn"}

VARIABLES
    stage,       \* [Entries -> Stages]
    reach,       \* [Entries -> SUBSET Devices]: whom each entry is meant for
    rank,        \* [Entries -> Nat]: order of publication, 0 for never
    found        \* [Devices -> Entries or NoEntry]: the last lookup

vars == <<stage, reach, rank, found>>

Init ==
    /\ stage = [k \in Entries |-> "absent"]
    /\ reach \in [Entries -> SUBSET Devices]
    /\ rank = [k \in Entries |-> 0]
    /\ found = [d \in Devices |-> NoEntry]

(* g differs from f at most at k, where it is a member of S.               *)
ChangedAt(f, g, k, S) ==
    /\ DOMAIN g = DOMAIN f
    /\ g[k] \in S
    /\ \A j \in DOMAIN f \ {k} : g[j] = f[j]

(* A new registration is a draft, for the devices it names.  The store may *)
(* forget when its predecessor was published.                              *)
Create(k) ==
    /\ stage' = [stage EXCEPT ![k] = "draft"]
    /\ ChangedAt(reach, reach', k, SUBSET Devices)
    /\ ChangedAt(rank, rank', k, {0, rank[k]})
    /\ UNCHANGED found

(* An entry that has no place in the order goes to its end; another one    *)
(* keeps the place it had.                                                 *)
Publish(k) ==
    /\ stage[k] # "absent"
    /\ stage' = [stage EXCEPT ![k] = "live"]
    /\ IF rank[k] # 0
       THEN UNCHANGED rank
       ELSE /\ ChangedAt(rank, rank', k, Nat)
            /\ \A j \in Entries : rank[j] < rank'[k]
    /\ UNCHANGED <<reach, found>>

(* Several entries may be withdrawn at once.                               *)
Withdraw(S) ==
    /\ \A k \in S : stage[k] # "absent"
    /\ stage' = [k \in Entries |-> IF k \in S THEN "withdrawn" ELSE stage[k]]
    /\ UNCHANGED <<reach, rank, found>>

(* Whom an entry reaches may change while it stays what it is.             *)
Rollout(k) ==
    /\ stage[k] # "absent"
    /\ ChangedAt(reach, reach', k, SUBSET Devices)
    /\ UNCHANGED <<stage, rank, found>>

Candidates(d) == {k \in Entries : stage[k] = "live" /\ d \in reach[k]}

Lookup(d) ==
    /\ IF Candidates(d) = {}
       THEN found' = [found EXCEPT ![d] = NoEntry]
       ELSE \E k \in Candidates(d) :
               /\ \A j \in Candidates(d) : rank[j] <= rank[k]
               /\ found' = [found EXCEPT ![d] = k]
    /\ UNCHANGED <<stage, reach, rank>>

LookupFails(d) ==
    /\ found' = [found EXCEPT ![d] = NoEntry]
    /\ UNCHANGED <<stage, reach, rank>>

Next ==
    \/ \E k \in Entries : Create(k) \/ Publish(k) \/ Rollout(k)
    \/ \E S \in SUBSET Entries : Withdraw(S)
    \/ \E d \in Devices : Lookup(d) \/ LookupFails(d)

Spec == Init /\ [][Next]_vars
=============================================================================
