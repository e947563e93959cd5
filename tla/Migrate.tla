------------------------------ MODULE Migrate ------------------------------
(***************************************************************************)
(* cmd/migrate: applyUpMigrations walks the sorted *.up.sql files, skips   *)
(* the versions schema_migrations names and applies each of the others in  *)
(* a transaction of its own that also records the version.                 *)
(*                                                                         *)
(* Every deployment starts a migrator, so several may run at once, and any *)
(* of them may be killed, run into its timeout or see a statement fail.    *)
(* The look at schema_migrations is not part of the transaction; what      *)
(* keeps two migrators apart is the primary key of schema_migrations: an   *)
(* insert of a version another transaction has inserted waits for the end  *)
(* of that transaction, and fails if it commits.                           *)
(***************************************************************************)
EXTENDS Integers, Sequences

CONSTANTS
    Migrators,   \* the runs of cmd/migrate
    LastFile     \* the files are 1 .. LastFile, as sort.Strings orders them

ASSUME FilesAssumption == LastFile \in Nat \ {0}

Files == 1 .. LastFile

VARIABLES
    recorded,   \* the versions in schema_migrations
    effects,    \* the files whose statements were committed, in that order
    at,         \* the file each migrator is about, LastFile + 1 after the last
    pc          \* what it does next

vars == <<recorded, effects, at, pc>>

Ended == {"exit 0", "exit 1", "cut off"}

TypeOK ==
    /\ recorded \subseteq Files
    /\ effects \in Seq(Files)
    /\ at \in [Migrators -> 1 .. LastFile + 1]
    /\ pc \in [Migrators -> Ended \cup {"look", "body", "insert", "commit"}]

Go(m, step) == pc' = [pc EXCEPT ![m] = step]

(* The transactions whose row of this version is not committed yet.        *)
Inserted(file) == {m \in Migrators : pc[m] = "commit" /\ at[m] = file}

-----------------------------------------------------------------------------
(* A deployment runs the migrator, again if it ran before.                 *)
Start(m) ==
    /\ pc[m] \in Ended
    /\ at' = [at EXCEPT ![m] = 1]
    /\ Go(m, "look")
    /\ UNCHANGED <<recorded, effects>>

(* RunsComplete: a version that is there ends the walk.                    *)
Look_Returns(m) ==
    /\ pc[m] = "look"
    /\ at[m] \in Files
    /\ Go(m, IF at[m] \in recorded THEN "exit 1" ELSE "body")
    /\ UNCHANGED <<recorded, effects, at>>

(* TypeOK: the walk goes on past the last file.                            *)
Look_PastTheLast(m) ==
    /\ pc[m] = "look"
    /\ IF at[m] \in recorded
       THEN at' = [at EXCEPT ![m] = @ + 1] /\ UNCHANGED pc
       ELSE Go(m, "body") /\ UNCHANGED at
    /\ UNCHANGED <<recorded, effects>>

(* select exists(...), outside any transaction.                            *)
Look(m) ==
    /\ pc[m] = "look"
    /\ at[m] \in Files
    /\ IF at[m] \in recorded
       THEN at' = [at EXCEPT ![m] = @ + 1] /\ UNCHANGED pc
       ELSE Go(m, "body") /\ UNCHANGED at
    /\ UNCHANGED <<recorded, effects>>

(* AppliedOnceInOrder: the version is recorded outside the transaction.    *)
Body_Recorded(m) ==
    /\ pc[m] = "body"
    /\ Go(m, "commit")
    /\ recorded' = recorded \cup {at[m]}
    /\ UNCHANGED <<effects, at>>

(* The statements of the file, in a transaction that has just begun.       *)
Body(m) ==
    /\ pc[m] = "body"
    /\ Go(m, "insert")
    /\ UNCHANGED <<recorded, effects, at>>

(* DoneIsComplete: a version another run recorded is a success.            *)
Insert_Satisfied(m) ==
    /\ pc[m] = "insert"
    /\ Inserted(at[m]) = {}
    /\ Go(m, IF at[m] \in recorded THEN "exit 0" ELSE "commit")
    /\ UNCHANGED <<recorded, effects, at>>

(* insert into schema_migrations: waits for a transaction that has         *)
(* inserted the version; a version that is there is an error, and the      *)
(* error a rollback and the end of the run.                                *)
Insert(m) ==
    /\ pc[m] = "insert"
    /\ Inserted(at[m]) = {}
    /\ Go(m, IF at[m] \in recorded THEN "exit 1" ELSE "commit")
    /\ UNCHANGED <<recorded, effects, at>>

Commit(m) ==
    /\ pc[m] = "commit"
    /\ recorded' = recorded \cup {at[m]}
    /\ effects' = Append(effects, at[m])
    /\ at' = [at EXCEPT ![m] = @ + 1]
    /\ Go(m, "look")

Finish(m) ==
    /\ pc[m] = "look"
    /\ at[m] = LastFile + 1
    /\ Go(m, "exit 0")
    /\ UNCHANGED <<recorded, effects, at>>

(* A statement fails, the timeout expires or the process is killed: the    *)
(* open transaction is rolled back and the run ends.                       *)
Fail(m) ==
    /\ pc[m] \notin Ended
    /\ Go(m, "cut off")
    /\ UNCHANGED <<recorded, effects, at>>

Step(m) == Look(m) \/ Body(m) \/ Insert(m) \/ Commit(m) \/ Finish(m)

-----------------------------------------------------------------------------
Init ==
    /\ recorded = {}
    /\ effects = <<>>
    /\ at = [m \in Migrators |-> 1]
    /\ pc = [m \in Migrators |-> "cut off"]

Next == \E m \in Migrators : Start(m) \/ Step(m) \/ Fail(m)

Spec == Init /\ [][Next]_vars

(* A migrator that runs goes on; nothing makes anyone start it.            *)
FairSpec == Spec /\ \A m \in Migrators : WF_vars(Step(m))

-----------------------------------------------------------------------------
(* The statements of a file take effect at most once, whoever looked when  *)
(* (main.go 65 looks outside the transaction of 76-88), only after those   *)
(* of every file before it, and schema_migrations names exactly the files  *)
(* that took effect, also after a run was cut off between two statements:  *)
(* no version is skipped that was never applied.                           *)
AppliedOnceInOrder ==
    /\ \A i \in DOMAIN effects : effects[i] = i
    /\ recorded = DOMAIN effects

(* A run that ends with 0 leaves every file applied, whichever of them     *)
(* another run applied beside it (68-71 and 92).                           *)
DoneIsComplete == \A m \in Migrators : pc[m] = "exit 0" => Files \subseteq recorded

(* Where runs go on being started and are cut off only finitely often, all *)
(* files are applied in the end: no earlier run, whatever point it got to  *)
(* and whatever beside it, leaves a state the next cannot go on from.      *)
RunsComplete ==
    /\ <>[][~ \E m \in Migrators : Fail(m)]_vars
    /\ []<>(\E m \in Migrators : pc[m] \notin Ended)
    => <>(Files \subseteq recorded)
=============================================================================
