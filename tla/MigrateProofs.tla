--------------------------- MODULE MigrateProofs ----------------------------
(***************************************************************************)
(* Any number of migrators beside each other and cut off anywhere apply    *)
(* any number of files once each and in order.                             *)
(*                                                                         *)
(* AppliedOnceInOrder and DoneIsComplete need one fact more: a migrator    *)
(* has every file before the one it is about behind it, since it read or   *)
(* committed its version, and a version is never removed.  At most one     *)
(* transaction holds the row of a version that is not recorded, so the     *)
(* file that is committed next is the one after those recorded.            *)
(***************************************************************************)
EXTENDS Migrate, TLAPS

(* What was applied is a prefix of the files, and is what is recorded.     *)
Prefix ==
    /\ recorded = 1 .. Len(effects)
    /\ \A i \in 1 .. Len(effects) : effects[i] = i

Behind ==
    \A m \in Migrators :
        /\ pc[m] \in {"look", "body", "insert", "commit"} => 1 .. at[m] - 1 \subseteq recorded
        /\ pc[m] \in {"body", "insert", "commit"} => at[m] \in Files
        /\ pc[m] = "exit 0" => Files \subseteq recorded

(* The primary key: one open transaction per version, none of a version    *)
(* that is recorded.                                                       *)
OneInserter ==
    \A m \in Migrators : pc[m] = "commit" =>
        /\ at[m] \notin recorded
        /\ \A n \in Migrators : n # m /\ pc[n] = "commit" => at[n] # at[m]

IInv == TypeOK /\ Prefix /\ Behind /\ OneInserter

LEMMA InitInv == Init => IInv
<1> SUFFICES ASSUME Init PROVE IInv
  OBVIOUS
<1>1. TypeOK
  <2>1. 1 \in 1 .. LastFile + 1
    BY FilesAssumption
  <2>2. at \in [Migrators -> 1 .. LastFile + 1]
    BY <2>1 DEF Init
  <2>3. effects \in Seq(Files)
    <3>1. effects = <<>>
      BY DEF Init
    <3> QED
      BY <3>1
  <2> QED
    BY <2>2, <2>3 DEF Init, TypeOK, Ended
<1>2. Len(effects) = 0
  <2>1. effects = <<>>
    BY DEF Init
  <2> QED
    BY <2>1
<1>3. Prefix
  <2>1. recorded = {}
    BY DEF Init
  <2>2. 1 .. Len(effects) = {}
    BY <1>2
  <2> QED
    BY <2>1, <2>2 DEF Prefix
<1>4. Behind /\ OneInserter
  BY DEF Init, Behind, OneInserter
<1> QED
  BY <1>1, <1>3, <1>4 DEF IInv

(* A step that takes the process elsewhere without an insert.              *)
LEMMA QuietStep ==
    ASSUME IInv, NEW m \in Migrators, UNCHANGED <<recorded, effects, at>>,
           NEW step \in Ended \cup {"look", "body", "insert"}, Go(m, step),
           pc[m] \in {"look", "body", "insert", "commit"},
           step \in {"body", "insert"} => at[m] \in Files,
           step = "exit 0" => Files \subseteq recorded
    PROVE  IInv'
<1>1. TypeOK'
  BY DEF IInv, TypeOK, Go
<1>2. \A n \in Migrators : pc'[n] = IF n = m THEN step ELSE pc[n]
  BY DEF IInv, TypeOK, Go
<1>3. Prefix'
  BY DEF IInv, Prefix
<1>4. Behind'
  BY <1>2 DEF IInv, Behind, Ended
<1>5. OneInserter'
  BY <1>2 DEF IInv, OneInserter, Ended
<1> QED
  BY <1>1, <1>3, <1>4, <1>5 DEF IInv

LEMMA StartInv ==
    ASSUME IInv, NEW m \in Migrators, Start(m)
    PROVE  IInv'
<1>1. TypeOK'
  <2>1. 1 \in 1 .. LastFile + 1
    BY FilesAssumption
  <2> QED
    BY <2>1 DEF IInv, TypeOK, Start, Go
<1>2. \A n \in Migrators : /\ pc'[n] = IF n = m THEN "look" ELSE pc[n]
                           /\ at'[n] = IF n = m THEN 1 ELSE at[n]
  BY DEF IInv, TypeOK, Start, Go
<1>3. UNCHANGED <<recorded, effects>>
  BY DEF Start
<1>4. Prefix'
  BY <1>3 DEF IInv, Prefix
<1>5. 1 .. 1 - 1 = {}
  OBVIOUS
<1>6. Behind'
  BY <1>2, <1>3, <1>5 DEF IInv, Behind
<1>7. OneInserter'
  BY <1>2, <1>3 DEF IInv, OneInserter
<1> QED
  BY <1>1, <1>4, <1>6, <1>7 DEF IInv

LEMMA LookInv ==
    ASSUME IInv, NEW m \in Migrators, Look(m)
    PROVE  IInv'
<1>1. CASE at[m] \notin recorded
  BY <1>1, QuietStep DEF Look
<1>2. CASE at[m] \in recorded
  <2>1. /\ at' = [at EXCEPT ![m] = @ + 1] /\ UNCHANGED <<pc, recorded, effects>>
        /\ pc[m] = "look" /\ at[m] \in Files
    BY <1>2 DEF Look
  <2>2. TypeOK'
    BY <2>1, FilesAssumption DEF IInv, TypeOK, Files
  <2>3. \A n \in Migrators : at'[n] = IF n = m THEN at[m] + 1 ELSE at[n]
    BY <2>1 DEF IInv, TypeOK
  <2>4. 1 .. (at[m] + 1) - 1 \subseteq recorded
    <3>1. 1 .. at[m] - 1 \subseteq recorded
      BY <2>1 DEF IInv, Behind
    <3>2. 1 .. (at[m] + 1) - 1 = (1 .. at[m] - 1) \cup {at[m]}
      BY <2>1, FilesAssumption DEF Files
    <3> QED
      BY <1>2, <3>1, <3>2
  <2>5. Prefix'
    BY <2>1 DEF IInv, Prefix
  <2>6. Behind'
    BY <2>1, <2>3, <2>4 DEF IInv, Behind
  <2>7. OneInserter'
    BY <2>1, <2>3 DEF IInv, OneInserter
  <2> QED
    BY <2>2, <2>5, <2>6, <2>7 DEF IInv
<1> QED
  BY <1>1, <1>2

LEMMA InsertInv ==
    ASSUME IInv, NEW m \in Migrators, Insert(m)
    PROVE  IInv'
<1>1. CASE at[m] \in recorded
  BY <1>1, QuietStep DEF Insert, Ended
<1>2. CASE at[m] \notin recorded
  <2>1. /\ UNCHANGED <<recorded, effects, at>> /\ pc[m] = "insert"
        /\ \A n \in Migrators : pc'[n] = IF n = m THEN "commit" ELSE pc[n]
    BY <1>2 DEF IInv, TypeOK, Insert, Go
  <2>2. TypeOK'
    BY <1>2 DEF IInv, TypeOK, Insert, Go
  <2>3. \A n \in Migrators : pc[n] = "commit" => at[n] # at[m]
    BY DEF Insert, Inserted
  <2>4. Prefix' /\ Behind' /\ OneInserter'
    BY <1>2, <2>1, <2>3 DEF IInv, Prefix, Behind, OneInserter
  <2> QED
    BY <2>2, <2>4 DEF IInv
<1> QED
  BY <1>1, <1>2

(* The file committed is the first that is not recorded: those before it   *)
(* are, and it is not.                                                     *)
LEMMA CommitInv ==
    ASSUME IInv, NEW m \in Migrators, Commit(m)
    PROVE  IInv'
<1> DEFINE f == at[m]
<1>1. /\ f \in Files /\ f \notin recorded /\ 1 .. f - 1 \subseteq recorded
      /\ effects \in Seq(Files) /\ recorded = 1 .. Len(effects)
  BY DEF Commit, IInv, TypeOK, Prefix, Behind, OneInserter
<1>2. f = Len(effects) + 1
  BY <1>1, FilesAssumption DEF Files
<1>3. \A n \in Migrators : /\ pc'[n] = IF n = m THEN "look" ELSE pc[n]
                           /\ at'[n] = IF n = m THEN f + 1 ELSE at[n]
  BY DEF IInv, TypeOK, Commit, Go
<1>4. recorded' = recorded \cup {f} /\ effects' = Append(effects, f)
  BY DEF Commit
<1>5. TypeOK'
  BY <1>1, FilesAssumption DEF IInv, TypeOK, Commit, Go, Files
<1>6. Prefix'
  BY <1>1, <1>2, <1>4 DEF IInv, Prefix
<1>7. 1 .. (f + 1) - 1 \subseteq recorded'
  BY <1>1, <1>4, FilesAssumption DEF Files
<1>8. Behind'
  BY <1>3, <1>4, <1>7 DEF IInv, Behind
<1>9. OneInserter'
  BY <1>3, <1>4 DEF IInv, OneInserter, Commit
<1> QED
  BY <1>5, <1>6, <1>8, <1>9 DEF IInv

LEMMA FinishInv ==
    ASSUME IInv, NEW m \in Migrators, Finish(m)
    PROVE  IInv'
<1>1. 1 .. (LastFile + 1) - 1 \subseteq recorded
  BY DEF Finish, IInv, Behind
<1>2. Files \subseteq recorded
  BY <1>1, FilesAssumption DEF Files
<1> QED
  BY <1>2, QuietStep DEF Finish, Ended

LEMMA FailInv ==
    ASSUME IInv, NEW m \in Migrators, Fail(m)
    PROVE  IInv'
<1>1. pc[m] \in {"look", "body", "insert", "commit"}
  BY DEF Fail, IInv, TypeOK
<1> QED
  BY <1>1, QuietStep DEF Fail, Ended

(* The strengthening holds in every reachable state.                       *)
THEOREM Inductive == Spec => []IInv
<1>1. ASSUME IInv, [Next]_vars
      PROVE  IInv'
  <2>1. CASE UNCHANGED vars
    BY <1>1, <2>1 DEF IInv, TypeOK, Prefix, Behind, OneInserter, vars
  <2>2. ASSUME NEW m \in Migrators, Body(m) PROVE IInv'
    <3>1. at[m] \in Files
      BY <1>1, <2>2 DEF IInv, Behind, Body
    <3> QED
      BY <1>1, <2>2, <3>1, QuietStep DEF Body
  <2>3. ASSUME NEW m \in Migrators, Step(m) PROVE IInv'
    BY <1>1, <2>2, <2>3, LookInv, InsertInv, CommitInv, FinishInv DEF Step
  <2> QED
    BY <1>1, <2>1, <2>3, StartInv, FailInv DEF Next
<1> QED
  BY InitInv, <1>1, PTL DEF Spec

-----------------------------------------------------------------------------
(* Every variable keeps its type: no run walks past the file after the     *)
(* last, no version is recorded that is not that of a file.                *)
THEOREM TypeOKHolds == Spec => []TypeOK
<1>1. IInv => TypeOK
  BY DEF IInv
<1> QED
  BY Inductive, <1>1, PTL

(* The statements of each file take effect once and in the order of the    *)
(* files, and are on record, for any number of migrators.                  *)
THEOREM AppliedOnceInOrderHolds == Spec => []AppliedOnceInOrder
<1>1. IInv => AppliedOnceInOrder
  BY DEF IInv, Prefix, AppliedOnceInOrder, TypeOK
<1> QED
  BY Inductive, <1>1, PTL

(* A migrator that exits with 0 leaves no file unapplied.                  *)
THEOREM DoneIsCompleteHolds == Spec => []DoneIsComplete
<1>1. IInv => DoneIsComplete
  BY DEF IInv, Behind, DoneIsComplete
<1> QED
  BY Inductive, <1>1, PTL
=============================================================================
