--------------------------- MODULE ReleasesProofs ---------------------------
(***************************************************************************)
(* Proofs about Releases for every set of rows, devices, requests and      *)
(* targets, and every bound on the clock.                                  *)
(***************************************************************************)
EXTENDS Releases, TLAPS

InFlight == [step : Steps, row : Rows, target : Targets]

(* The percentage an administrator may ask for is stored within 1..100.    *)
LEMMA NormalizeRolloutRange ==
    ASSUME NEW p \in Int
    PROVE  NormalizeRollout(p) \in 1 .. 100
BY DEF NormalizeRollout

(* Every action of the console names a status of the table.                *)
LEMMA StatusOfRange ==
    ASSUME NEW action \in DOMAIN StatusOf
    PROVE  StatusOf[action] \in {"released", "paused", "recalled"}
BY DEF StatusOf

(* The query answers rows or the configuration.                            *)
LEMMA FindLatestReleaseRange ==
    ASSUME NEW d \in Devices
    PROVE  FindLatestRelease(d) \subseteq Rows \cup {NoRow}
BY RowsAssumption DEF FindLatestRelease

-----------------------------------------------------------------------------
(* Type correctness: every statement leaves well-formed rows, and every    *)
(* request is idle or at one of its statements.                            *)
LEMMA ConfiguredType ==
    ASSUME NEW r \in Release, now \in Time
    PROVE  Configured(r) \in Release
<1>1. CASE r.status = "absent"
  <2>1. NoRelease \in Release
    BY RequestsAssumption DEF NoRelease, Release, Statuses
  <2>2. [NoRelease EXCEPT !.status = "released", !.publishedAt = now] \in Release
    BY <2>1 DEF Release, Statuses
  <2>3. QED BY <1>1, <2>2 DEF Configured
<1>2. CASE r.status # "absent"
  <2>1. (IF r.publishedAt = Null THEN now ELSE r.publishedAt) \in Time \cup {Null}
    BY DEF Release
  <2>2. Configured(r) = [r EXCEPT !.status = "released",
                !.publishedAt = IF r.publishedAt = Null THEN now ELSE r.publishedAt]
    BY <1>2 DEF Configured
  <2>3. QED BY <2>1, <2>2 DEF Release, Statuses
<1>3. QED BY <1>1, <1>2

(* CreateRelease and ensureRelease write rows of the type.                 *)
LEMMA UpsertedType ==
    ASSUME NEW r \in Release, NEW scheduled \in BOOLEAN, NEW at \in Time \cup {Null},
           NEW p \in Int, NEW t \in Targets
    PROVE  Upserted(r, scheduled, at, p, t) \in Release
<1>1. NormalizeRollout(p) \in 1 .. 100
  BY NormalizeRolloutRange
<1>2. (IF scheduled THEN "scheduled" ELSE "draft") \in Statuses
  BY DEF Statuses
<1>3. QED BY <1>1, <1>2 DEF Upserted, Release

(* UpdateReleaseStatus writes rows of the type.                            *)
LEMMA WithStatusType ==
    ASSUME NEW r \in Release, NEW status \in Statuses, NEW publish \in BOOLEAN, now \in Time
    PROVE  WithStatus(r, status, publish) \in Release
<1>1. (IF publish /\ r.publishedAt = Null THEN now ELSE r.publishedAt) \in Time \cup {Null}
  BY DEF Release
<1>2. (status = "paused") \in BOOLEAN
  OBVIOUS
<1>3. QED BY <1>1, <1>2 DEF WithStatus, Release

(* UpdateReleaseRollout writes rows of the type.                           *)
LEMMA WithRolloutType ==
    ASSUME NEW r \in Release, NEW p \in 1 .. 100
    PROVE  WithRollout(r, p) \in Release
<1>1. (IF r.status = "released" /\ p < 100 THEN "rolling_out" ELSE r.status) \in Statuses
  BY DEF Release, Statuses
<1>2. QED BY <1>1 DEF WithRollout, Release

(* The empty database after the first start is well typed.                 *)
LEMMA InitType == Init => TypeOK
<1> SUFFICES ASSUME Init PROVE TypeOK
  OBVIOUS
<1>1. NoRelease \in Release /\ 1 \in Time
  BY RequestsAssumption DEF NoRelease, Release, Statuses, Time, Null
<1>2. Configured(NoRelease) \in Release
  BY <1>1, ConfiguredType DEF Init
<1>3. rel \in [Rows -> Release]
  BY <1>1, <1>2 DEF Init
<1>4. QED BY <1>1, <1>3 DEF Init, TypeOK

(* Every step keeps the state well typed.                                  *)
LEMMA NextType == TypeOK /\ [Next]_vars => TypeOK'
<1> SUFFICES ASSUME TypeOK, [Next]_vars PROVE TypeOK'
  OBVIOUS
<1> USE DEF TypeOK
<1>1. ASSUME NEW c \in Creates, NEW k \in Rows, NEW scheduled \in BOOLEAN,
             NEW at \in Time \cup {Null}, NEW p \in Percentages, NEW t \in Targets,
             CreateUpsert(c, k, scheduled, at, p, t)
      PROVE  TypeOK'
  <2>1. rel[k] \in Release /\ p \in Int
    BY RequestsAssumption
  <2>2. Upserted(rel[k], scheduled, at, p, t) \in Release
    BY <2>1, UpsertedType
  <2>3. rel' \in [Rows -> Release]
    BY <1>1, <2>2 DEF CreateUpsert
  <2>4. create' \in [Creates -> {Idle} \cup InFlight]
    BY <1>1 DEF CreateUpsert, InFlight, Steps
  <2>5. QED BY <1>1, <2>3, <2>4 DEF CreateUpsert, InFlight
<1>2. ASSUME NEW c \in Creates, CreateDeleteRules(c)
      PROVE  TypeOK'
  <2>1. create[c] \in InFlight
    BY <1>2 DEF CreateDeleteRules, Idle, InFlight
  <2>2. create' \in [Creates -> {Idle} \cup InFlight]
    BY <1>2, <2>1 DEF CreateDeleteRules, InFlight, Steps
  <2>3. rules' \in [Rows -> SUBSET Targets]
    BY <1>2, <2>1 DEF CreateDeleteRules, InFlight
  <2>4. QED BY <1>2, <2>2, <2>3 DEF CreateDeleteRules, InFlight
<1>3. ASSUME NEW c \in Creates, CreateInsertRule(c)
      PROVE  TypeOK'
  <2>1. create[c] \in InFlight
    BY <1>3 DEF CreateInsertRule, Idle, InFlight
  <2>2. rules' \in [Rows -> SUBSET Targets]
    BY <1>3, <2>1 DEF CreateInsertRule, InFlight
  <2>3. QED BY <1>3, <2>2 DEF CreateInsertRule
<1>4. ASSUME NEW c \in Creates, CreateFails(c)
      PROVE  TypeOK'
  <2>1. create[c].row \in Rows
    BY <1>4 DEF CreateFails
  <2>2. QED BY <1>4, <2>1 DEF CreateFails
<1>5. ASSUME NEW k \in Rows, NEW action \in DOMAIN StatusOf, ReleaseAction(k, action)
      PROVE  TypeOK'
  <2>1. StatusOf[action] \in Statuses
    BY StatusOfRange DEF Statuses
  <2>2. WithStatus(rel[k], StatusOf[action], action = "publish") \in Release
    BY <2>1, WithStatusType
  <2>3. QED BY <1>5, <2>2 DEF ReleaseAction
<1>6. ASSUME NEW k \in Rows, NEW p \in Percentages, UpdateReleaseRollout(k, p)
      PROVE  TypeOK'
  <2>1. NormalizeRollout(p) \in 1 .. 100
    BY NormalizeRolloutRange, RequestsAssumption
  <2>2. WithRollout(rel[k], NormalizeRollout(p)) \in Release
    BY <2>1, WithRolloutType
  <2>3. QED BY <1>6, <2>2 DEF UpdateReleaseRollout
<1>7. ASSUME NEW enable \in BOOLEAN, AppAction(enable)
      PROVE  TypeOK'
  BY <1>7 DEF AppAction
<1>8. CASE EnsureApp
  BY <1>8 DEF EnsureApp
<1>9. ASSUME NEW d \in Devices, CheckFind(d)
      PROVE  TypeOK'
  BY <1>9, FindLatestReleaseRange DEF CheckFind
<1>10. ASSUME NEW d \in Devices, CheckFindFails(d)
       PROVE  TypeOK'
  BY <1>10, RowsAssumption DEF CheckFindFails
<1>11. ASSUME NEW d \in Devices, CheckAnswer(d)
       PROVE  TypeOK'
  <2>1. check[d].row \in Rows \cup {NoRow}
    BY <1>11 DEF CheckAnswer
  <2>2. QED BY <1>11, <2>1 DEF CheckAnswer
<1>12. CASE Restart
  <2>1. rel' \in [Rows -> Release] /\ enabled' \in BOOLEAN
    <3>1. CASE EnvRow = NoRow
      BY <1>12, <3>1 DEF Restart
    <3>2. CASE EnvRow # NoRow
      <4>1. Configured(rel[EnvRow]) \in Release
        BY <3>2, RowsAssumption, ConfiguredType
      <4>2. QED BY <1>12, <3>2, <4>1 DEF Restart
    <3>3. QED BY <3>1, <3>2
  <2>2. clean' \in [Rows -> BOOLEAN]
    BY <1>12, Zenon DEF Restart
  <2>3. QED BY <1>12, <2>1, <2>2 DEF Restart
<1>13. CASE Tick
  BY <1>13, RequestsAssumption DEF Tick, Time
<1>14. CASE UNCHANGED vars
  BY <1>14 DEF vars
<1>15. QED
  BY <1>1, <1>2, <1>3, <1>4, <1>5, <1>6, <1>7, <1>8, <1>9, <1>10, <1>11, <1>12,
     <1>13, <1>14 DEF Next, CreateRelease, Administer, Check

(* Every reachable state is well typed.                                    *)
THEOREM TypeCorrect == Spec => []TypeOK
BY InitType, NextType, PTL DEF Spec

-----------------------------------------------------------------------------
(* The inductive invariant.  The schedule of a row is its published_at,    *)
(* which only a CreateRelease of the row replaces.  While a clean row is   *)
(* being re-created there is one request on it, the row carries that       *)
(* request's target, and the old rules are gone once they were deleted;    *)
(* when nothing is under way the rules name the target and no other.       *)
DueKept == \A k \in Rows : due[k] # Null => rel[k].publishedAt = due[k]

AbsentForAll ==
    \A k \in Rows : rel[k].status = "absent" => rel[k].target = AllTarget /\ due[k] = Null

On(c, k) == create[c] # Idle /\ create[c].row = k

OneCreate ==
    \A k \in Rows : clean[k] =>
        \A c, o \in Creates : On(c, k) /\ On(o, k) => c = o

CreateOwnsRow ==
    \A k \in Rows, c \in Creates : clean[k] /\ On(c, k) =>
        /\ rel[k].target = create[c].target
        /\ create[c].step = "insert_rule" => rules[k] = {}

RulesFollowTarget ==
    \A k \in Rows : clean[k] /\ (\A c \in Creates : ~On(c, k)) =>
        rules[k] \subseteq {rel[k].target}

Dates == DueKept /\ LiveIsDated /\ PauseMark
Audience == AbsentForAll /\ OneCreate /\ CreateOwnsRow /\ RulesFollowTarget
IInv == TypeOK /\ Dates /\ Audience

(* The inductive invariant holds initially.                                *)
LEMMA InitIInv == Init => IInv
<1> SUFFICES ASSUME Init PROVE IInv
  OBVIOUS
<1>1. TypeOK
  BY InitType
<1>2. \A k \in Rows : /\ rel[k].target = AllTarget
                      /\ rel[k].stamped = FALSE
                      /\ rel[k].status \in {"absent", "released"}
                      /\ rel[k].status = "released" => k = EnvRow /\ rel[k].publishedAt = 1
  BY DEF Init, Configured, NoRelease
<1>3. Dates
  BY <1>2 DEF Init, Dates, DueKept, LiveIsDated, PauseMark, Live, IsLive, Null
<1>4. Audience
  BY <1>2 DEF Init, Audience, AbsentForAll, OneCreate, CreateOwnsRow, RulesFollowTarget, On
<1>5. QED BY <1>1, <1>3, <1>4 DEF IInv

(* What the functions on rows do to the columns the invariant speaks of.   *)
LEMMA UpsertedFacts ==
    ASSUME NEW r \in Release, NEW scheduled \in BOOLEAN, NEW at, NEW p, NEW t
    PROVE  /\ Upserted(r, scheduled, at, p, t).status \in {"draft", "scheduled"}
           /\ Upserted(r, scheduled, at, p, t).publishedAt = at
           /\ Upserted(r, scheduled, at, p, t).target = t
BY DEF Upserted, Release

(* UpdateReleaseStatus dates what it publishes and marks what it pauses.   *)
LEMMA WithStatusFacts ==
    ASSUME NEW r \in Release, NEW status \in Statuses, NEW publish \in BOOLEAN, now \in Time
    PROVE  /\ WithStatus(r, status, publish).status = status
           /\ WithStatus(r, status, publish).target = r.target
           /\ WithStatus(r, status, publish).stamped = (status = "paused")
           /\ r.publishedAt # Null => WithStatus(r, status, publish).publishedAt = r.publishedAt
           /\ publish => WithStatus(r, status, publish).publishedAt # Null
<1>1. now # Null
  BY DEF Time, Null
<1>2. QED BY <1>1 DEF WithStatus, Release

(* UpdateReleaseRollout dates nothing and withdraws nothing.               *)
LEMMA WithRolloutFacts ==
    ASSUME NEW r \in Release, NEW p \in 1 .. 100
    PROVE  /\ \/ WithRollout(r, p).status = r.status
              \/ r.status = "released" /\ WithRollout(r, p).status = "rolling_out"
           /\ WithRollout(r, p).target = r.target
           /\ WithRollout(r, p).stamped = r.stamped
           /\ WithRollout(r, p).publishedAt = r.publishedAt
BY DEF WithRollout, Release

(* ensureRelease publishes the configured row and dates it.                *)
LEMMA ConfiguredFacts ==
    ASSUME NEW r \in Release, now \in Time
    PROVE  /\ Configured(r).status = "released"
           /\ Configured(r).target = IF r.status = "absent" THEN AllTarget ELSE r.target
           /\ Configured(r).publishedAt # Null
           /\ r.status # "absent" /\ r.publishedAt # Null =>
                 Configured(r).publishedAt = r.publishedAt
<1>1. now # Null
  BY DEF Time, Null
<1>2. QED BY <1>1 DEF Configured, NoRelease, Release

(* What every step does to one row and its due date, as far as the dates   *)
(* and the audience depend on them.                                        *)
Kept(k) == rel'[k] = rel[k] /\ due'[k] = due[k]

Recreated(k) ==
    /\ rel'[k].status \in {"draft", "scheduled"}
    /\ rel'[k].publishedAt = due'[k]

Revived(k) ==
    /\ rel'[k].status = "released"
    /\ rel'[k].publishedAt # Null
    /\ rel[k].status # "absent" /\ rel[k].publishedAt # Null =>
          rel'[k].publishedAt = rel[k].publishedAt
    /\ rel'[k].target = IF rel[k].status = "absent" THEN AllTarget ELSE rel[k].target
    /\ due'[k] = due[k]

Published(k) == Revived(k) /\ ~rel'[k].stamped /\ rel[k].status # "absent"

Withdrew(k) ==
    /\ rel'[k].status \in Withdrawn
    /\ rel'[k].stamped = (rel'[k].status = "paused")
    /\ rel[k].publishedAt # Null => rel'[k].publishedAt = rel[k].publishedAt
    /\ rel[k].status # "absent" /\ rel'[k].target = rel[k].target /\ due'[k] = due[k]

Rolled(k) ==
    /\ \/ rel'[k].status = rel[k].status
       \/ rel[k].status = "released" /\ rel'[k].status = "rolling_out"
    /\ rel'[k].stamped = rel[k].stamped
    /\ rel'[k].publishedAt = rel[k].publishedAt
    /\ rel'[k].target = rel[k].target
    /\ due'[k] = due[k]

RowStep(k) ==
    \/ Kept(k) \/ Recreated(k) \/ Published(k) \/ Withdrew(k) \/ Rolled(k)
    \/ k = EnvRow /\ Revived(k)

(* The upsert of CreateRelease is a legal step of every row.               *)
LEMMA CreateUpsertRows ==
    ASSUME TypeOK,
           NEW c \in Creates, NEW k \in Rows, NEW scheduled \in BOOLEAN,
           NEW at \in Time \cup {Null}, NEW p, NEW t \in Targets,
           CreateUpsert(c, k, scheduled, at, p, t)
    PROVE  /\ Recreated(k) /\ rel'[k].target = t
           /\ \A j \in Rows \ {k} : Kept(j)
<1>1. rel[k] \in Release /\ rel \in [Rows -> Release] /\ due \in [Rows -> Time \cup {Null}]
  BY DEF TypeOK
<1>2. rel'[k] = Upserted(rel[k], scheduled, at, p, t) /\ due'[k] = at
  BY <1>1 DEF CreateUpsert
<1>3. Recreated(k) /\ rel'[k].target = t
  BY <1>1, <1>2, UpsertedFacts DEF Recreated
<1>4. \A j \in Rows \ {k} : Kept(j)
  BY <1>1 DEF CreateUpsert, Kept
<1>5. QED BY <1>3, <1>4

(* ReleaseAction is a legal step of every row.                             *)
LEMMA ReleaseActionRows ==
    ASSUME TypeOK,
           NEW k \in Rows, NEW action \in DOMAIN StatusOf, ReleaseAction(k, action)
    PROVE  /\ IF action = "publish" THEN Published(k) ELSE Withdrew(k)
           /\ \A j \in Rows \ {k} : Kept(j)
<1>1. /\ rel[k] \in Release /\ rel \in [Rows -> Release]
      /\ now \in Time
      /\ StatusOf[action] \in Statuses
  BY StatusOfRange DEF TypeOK, Statuses
<1>2. rel'[k] = WithStatus(rel[k], StatusOf[action], action = "publish")
  BY <1>1 DEF ReleaseAction
<1>3. (action = "publish") \in BOOLEAN
  OBVIOUS
<1>4. /\ WithStatus(rel[k], StatusOf[action], action = "publish").status = StatusOf[action]
      /\ WithStatus(rel[k], StatusOf[action], action = "publish").target = rel[k].target
      /\ WithStatus(rel[k], StatusOf[action], action = "publish").stamped
            = (StatusOf[action] = "paused")
      /\ rel[k].publishedAt # Null =>
            WithStatus(rel[k], StatusOf[action], action = "publish").publishedAt
               = rel[k].publishedAt
      /\ action = "publish" =>
            WithStatus(rel[k], StatusOf[action], action = "publish").publishedAt # Null
  BY ONLY <1>1, <1>3, WithStatusFacts, Zenon
<1>5. \/ StatusOf[action] = "released" /\ action = "publish"
      \/ StatusOf[action] \in Withdrawn /\ action # "publish"
  BY DEF StatusOf, Withdrawn
<1>6. rel[k].status # "absent" /\ due' = due /\ \A j \in Rows \ {k} : rel'[j] = rel[j]
  BY <1>1 DEF ReleaseAction
<1>7. /\ IF action = "publish" THEN Published(k) ELSE Withdrew(k)
      /\ \A j \in Rows \ {k} : Kept(j)
  BY <1>2, <1>4, <1>5, <1>6 DEF Published, Revived, Withdrew, Withdrawn, Kept
<1>8. QED BY <1>7

(* UpdateReleaseRollout is a legal step of every row.                      *)
LEMMA RolloutRows ==
    ASSUME TypeOK,
           NEW k \in Rows, NEW p \in Percentages, UpdateReleaseRollout(k, p)
    PROVE  /\ Rolled(k)
           /\ \A j \in Rows \ {k} : Kept(j)
<1>1. /\ rel[k] \in Release /\ rel \in [Rows -> Release]
      /\ NormalizeRollout(p) \in 1 .. 100
  BY NormalizeRolloutRange, RequestsAssumption DEF TypeOK
<1>2. rel'[k] = WithRollout(rel[k], NormalizeRollout(p)) /\ due' = due
  BY <1>1 DEF UpdateReleaseRollout
<1>3. Rolled(k)
  BY <1>1, <1>2, WithRolloutFacts DEF Rolled
<1>4. \A j \in Rows \ {k} : Kept(j)
  BY <1>1 DEF UpdateReleaseRollout, Kept
<1>5. QED BY <1>3, <1>4

(* SyncConfiguredRelease is a legal step of every row.                     *)
LEMMA RestartRows ==
    ASSUME TypeOK, Restart
    PROVE  \A k \in Rows : Kept(k) \/ (k = EnvRow /\ Revived(k))
<1>1. rel \in [Rows -> Release] /\ now \in Time
  BY DEF TypeOK
<1>2. CASE EnvRow = NoRow
  BY <1>2 DEF Restart, Kept
<1>3. CASE EnvRow # NoRow
  <2>1. EnvRow \in Rows /\ rel[EnvRow] \in Release
    BY <1>1, <1>3, RowsAssumption
  <2>2. rel'[EnvRow] = Configured(rel[EnvRow]) /\ due' = due
    BY <1>1, <1>3, <2>1 DEF Restart
  <2>3. Revived(EnvRow)
    BY <1>1, <2>1, <2>2, ConfiguredFacts DEF Revived
  <2>4. \A j \in Rows \ {EnvRow} : Kept(j)
    BY <1>1, <1>3 DEF Restart, Kept
  <2>5. QED BY <2>3, <2>4
<1>4. QED BY <1>2, <1>3

(* The other actions leave the rows alone.                                 *)
LEMMA OtherRows ==
    ASSUME UNCHANGED <<rel, due>>
    PROVE  \A k \in Rows : Kept(k)
BY DEF Kept

(* Every step is a legal step of every row.                                *)
LEMMA NextRows == TypeOK /\ [Next]_vars => \A k \in Rows : RowStep(k)
<1> SUFFICES ASSUME TypeOK, [Next]_vars PROVE \A k \in Rows : RowStep(k)
  OBVIOUS
<1> USE DEF RowStep
<1>1. ASSUME NEW c \in Creates, NEW k \in Rows, NEW scheduled \in BOOLEAN,
             NEW at \in Time \cup {Null}, NEW p \in Percentages, NEW t \in Targets,
             CreateUpsert(c, k, scheduled, at, p, t)
      PROVE  \A j \in Rows : RowStep(j)
  BY <1>1, CreateUpsertRows
<1>2. ASSUME NEW k \in Rows, NEW action \in DOMAIN StatusOf, ReleaseAction(k, action)
      PROVE  \A j \in Rows : RowStep(j)
  BY <1>2, ReleaseActionRows
<1>3. ASSUME NEW k \in Rows, NEW p \in Percentages, UpdateReleaseRollout(k, p)
      PROVE  \A j \in Rows : RowStep(j)
  BY <1>3, RolloutRows
<1>4. CASE Restart
  BY <1>4, RestartRows
<1>5. CASE UNCHANGED <<rel, due>>
  BY <1>5, OtherRows
<1>6. ASSUME NEW c \in Creates, CreateRelease(c)
      PROVE  \A j \in Rows : RowStep(j)
  BY <1>1, <1>5, <1>6 DEF CreateRelease, CreateDeleteRules, CreateInsertRule, CreateFails
<1>7. CASE Administer
  BY <1>2, <1>3, <1>5, <1>7 DEF Administer, AppAction
<1>8. ASSUME NEW d \in Devices, Check(d)
      PROVE  UNCHANGED <<rel, due>>
  BY <1>8 DEF Check, CheckFind, CheckFindFails, CheckAnswer
<1>9. EnsureApp \/ Tick \/ UNCHANGED vars => UNCHANGED <<rel, due>>
  BY DEF EnsureApp, Tick, vars
<1>10. QED
  BY <1>4, <1>5, <1>6, <1>7, <1>8, <1>9 DEF Next

(* The dates follow row by row.                                            *)
LEMMA DatesStep == IInv /\ [Next]_vars => Dates'
<1> SUFFICES ASSUME IInv, [Next]_vars PROVE Dates'
  OBVIOUS
<1>1. \A k \in Rows : RowStep(k)
  BY NextRows DEF IInv
<1>2. \A k \in Rows : rel[k].status = "absent" => due[k] = Null
  BY DEF IInv, Audience, AbsentForAll
<1>3. DueKept'
  BY <1>1, <1>2 DEF IInv, Dates, DueKept, RowStep, Kept, Recreated, Published, Revived,
     Withdrew, Rolled
<1>4. LiveIsDated'
  BY <1>1 DEF IInv, Dates, LiveIsDated, Live, IsLive, Withdrawn, RowStep, Kept, Recreated,
     Published, Revived, Withdrew, Rolled
<1>5. PauseMark'
  BY <1>1 DEF IInv, Dates, PauseMark, Live, IsLive, Withdrawn, RowStep, Kept, Recreated,
     Published, Revived, Withdrew, Rolled
<1>6. QED BY <1>3, <1>4, <1>5 DEF Dates

-----------------------------------------------------------------------------
(* The audience.  A step other than CreateUpsert keeps the target of every *)
(* row, and only the steps of the requests themselves move them.           *)
LEMMA TargetKept ==
    ASSUME IInv,
           NEW k \in Rows,
           Kept(k) \/ Published(k) \/ Withdrew(k) \/ Rolled(k) \/ (k = EnvRow /\ Revived(k))
    PROVE  rel'[k].target = rel[k].target
BY DEF IInv, Audience, AbsentForAll, Kept, Published, Revived, Withdrew, Rolled

(* A row that was never created has no rules, and no step gives it any.    *)
LEMMA AbsentStep == IInv /\ [Next]_vars => AbsentForAll'
<1> SUFFICES ASSUME IInv, [Next]_vars PROVE AbsentForAll'
  OBVIOUS
<1>1. \A k \in Rows : RowStep(k)
  BY NextRows DEF IInv
<1>2. QED
  BY <1>1 DEF IInv, Audience, AbsentForAll, RowStep, Kept, Recreated, Published, Revived,
     Withdrew, Withdrawn, Rolled

Requests == OneCreate /\ CreateOwnsRow /\ RulesFollowTarget

(* A step that leaves targets, rules and requests alone keeps the audience.*)
LEMMA RequestsKept ==
    ASSUME IInv, UNCHANGED <<create, rules, clean>>,
           \A k \in Rows : rel'[k].target = rel[k].target
    PROVE  Requests'
BY DEF IInv, Audience, Requests, OneCreate, CreateOwnsRow, RulesFollowTarget, On

(* A request that upserts its row: alone, the row carries its target.      *)
LEMMA CreateUpsertRequests ==
    ASSUME IInv,
           NEW c \in Creates, NEW k \in Rows, NEW scheduled \in BOOLEAN,
           NEW at \in Time \cup {Null}, NEW p \in Percentages, NEW t \in Targets,
           CreateUpsert(c, k, scheduled, at, p, t)
    PROVE  Requests'
<1>1. /\ create \in [Creates -> {Idle} \cup InFlight] /\ clean \in [Rows -> BOOLEAN]
      /\ rules' = rules
  BY DEF CreateUpsert, IInv, TypeOK, InFlight
<1>2. rel'[k].target = t /\ \A j \in Rows \ {k} : rel'[j] = rel[j]
  BY CreateUpsertRows DEF IInv, Kept
<1>3. /\ create'[c] = [step |-> "delete_rules", row |-> k, target |-> t]
      /\ create[c] = Idle
      /\ \A o \in Creates \ {c} : create'[o] = create[o]
  BY <1>1 DEF CreateUpsert
<1>4. /\ clean'[k] => \A o \in Creates \ {c} : ~On(o, k)
      /\ \A j \in Rows \ {k} : clean'[j] = clean[j]
  BY <1>1 DEF CreateUpsert, OtherCreates, On
<1>5. /\ On(c, k)' /\ create'[c].target = t /\ create'[c].step = "delete_rules"
      /\ \A j \in Rows \ {k} : ~On(c, j)' /\ ~On(c, j)
      /\ \A o \in Creates \ {c}, j \in Rows : On(o, j)' <=> On(o, j)
  BY <1>3 DEF On, Idle
<1>6. OneCreate'
  BY <1>4, <1>5 DEF IInv, Audience, OneCreate
<1>7. CreateOwnsRow'
  BY <1>1, <1>2, <1>3, <1>4, <1>5 DEF IInv, Audience, CreateOwnsRow
<1>8. RulesFollowTarget'
  BY <1>1, <1>2, <1>4, <1>5 DEF IInv, Audience, RulesFollowTarget
<1>9. QED BY <1>6, <1>7, <1>8 DEF Requests

(* A request that deletes the rules: alone, it leaves its row without any. *)
LEMMA CreateDeleteRulesRequests ==
    ASSUME IInv, NEW c \in Creates, CreateDeleteRules(c)
    PROVE  Requests'
<1>1. /\ create \in [Creates -> {Idle} \cup InFlight] /\ rules \in [Rows -> SUBSET Targets]
      /\ rel' = rel /\ clean' = clean
  BY DEF CreateDeleteRules, IInv, TypeOK, InFlight
<1>2. PICK k \in Rows : On(c, k)
  BY <1>1 DEF CreateDeleteRules, InFlight, Idle, On
<1>3. /\ rules'[k] = {} /\ \A j \in Rows \ {k} : rules'[j] = rules[j]
      /\ create'[c] = [create[c] EXCEPT !.step = "insert_rule"]
      /\ create[c] \in InFlight
      /\ \A o \in Creates \ {c} : create'[o] = create[o]
  BY <1>1, <1>2 DEF CreateDeleteRules, On
<1>4. /\ create'[c].row = create[c].row /\ create'[c].target = create[c].target
      /\ create'[c] # Idle
  BY <1>3 DEF InFlight, Idle
<1>5. \A o \in Creates, j \in Rows :
         /\ On(o, j)' <=> On(o, j)
         /\ create'[o].target = create[o].target
  BY <1>2, <1>3, <1>4 DEF On
<1>6. OneCreate'
  BY <1>1, <1>5 DEF IInv, Audience, OneCreate
<1>7. ASSUME NEW j \in Rows, NEW o \in Creates, clean'[j], On(o, j)'
      PROVE  /\ rel'[j].target = create'[o].target
             /\ create'[o].step = "insert_rule" => rules'[j] = {}
  <2>1. rel'[j].target = create'[o].target
    BY <1>1, <1>5, <1>7 DEF IInv, Audience, CreateOwnsRow
  <2>2. CASE j = k
    BY <1>3, <2>1, <2>2
  <2>3. CASE j # k
    <3>1. o # c
      BY <1>2, <1>5, <1>7, <2>3 DEF On
    <3>2. create'[o] = create[o] /\ rules'[j] = rules[j]
      BY <1>3, <2>3, <3>1
    <3>3. QED BY <1>1, <1>5, <1>7, <2>1, <3>2 DEF IInv, Audience, CreateOwnsRow
  <2>4. QED BY <2>2, <2>3
<1>8. CreateOwnsRow'
  BY <1>7 DEF CreateOwnsRow
<1>9. RulesFollowTarget'
  BY <1>1, <1>2, <1>3, <1>5 DEF IInv, Audience, RulesFollowTarget
<1>10. QED BY <1>6, <1>8, <1>9 DEF Requests

(* A request that inserts its rule: alone, the rule is the only one.       *)
LEMMA CreateInsertRuleRequests ==
    ASSUME IInv, NEW c \in Creates, CreateInsertRule(c)
    PROVE  Requests'
<1>1. /\ create \in [Creates -> {Idle} \cup InFlight] /\ rules \in [Rows -> SUBSET Targets]
      /\ rel' = rel /\ clean' = clean
  BY DEF CreateInsertRule, IInv, TypeOK, InFlight
<1>2. PICK k \in Rows : On(c, k)
  BY <1>1 DEF CreateInsertRule, InFlight, Idle, On
<1>3. /\ rules'[k] = rules[k] \cup {create[c].target}
      /\ \A j \in Rows \ {k} : rules'[j] = rules[j]
      /\ create'[c] = Idle
      /\ \A o \in Creates \ {c} : create'[o] = create[o]
      /\ create[c].step = "insert_rule"
  BY <1>1, <1>2 DEF CreateInsertRule, On
<1>4. /\ \A j \in Rows : ~On(c, j)'
      /\ \A o \in Creates \ {c}, j \in Rows : On(o, j)' <=> On(o, j)
      /\ \A j \in Rows \ {k} : ~On(c, j)
  BY <1>2, <1>3 DEF On
<1>5. clean[k] => rules'[k] = {rel'[k].target}
  BY <1>1, <1>2, <1>3 DEF IInv, Audience, CreateOwnsRow
<1>6. clean[k] => \A o \in Creates : ~On(o, k)'
  BY <1>2, <1>4 DEF IInv, Audience, OneCreate
<1>7. OneCreate'
  BY <1>1, <1>4 DEF IInv, Audience, OneCreate
<1>8. CreateOwnsRow'
  BY <1>1, <1>3, <1>4, <1>6 DEF IInv, Audience, CreateOwnsRow
<1>9. RulesFollowTarget'
  BY <1>1, <1>3, <1>4, <1>5 DEF IInv, Audience, RulesFollowTarget
<1>10. QED BY <1>7, <1>8, <1>9 DEF Requests

(* A request cut short leaves a row that is no longer clean.               *)
LEMMA CreateFailsRequests ==
    ASSUME IInv, NEW c \in Creates, CreateFails(c)
    PROVE  Requests'
<1>1. /\ create \in [Creates -> {Idle} \cup InFlight] /\ clean \in [Rows -> BOOLEAN]
      /\ rel' = rel /\ rules' = rules
  BY DEF CreateFails, IInv, TypeOK, InFlight
<1>2. PICK k \in Rows : On(c, k)
  BY <1>1 DEF CreateFails, InFlight, Idle, On
<1>3. /\ ~clean'[k] /\ \A j \in Rows \ {k} : clean'[j] = clean[j]
      /\ create'[c] = Idle
      /\ \A o \in Creates \ {c} : create'[o] = create[o]
  BY <1>1, <1>2 DEF CreateFails, On
<1>4. /\ \A j \in Rows : ~On(c, j)'
      /\ \A o \in Creates \ {c}, j \in Rows : On(o, j)' <=> On(o, j)
      /\ \A j \in Rows \ {k} : ~On(c, j)
  BY <1>2, <1>3 DEF On
<1>5. OneCreate'
  BY <1>3, <1>4 DEF IInv, Audience, OneCreate
<1>6. CreateOwnsRow'
  BY <1>1, <1>3, <1>4 DEF IInv, Audience, CreateOwnsRow
<1>7. RulesFollowTarget'
  BY <1>1, <1>3, <1>4 DEF IInv, Audience, RulesFollowTarget
<1>8. QED BY <1>5, <1>6, <1>7 DEF Requests

(* A restart abandons every request, so no row it cut is clean.            *)
LEMMA RestartRequests ==
    ASSUME IInv, Restart
    PROVE  Requests'
<1>1. /\ create' = [c \in Creates |-> Idle] /\ rules' = rules
      /\ \A k \in Rows : clean'[k] => clean[k] /\ \A c \in Creates : ~On(c, k)
  BY DEF Restart, On
<1>2. \A k \in Rows : rel'[k].target = rel[k].target
  BY RestartRows, TargetKept DEF IInv
<1>3. \A c \in Creates, k \in Rows : ~On(c, k)'
  BY <1>1 DEF On
<1>4. QED
  BY <1>1, <1>2, <1>3 DEF IInv, Audience, Requests, OneCreate, CreateOwnsRow, RulesFollowTarget

(* Every step keeps the audience part of the invariant.                    *)
LEMMA AudienceStep == IInv /\ [Next]_vars => Audience'
<1> SUFFICES ASSUME IInv, [Next]_vars PROVE Requests'
  BY AbsentStep DEF Audience, Requests
<1>1. ASSUME NEW c \in Creates, CreateRelease(c)
      PROVE  Requests'
  BY <1>1, CreateUpsertRequests, CreateDeleteRulesRequests, CreateInsertRuleRequests,
     CreateFailsRequests DEF CreateRelease
<1>2. CASE Administer
  <2>1. UNCHANGED <<create, rules, clean>>
    BY <1>2 DEF Administer, ReleaseAction, UpdateReleaseRollout, AppAction
  <2>2. \A k \in Rows : rel'[k].target = rel[k].target
    <3>1. ASSUME NEW j \in Rows, NEW action \in DOMAIN StatusOf, ReleaseAction(j, action)
          PROVE  \A k \in Rows : rel'[k].target = rel[k].target
      BY <3>1, ReleaseActionRows, TargetKept DEF IInv
    <3>2. ASSUME NEW j \in Rows, NEW p \in Percentages, UpdateReleaseRollout(j, p)
          PROVE  \A k \in Rows : rel'[k].target = rel[k].target
      BY <3>2, RolloutRows, TargetKept DEF IInv
    <3>3. QED BY <1>2, <3>1, <3>2 DEF Administer, AppAction
  <2>3. QED BY <2>1, <2>2, RequestsKept
<1>3. CASE Restart
  BY <1>3, RestartRequests
<1>4. CASE EnsureApp \/ (\E d \in Devices : Check(d)) \/ Tick \/ UNCHANGED vars
  <2>1. UNCHANGED <<rel, create, rules, clean>>
    BY <1>4 DEF EnsureApp, Check, CheckFind, CheckFindFails, CheckAnswer, Tick, vars
  <2>2. QED BY <2>1, RequestsKept
<1>5. QED BY <1>1, <1>2, <1>3, <1>4 DEF Next

(* Every reachable state satisfies the inductive invariant.                *)
THEOREM Inductive == Spec => []IInv
<1>1. IInv /\ [Next]_vars => IInv'
  BY NextType, DatesStep, AudienceStep DEF IInv
<1>2. QED BY InitIInv, <1>1, PTL DEF Spec

-----------------------------------------------------------------------------
(* Publishing, rolling back or restarting keeps the date an administrator  *)
(* scheduled, so no update-check finds the release before it, but as the   *)
(* answer of last resort.                                                  *)
THEOREM ScheduleHolds == Spec => NotBeforeSchedule
<1>1. ASSUME IInv, NEW d \in Devices, NEW k \in Rows,
             CheckFind(d), check'[d].row = k, ~LastResort(k, d)
      PROVE  due[k] <= now
  <2>1. PICK j \in FindLatestRelease(d) : check'[d] = [step |-> "upsert", row |-> j]
    BY <1>1 DEF CheckFind, IInv, TypeOK
  <2>2. k \in FindLatestRelease(d)
    BY <1>1, <2>1
  <2>3. Offerable(k, d)
    BY <1>1, <2>2 DEF FindLatestRelease, LastResort
  <2>4. due[k] # Null => rel[k].publishedAt = due[k]
    BY <1>1 DEF IInv, Dates, DueKept
  <2>5. rel[k].publishedAt <= now /\ now \in Time
    BY <1>1, <2>3 DEF Offerable, IInv, TypeOK
  <2>6. QED BY <2>4, <2>5 DEF Time, Null
<1>2. IInv => [\A d \in Devices, k \in Rows :
                  CheckFind(d) /\ check'[d].row = k /\ ~LastResort(k, d) =>
                      due[k] <= now]_vars
  BY <1>1
<1>3. QED BY <1>2, Inductive, PTL DEF Spec, NotBeforeSchedule

(* A live release has a publication time, and paused_at marks the paused   *)
(* releases and never a live one, the configured row aside.                *)
THEOREM ColumnsAgreeHolds == Spec => []ColumnsAgree
<1>1. IInv => ColumnsAgree
  BY DEF IInv, Dates, ColumnsAgree
<1>2. QED BY <1>1, Inductive, PTL

(* A CreateRelease that overlapped no other one of its row and was not cut *)
(* short leaves no earlier audience behind, however many rows, requests    *)
(* and devices there are.                                                  *)
THEOREM SerialCreateIsExact == Spec => []SerialCreateTargets
<1>1. IInv => SerialCreateTargets
  <2> SUFFICES ASSUME IInv, NEW k \in Rows, clean[k], \A c \in Creates : create[c] = Idle,
                      NEW d \in Devices, Offerable(k, d)
               PROVE  Matches(rel[k].target, d)
    BY DEF SerialCreateTargets
  <2>1. rules[k] \subseteq {rel[k].target}
    BY DEF IInv, Audience, RulesFollowTarget, On
  <2>2. QED BY <2>1 DEF Offerable, Targeted
<1>2. QED BY <1>1, Inductive, PTL

(* Nothing but publish or rollback makes a withdrawn release live again,   *)
(* the configured one aside.                                               *)
THEOREM WithdrawnStays == Spec => WithdrawnStaysWithdrawn
<1>1. ASSUME TypeOK, [Next]_vars, NEW k \in Rows \ {EnvRow},
             rel[k].status \in Withdrawn, Live(k)'
      PROVE  ReleaseAction(k, "publish")
  <2>1. RowStep(k)
    BY <1>1, NextRows
  <2>2. Published(k)
    BY <1>1, <2>1 DEF RowStep, Kept, Recreated, Withdrew, Rolled, Live, IsLive, Withdrawn
  <2>3. rel'[k] # rel[k]
    BY <1>1, <2>2 DEF Published, Revived, Withdrawn
  <2>4. ASSUME NEW c \in Creates, NEW j \in Rows, NEW scheduled \in BOOLEAN,
               NEW at \in Time \cup {Null}, NEW p \in Percentages, NEW t \in Targets,
               CreateUpsert(c, j, scheduled, at, p, t)
        PROVE  FALSE
    BY <1>1, <2>2, <2>3, <2>4, CreateUpsertRows DEF Recreated, Kept, Published, Revived
  <2>5. ASSUME NEW j \in Rows, NEW p \in Percentages, UpdateReleaseRollout(j, p)
        PROVE  FALSE
    BY <1>1, <2>2, <2>3, <2>5, RolloutRows DEF Rolled, Kept, Published, Revived, Withdrawn
  <2>6. ASSUME NEW j \in Rows, NEW action \in DOMAIN StatusOf, ReleaseAction(j, action)
        PROVE  j = k /\ action = "publish"
    BY <1>1, <2>2, <2>3, <2>6, ReleaseActionRows
    DEF Withdrew, Kept, Published, Revived, Withdrawn
  <2>7. ~Restart
    BY <1>1, <2>3, RestartRows DEF Kept
  <2>8. rel' # rel
    BY <2>3
  <2>9. CASE \E c \in Creates : CreateRelease(c)
    BY <2>4, <2>8, <2>9 DEF CreateRelease, CreateDeleteRules, CreateInsertRule, CreateFails
  <2>10. CASE Administer
    BY <2>5, <2>6, <2>8, <2>10 DEF Administer, AppAction
  <2>11. ~(EnsureApp \/ (\E d \in Devices : Check(d)) \/ Tick \/ UNCHANGED vars)
    BY <2>8 DEF EnsureApp, Check, CheckFind, CheckFindFails, CheckAnswer, Tick, vars
  <2>12. QED BY <1>1, <2>7, <2>9, <2>10, <2>11 DEF Next
<1>2. TypeOK /\ [Next]_vars =>
        [\A k \in Rows \ {EnvRow} :
            rel[k].status \in Withdrawn /\ Live(k)' => ReleaseAction(k, "publish")]_vars
  BY <1>1
<1>3. QED BY <1>2, TypeCorrect, PTL DEF Spec, WithdrawnStaysWithdrawn

(* Raising the percentage takes the release away from no device.           *)
THEOREM RolloutKeeps == Spec => RolloutKeepsAudience
<1>1. ASSUME TypeOK, NEW k \in Rows, NEW p \in Percentages, NEW d \in Devices,
             UpdateReleaseRollout(k, p), rel[k].rollout <= rel'[k].rollout, Offerable(k, d)
      PROVE  Offerable(k, d)'
  <2>1. Rolled(k) /\ UNCHANGED <<now, enabled, rules>>
    BY <1>1, RolloutRows DEF UpdateReleaseRollout
  <2>2. Live(k)'
    BY <1>1, <2>1 DEF Rolled, Offerable, Live, IsLive
  <2>3. Targeted(k, d)'
    BY <1>1, <2>1 DEF Rolled, Offerable, Targeted, Matches
  <2>4. InRollout(k, d)'
    <3>1. rel[k] \in Release /\ NormalizeRollout(p) \in 1 .. 100
      BY <1>1, NormalizeRolloutRange, RequestsAssumption DEF TypeOK
    <3>2. rel'[k].rollout = NormalizeRollout(p)
      BY <1>1, <3>1 DEF TypeOK, UpdateReleaseRollout, WithRollout, Release
    <3>3. rel[k].rollout \in Int /\ rel'[k].rollout \in Int /\ Bucket[d] \in Int
      BY <3>1, <3>2, RequestsAssumption DEF Release
    <3>4. QED BY <1>1, <3>3 DEF Offerable, InRollout
  <2>5. QED BY <1>1, <2>1, <2>2, <2>3, <2>4 DEF Offerable, Rolled
<1>2. TypeOK => [\A k \in Rows, p \in Percentages :
                    UpdateReleaseRollout(k, p) /\ rel[k].rollout <= rel'[k].rollout =>
                       \A d \in Devices : Offerable(k, d) => Offerable(k, d)']_vars
  BY <1>1
<1>3. QED BY <1>2, TypeCorrect, PTL DEF Spec, RolloutKeepsAudience
=============================================================================
