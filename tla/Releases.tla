------------------------------ MODULE Releases ------------------------------
(***************************************************************************)
(* The life of the APK releases of the configured app on PostgresStore:    *)
(* administrators create, publish, pause, recall and roll out releases,    *)
(* devices poll update-check, the server restarts and writes its           *)
(* configured release again.                                               *)
(*                                                                         *)
(* A row of app_releases is identified by (app, build, channel,            *)
(* build_type).  Devices ask for the configured app only, and its rows are *)
(* the ones modelled (CI may name another app_key); the rest of the key is *)
(* modelled by Rows, and the (package, channel, build type) a device asks  *)
(* for by Lines.  Each SQL statement is one step, so the statements of     *)
(* concurrent requests interleave as they do under READ COMMITTED.         *)
(***************************************************************************)
EXTENDS Integers, FiniteSets

CONSTANTS
    Rows,        \* keys of app_releases
    NoRow,       \* no release at all
    EnvRow,      \* the row LATEST_VERSION_CODE configures, or NoRow
    Lines,       \* (package name, channel, build type)
    LineOf,      \* [Rows -> Lines]
    CodeOf,      \* [Rows -> Nat], app_builds.version_code
    NumberOf,    \* [Rows -> Nat], app_builds.build_number
    Devices,
    Asks,        \* [Devices -> Lines], what a device's requests name
    UserOf,      \* [Devices -> users], the user id it reports
    Bucket,      \* [Devices -> 0..99], mod(abs(hashtext(key)), 100)
    Creates,     \* requests of POST /admin/api/app-releases in flight at once
    Targets,     \* [type, value] pairs an administrator may ask for
    Percentages, \* rollout_percentage values an administrator may ask for
    Failures,    \* may a statement of a request fail, or its client give up?
    MaxTime      \* bound on the clock

Null == 0                       \* a timestamp column that is null
Time == 1 .. MaxTime
AllTarget == [type |-> "all", value |-> "all"]
Statuses == {"absent", "draft", "scheduled", "released", "rolling_out",
             "paused", "recalled"}
Withdrawn == {"paused", "recalled"}
Idle == [step |-> "idle"]
Steps == {"delete_rules", "insert_rule"}

(* Rows that share a line have different builds, hence different numbers   *)
(* (UNIQUE (app_id, build_number)).                                        *)
ASSUME RowsAssumption ==
    /\ LineOf \in [Rows -> Lines]
    /\ CodeOf \in [Rows -> Nat]
    /\ NumberOf \in [Rows -> Nat]
    /\ \A j, k \in Rows : j # k /\ LineOf[j] = LineOf[k] => NumberOf[j] # NumberOf[k]
    /\ NoRow \notin Rows
    /\ EnvRow \in Rows \cup {NoRow}

ASSUME RequestsAssumption ==
    /\ Asks \in [Devices -> Lines]
    /\ Bucket \in [Devices -> 0 .. 99]
    /\ AllTarget \in Targets
    /\ Percentages \subseteq Int
    /\ Failures \in BOOLEAN
    /\ MaxTime \in Nat \ {0}

VARIABLES
    now,        \* the database's clock
    enabled,    \* apps.enabled of the configured app
    rel,        \* app_releases
    rules,      \* app_release_rules: the set of rules of each row
    create,     \* progress of each CreateRelease request
    check,      \* update-check requests between their query and their answer
    answer,     \* the release last answered to each device
    due,        \* history: the schedule the latest CreateRelease of a row asked for
    clean       \* history: no other CreateRelease of the row overlapped the
                \* latest one, and it was not cut short

vars == <<now, enabled, rel, rules, create, check, answer, due, clean>>

Release == [status: Statuses, rollout: 1 .. 100, publishedAt: Time \cup {Null},
            stamped: BOOLEAN, target: Targets]
NoRelease == [status |-> "absent", rollout |-> 100, publishedAt |-> Null,
              stamped |-> FALSE, target |-> AllTarget]

TypeOK ==
    /\ now \in Time
    /\ enabled \in BOOLEAN
    /\ rel \in [Rows -> Release]
    /\ rules \in [Rows -> SUBSET Targets]
    /\ create \in [Creates -> {Idle} \cup
                              [step: Steps, row: Rows, target: Targets]]
    /\ check \in [Devices -> {Idle} \cup [step: {"upsert"}, row: Rows \cup {NoRow}]]
    /\ answer \in [Devices -> Rows \cup {NoRow}]
    /\ due \in [Rows -> Time \cup {Null}]
    /\ clean \in [Rows -> BOOLEAN]

-----------------------------------------------------------------------------
(* Broken variants of definitions below.  Nothing uses them: replacing the *)
(* definition each is named after by it makes the property in its comment  *)
(* fail, which shows that the property depends on that piece of the code.  *)

(* TypeOK: no percentage is read as 100.                                   *)
NormalizeRollout_Unchecked(p) == IF p > 100 THEN 100 ELSE p

(* SerialCreateTargets: the old rules survive a re-creation.               *)
CreateDeleteRules_Kept(c) ==
    /\ create[c].step = "delete_rules"
    /\ create' = [create EXCEPT ![c].step = "insert_rule"]
    /\ UNCHANGED <<now, enabled, rel, rules, check, answer, due, clean>>

(* NotBeforeSchedule: publishing moves the date to the present.            *)
WithStatus_Redated(r, status, publish) ==
    [r EXCEPT !.status = status,
              !.publishedAt = IF publish THEN now ELSE @,
              !.stamped = status = "paused"]

(* ColumnsAgree: publishing leaves a missing date missing.                 *)
WithStatus_Undated(r, status, publish) ==
    [r EXCEPT !.status = status, !.stamped = status = "paused"]

(* ColumnsAgree: paused_at is never cleared.                               *)
WithStatus_KeepsMark(r, status, publish) ==
    [r EXCEPT !.status = status,
              !.publishedAt = IF publish /\ @ = Null THEN now ELSE @,
              !.stamped = @ \/ status = "paused"]

(* WithdrawnStaysWithdrawn: a rollout below 100 always rolls out.          *)
WithRollout_Revives(r, p) ==
    [r EXCEPT !.rollout = p, !.status = IF p < 100 THEN "rolling_out" ELSE @]

(* RolloutKeepsAudience: the query forgets releases that are rolling out.  *)
IsLive_ReleasedOnly(status) == status = "released"

(* WithdrawalReachesDevices: the query forgets that paused is withdrawn.   *)
IsLive_Paused(status) == status \in {"released", "rolling_out", "testing", "paused"}

(* BestOfferReachesDevices: the first answer is cached for good.           *)
CheckAnswer_Cached(d) ==
    /\ check[d] # Idle
    /\ enabled' = TRUE
    /\ answer' = [answer EXCEPT ![d] = IF @ = NoRow THEN check[d].row ELSE @]
    /\ check' = [check EXCEPT ![d] = Idle]
    /\ UNCHANGED <<now, rel, rules, create, due, clean>>

-----------------------------------------------------------------------------
(* FindLatestRelease                                                       *)

IsLive(status) == status \in {"released", "rolling_out", "testing"}
Live(k) == IsLive(rel[k].status)

Matches(target, d) ==
    \/ target.type = "all"
    \/ target.type = "device_id" /\ target.value = d
    \/ target.type = "user_id" /\ target.value = UserOf[d]

(* The metadata of the row OR any of its rules admits the device.          *)
Targeted(k, d) ==
    \/ Matches(rel[k].target, d)
    \/ \E t \in rules[k] : Matches(t, d)

InRollout(k, d) == rel[k].rollout >= 100 \/ Bucket[d] < rel[k].rollout

Offerable(k, d) ==
    /\ enabled
    /\ Live(k)
    /\ LineOf[k] = Asks[d]
    /\ rel[k].publishedAt <= now       \* Null, too, is not in the future
    /\ Targeted(k, d)
    /\ InRollout(k, d)

Newer(j, k) ==
    \/ CodeOf[j] > CodeOf[k]
    \/ CodeOf[j] = CodeOf[k] /\ NumberOf[j] > NumberOf[k]

(* The best row ("order by .. limit 1"), as the set of the rows that may   *)
(* come first; with none, the configuration, whatever the device asked.    *)
FindLatestRelease(d) ==
    LET found == {k \in Rows : Offerable(k, d)}
    IN  IF found = {} THEN {EnvRow}
        ELSE {k \in found : \A j \in found : ~Newer(j, k)}

-----------------------------------------------------------------------------
(* EnsureConfiguredRelease, one transaction                                *)

Configured(r) ==
    IF r.status = "absent"
    THEN [NoRelease EXCEPT !.status = "released", !.publishedAt = now]
    ELSE [r EXCEPT !.status = "released",
                   !.publishedAt = IF @ = Null THEN now ELSE @]

(* The process dies, its requests with it, and main() starts again.        *)
Restart ==
    /\ create' = [c \in Creates |-> Idle]
    /\ check' = [d \in Devices |-> Idle]
    /\ IF EnvRow = NoRow
       THEN UNCHANGED <<enabled, rel>>
       ELSE /\ enabled' = TRUE
            /\ rel' = [rel EXCEPT ![EnvRow] = Configured(@)]
    /\ clean' = [k \in Rows |-> clean[k] /\ \A c \in Creates :
                                    create[c] # Idle => create[c].row # k]
    /\ UNCHANGED <<now, rules, answer, due>>

-----------------------------------------------------------------------------
(* CreateRelease: three statements and no transaction.  The notes, written *)
(* between the first two, reach no answer this module tells apart.         *)

NormalizeRollout(p) == IF p <= 0 \/ p > 100 THEN 100 ELSE p

(* at is the parsed ScheduledAt; Null with scheduled: it does not parse.   *)
Upserted(r, scheduled, at, p, t) ==
    [r EXCEPT !.status = IF scheduled THEN "scheduled" ELSE "draft",
              !.rollout = NormalizeRollout(p),
              !.publishedAt = at,
              !.target = t]

OtherCreates(c, k) == {o \in Creates \ {c} : create[o] # Idle /\ create[o].row = k}

CreateUpsert(c, k, scheduled, at, p, t) ==
    /\ create[c] = Idle
    /\ ~scheduled => at = Null
    /\ rel' = [rel EXCEPT ![k] = Upserted(@, scheduled, at, p, t)]
    /\ create' = [create EXCEPT ![c] = [step |-> "delete_rules", row |-> k, target |-> t]]
    /\ due' = [due EXCEPT ![k] = at]
    /\ clean' = [clean EXCEPT ![k] = OtherCreates(c, k) = {}]
    /\ UNCHANGED <<now, enabled, rules, check, answer>>

CreateDeleteRules(c) ==
    /\ create[c].step = "delete_rules"
    /\ rules' = [rules EXCEPT ![create[c].row] = {}]
    /\ create' = [create EXCEPT ![c].step = "insert_rule"]
    /\ UNCHANGED <<now, enabled, rel, check, answer, due, clean>>

CreateInsertRule(c) ==
    /\ create[c].step = "insert_rule"
    /\ rules' = [rules EXCEPT ![create[c].row] = @ \cup {create[c].target}]
    /\ create' = [create EXCEPT ![c] = Idle]
    /\ UNCHANGED <<now, enabled, rel, check, answer, due, clean>>

(* A later statement fails, or its client hangs up and the context ends.   *)
CreateFails(c) ==
    /\ Failures
    /\ create[c] # Idle
    /\ create' = [create EXCEPT ![c] = Idle]
    /\ clean' = [clean EXCEPT ![create[c].row] = FALSE]
    /\ UNCHANGED <<now, enabled, rel, rules, check, answer, due>>

-----------------------------------------------------------------------------
(* ReleaseAction, UpdateReleaseRollout, AppAction                          *)

(* publish and rollback; pause; recall and unpublish                       *)
StatusOf == [publish |-> "released", pause |-> "paused", recall |-> "recalled"]

WithStatus(r, status, publish) ==
    [r EXCEPT !.status = status,
              !.publishedAt = IF publish /\ @ = Null THEN now ELSE @,
              !.stamped = status = "paused"]

ReleaseAction(k, action) ==
    /\ rel[k].status # "absent"
    /\ rel' = [rel EXCEPT ![k] = WithStatus(@, StatusOf[action], action = "publish")]
    /\ UNCHANGED <<now, enabled, rules, create, check, answer, due, clean>>

WithRollout(r, p) ==
    [r EXCEPT !.rollout = p,
              !.status = IF @ = "released" /\ p < 100 THEN "rolling_out" ELSE @]

UpdateReleaseRollout(k, p) ==
    /\ rel[k].status # "absent"
    /\ rel' = [rel EXCEPT ![k] = WithRollout(@, NormalizeRollout(p))]
    /\ UNCHANGED <<now, enabled, rules, create, check, answer, due, clean>>

AppAction(enable) ==
    /\ enabled' = enable
    /\ UNCHANGED <<now, rel, rules, create, check, answer, due, clean>>

(* SaveHeartbeat, SaveUpdateEvent, CreateBuild and CreateResourceVersion   *)
(* all begin with ensureApp on the configured app.                         *)
EnsureApp ==
    /\ enabled' = TRUE
    /\ UNCHANGED <<now, rel, rules, create, check, answer, due, clean>>

-----------------------------------------------------------------------------
(* Service.Check: FindLatestRelease, then UpsertInstallation, then answer  *)

CheckFind(d) ==
    /\ check[d] = Idle
    /\ \E k \in FindLatestRelease(d) :
          check' = [check EXCEPT ![d] = [step |-> "upsert", row |-> k]]
    /\ UNCHANGED <<now, enabled, rel, rules, create, answer, due, clean>>

(* An error of the query leaves the configuration as the answer.           *)
CheckFindFails(d) ==
    /\ Failures
    /\ check[d] = Idle
    /\ check' = [check EXCEPT ![d] = [step |-> "upsert", row |-> EnvRow]]
    /\ UNCHANGED <<now, enabled, rel, rules, create, answer, due, clean>>

(* UpsertInstallation runs ensureApp; its error is dropped.                *)
CheckAnswer(d) ==
    /\ check[d] # Idle
    /\ enabled' \in {TRUE} \cup (IF Failures THEN {enabled} ELSE {})
    /\ answer' = [answer EXCEPT ![d] = check[d].row]
    /\ check' = [check EXCEPT ![d] = Idle]
    /\ UNCHANGED <<now, rel, rules, create, due, clean>>

Tick ==
    /\ now < MaxTime
    /\ now' = now + 1
    /\ UNCHANGED <<enabled, rel, rules, create, check, answer, due, clean>>

-----------------------------------------------------------------------------
(* The server has started once: the configured row, if any, is released.   *)
Init ==
    /\ now = 1
    /\ enabled = TRUE
    /\ rel = [k \in Rows |-> IF k = EnvRow THEN Configured(NoRelease) ELSE NoRelease]
    /\ rules = [k \in Rows |-> {}]
    /\ create = [c \in Creates |-> Idle]
    /\ check = [d \in Devices |-> Idle]
    /\ answer = [d \in Devices |-> NoRow]
    /\ due = [k \in Rows |-> Null]
    /\ clean = [k \in Rows |-> TRUE]

CreateRelease(c) ==
    \/ \E k \in Rows, scheduled \in BOOLEAN, at \in Time \cup {Null},
          p \in Percentages, t \in Targets : CreateUpsert(c, k, scheduled, at, p, t)
    \/ CreateDeleteRules(c)
    \/ CreateInsertRule(c)
    \/ CreateFails(c)

Administer ==
    \/ \E k \in Rows, action \in DOMAIN StatusOf : ReleaseAction(k, action)
    \/ \E k \in Rows, p \in Percentages : UpdateReleaseRollout(k, p)
    \/ \E enable \in BOOLEAN : AppAction(enable)

Check(d) == CheckFind(d) \/ CheckFindFails(d) \/ CheckAnswer(d)

Next ==
    \/ \E c \in Creates : CreateRelease(c)
    \/ Administer
    \/ EnsureApp
    \/ \E d \in Devices : Check(d)
    \/ Restart
    \/ Tick

Spec == Init /\ [][Next]_vars

(* A request that started runs on to its end and time passes; nobody is    *)
(* obliged to start a request, to administer or to restart.  The client    *)
(* polls update-check over and over, and of the polls it makes restarts    *)
(* of the server do not cut short every single one.                        *)
Fairness ==
    /\ \A c \in Creates : WF_vars(CreateDeleteRules(c) \/ CreateInsertRule(c))
    /\ \A d \in Devices : WF_vars(CheckFind(d)) /\ SF_vars(CheckAnswer(d))
    /\ WF_vars(Tick)

FairSpec == Spec /\ Fairness
-----------------------------------------------------------------------------
(* Safety                                                                  *)

(* The query of an update-check finds a release only from the time its     *)
(* latest CreateRelease scheduled, whatever is published, rolled back or   *)
(* restarted before that: UpdateReleaseStatus and ensureRelease keep a     *)
(* published_at that is set.  The configured release found as the answer   *)
(* of last resort, with nothing on offer, or because the query failed, is  *)
(* the exception; and what a query found is answered, also if the release  *)
(* is scheduled for later before the answer is sent.                       *)
LastResort(k, d) == k = EnvRow /\ \A j \in Rows : ~Offerable(j, d)

NotBeforeSchedule ==
    [][\A d \in Devices, k \in Rows :
          CheckFind(d) /\ check'[d].row = k /\ ~LastResort(k, d) =>
              due[k] <= now]_vars

(* A live release has a publication time, so the order by published_at of  *)
(* FindLatestRelease never meets its "nulls last".                         *)
LiveIsDated == \A k \in Rows : Live(k) => rel[k].publishedAt # Null

(* What the console shows as paused carries paused_at, and what it shows   *)
(* as live does not, re-creations of a paused release included; only the   *)
(* restart of the server leaves the mark on the row it revives.            *)
PauseMark ==
    \A k \in Rows : /\ rel[k].status = "paused" => rel[k].stamped
                    /\ Live(k) /\ k # EnvRow => ~rel[k].stamped

(* status, published_at and paused_at agree, whatever sequence of          *)
(* creations, actions, rollouts and restarts wrote them, each some of them *)
(* and none with a precondition on the others.                             *)
ColumnsAgree == LiveIsDated /\ PauseMark

(* A CreateRelease that no other one of the row overlapped, and that ran   *)
(* to its end, has replaced every earlier audience of the row.             *)
SerialCreateTargets ==
    \A k \in Rows :
        clean[k] /\ (\A c \in Creates : create[c] = Idle) =>
            \A d \in Devices : Offerable(k, d) => Matches(rel[k].target, d)

(* Only publish or rollback brings a paused or recalled release back, the  *)
(* configured one aside: re-creating it, its rollout and requests that     *)
(* were under way when it was withdrawn do not.                            *)
WithdrawnStaysWithdrawn ==
    [][\A k \in Rows \ {EnvRow} :
          rel[k].status \in Withdrawn /\ Live(k)' => ReleaseAction(k, "publish")]_vars

(* Raising the rollout percentage withdraws the release from no device     *)
(* that had it: the hash bucket is stable and the status stays live.       *)
RolloutKeepsAudience ==
    [][\A k \in Rows, p \in Percentages :
          UpdateReleaseRollout(k, p) /\ rel[k].rollout <= rel'[k].rollout =>
              \A d \in Devices : Offerable(k, d) => Offerable(k, d)']_vars

-----------------------------------------------------------------------------
(* Liveness, under FairSpec                                                *)

(* A release that stays withdrawn disappears from the answers of devices   *)
(* that go on polling, in spite of answers already under way.  The         *)
(* configured release is the exception: it is the answer of last resort.   *)
WithdrawalReachesDevices ==
    \A k \in Rows \ {EnvRow}, d \in Devices :
        <>[](rel[k].status \in Withdrawn) => <>[](answer[d] # k)

(* The release that stays the best offer for a device becomes its answer.  *)
BestOfferReachesDevices ==
    \A k \in Rows, d \in Devices :
        <>[](FindLatestRelease(d) = {k}) => <>[](answer[d] = k)

-----------------------------------------------------------------------------
(* A statement of the documents that the code does not keep                *)

(* A disabled app stays disabled until an administrator enables it.        *)
DisabledStaysDisabled == [][~enabled /\ enabled' => AppAction(TRUE)]_vars
=============================================================================
