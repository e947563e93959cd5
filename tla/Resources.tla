----------------------------- MODULE Resources -----------------------------
(***************************************************************************)
(* The incremental resource versions of the configured app on              *)
(* PostgresStore: administrators create, publish, pause, recall and roll   *)
(* them out, devices poll resource-check and report activation failures,   *)
(* which pause the version they name, and reading the admin overview may   *)
(* pause a resource because of the failures it counts.                     *)
(*                                                                         *)
(* A row of app_resource_versions is identified by (app, version,          *)
(* channel).  Each SQL statement or transaction is one step.  apps.enabled *)
(* is modelled in Releases and is true here; every event is an activation  *)
(* failure, so the failure rate is 100 and only their number counts.       *)
(***************************************************************************)
EXTENDS Integers, FiniteSets

CONSTANTS
    Rows,        \* keys of app_resource_versions
    NoRow,       \* no row
    Versions,    \* resource_version values
    NoVersion,   \* the blank toVersion of an event
    VersionOf,   \* [Rows -> Versions]
    Devices,
    Admits,      \* [Rows -> SUBSET Devices]: those that follow its channel
    Ranges,      \* app version ranges an administrator may ask for, each as
                 \* the set of the devices whose app version it admits
    Bucket,      \* [Devices -> 0..99], mod(abs(hashtext(key)), 100)
    Percentages, \* rollout_percentage values an administrator may ask for
    Reports,     \* POST update-event requests in flight at once
    Overviews,   \* GET /admin/api/app-releases requests in flight at once
    Threshold,   \* QualityPolicy.ResourceActivationFailedCount
    AutoPause,   \* Config.QualityAutoPauseResource
    Webhook,     \* is Config.QualityAlertWebhookURL set?
    Failures,    \* may a statement or a call fail, or a client give up?
    MaxContents, \* bound on the package sets uploaded for one row
    MaxEvents    \* bound on the events recorded (the overview reads 100)

Idle == [step |-> "idle"]
Nothing == [row |-> NoRow, content |-> 0, packages |-> 0]
Statuses == {"absent", "draft", "released", "rolling_out", "paused", "recalled"}
OverviewSteps == {"events", "notify", "send", "note", "automate", "pause", "execute"}

ASSUME RowsAssumption ==
    /\ IsFiniteSet(Rows)
    /\ NoRow \notin Rows
    /\ VersionOf \in [Rows -> Versions]
    /\ NoVersion \notin Versions
    /\ Admits \in [Rows -> SUBSET Devices]

ASSUME RequestsAssumption ==
    /\ Bucket \in [Devices -> 0 .. 99]
    /\ Ranges \subseteq SUBSET Devices
    /\ Percentages \subseteq Int
    /\ IsFiniteSet(Overviews)
    /\ Threshold \in Nat \ {0}
    /\ AutoPause \in BOOLEAN
    /\ Webhook \in BOOLEAN
    /\ Failures \in BOOLEAN
    /\ MaxContents \in Nat \ {0}
    /\ MaxEvents \in Nat

VARIABLES
    res,        \* app_resource_versions, and which package set each row has
    events,     \* the number of activation failures recorded
    report,     \* update-event requests after their event was inserted
    overview,   \* overview requests after their snapshot of the resources
    check,      \* resource-check requests between their two queries
    answer,     \* the last answer to each device
    audited,    \* rows with a resource.auto_pause audit
    notified,   \* a quality_alert.notified audit exists
    executed,   \* a quality_alert.auto_execute audit exists
    stopped,    \* history: rows an activation failure has paused
    runs        \* history: how often the automation paused something,
                \* counted to one more than there are overviews

vars == <<res, events, report, overview, check, answer, audited, notified,
          executed, stopped, runs>>

(* published is the rank of published_at among the rows, 0 for null;       *)
(* content tells the package sets uploaded for the row apart.              *)
Resource == [status: Statuses, range: SUBSET Devices, rollout: 1 .. 100,
             published: Nat, content: Nat]

TypeOK ==
    /\ res \in [Rows -> Resource]
    /\ events \in 0 .. MaxEvents
    /\ report \in [Reports -> {Idle} \cup [step: {"pause"}, version: Versions]
                                     \cup [step: {"audit"}, row: Rows]]
    /\ overview \in [Overviews -> {Idle} \cup [step: OverviewSteps, target: Rows \cup {NoRow}]]
    /\ check \in [Devices -> {Idle} \cup [step: {"packages"}, row: Rows, content: Nat]]
    /\ answer \in [Devices -> [row: Rows \cup {NoRow}, content: Nat, packages: Nat]]
    /\ audited \subseteq Rows
    /\ notified \in BOOLEAN
    /\ executed \in BOOLEAN
    /\ stopped \subseteq Rows
    /\ runs \in Nat

-----------------------------------------------------------------------------
(* Broken variants of definitions below.  Nothing uses them: replacing the *)
(* definition each is named after by it makes the property in its comment  *)
(* fail, which shows that the property depends on that piece of the code.  *)

(* TypeOK: an update that matched no row is audited like the others.       *)
ReportPause_NoRows(r) ==
    /\ report[r].step = "pause"
    /\ LET hit == {k \in Rows : VersionOf[k] = report[r].version /\
                                res[k].status \in {"released", "rolling_out", "testing"}}
       IN  /\ res' = [k \in Rows |-> IF k \in hit THEN [res[k] EXCEPT !.status = "paused"]
                                     ELSE res[k]]
           /\ stopped' = stopped \cup hit
           /\ \E k \in IF hit = {} THEN {NoRow} ELSE hit :
                 report' = [report EXCEPT ![r] = [step |-> "audit", row |-> k]]
    /\ UNCHANGED <<events, overview, check, answer, audited, notified, executed, runs>>

(* AuditTruthful: the id is looked up by version, apart from the update.   *)
ReportPause_AnyRow(r) ==
    /\ report[r].step = "pause"
    /\ LET named == {k \in Rows : VersionOf[k] = report[r].version}
           hit == {k \in named : res[k].status \in {"released", "rolling_out", "testing"}}
       IN  /\ res' = [k \in Rows |-> IF k \in hit THEN [res[k] EXCEPT !.status = "paused"]
                                     ELSE res[k]]
           /\ stopped' = stopped \cup hit
           /\ \/ hit = {} /\ report' = [report EXCEPT ![r] = Idle]
              \/ \E k \in named : report' = [report EXCEPT ![r] = [step |-> "audit", row |-> k]]
    /\ UNCHANGED <<events, overview, check, answer, audited, notified, executed, runs>>

(* OnlyPublishGoesLive: a rollout below 100 always rolls out.              *)
WithRollout_Revives(r, p) ==
    [r EXCEPT !.rollout = p, !.status = IF p < 100 THEN "rolling_out" ELSE @]

(* ReportStops: the update pauses released rows only.                      *)
Stoppable_ReleasedOnly(v) ==
    {k \in Rows : VersionOf[k] = v /\ res[k].status = "released"}

(* AutomationBounded: the automation does not look for its own audit.      *)
OverviewAutomate_Unchecked(o) ==
    /\ overview[o].step = "automate"
    /\ overview' = [overview EXCEPT ![o] =
                        IF AutoPause /\ @.target # NoRow
                        THEN [@ EXCEPT !.step = "pause"] ELSE Idle]
    /\ UNCHANGED <<res, events, report, check, answer, audited, notified,
                   executed, stopped, runs>>

(* ImplementsCatalogue: the query has no order.                            *)
LastPublished_Any(found) == found

(* StoppedLeavesDevices: the query does not filter by status.              *)
Offerable_AnyStatus(k, d) ==
    /\ res[k].published # 0
    /\ d \in Admits[k] \cap res[k].range
    /\ res[k].rollout >= 100 \/ Bucket[d] < res[k].rollout

(* PackagesNotOlder: packages are cached under the row they belong to.     *)
CheckPackages_CachedByRow(d) ==
    /\ check[d].step = "packages"
    /\ answer' = [answer EXCEPT ![d] =
                      [row |-> check[d].row,
                       content |-> check[d].content,
                       packages |-> IF @.row = check[d].row THEN @.packages
                                    ELSE res[check[d].row].content]]
    /\ check' = [check EXCEPT ![d] = Idle]
    /\ UNCHANGED <<res, events, report, overview, audited, notified, executed,
                   stopped, runs>>

-----------------------------------------------------------------------------
(* FindLatestResource and the rows it reads                                *)

IsLive(status) == status \in {"released", "rolling_out", "testing"}
Live(k) == IsLive(res[k].status)

Offerable(k, d) ==
    /\ Live(k)
    /\ d \in Admits[k] \cap res[k].range
    /\ res[k].rollout >= 100 \/ Bucket[d] < res[k].rollout

(* "order by published_at desc nulls last .. limit 1".  A live row has a   *)
(* published_at, and no two are equal, so created_at decides nothing.      *)
LastPublished(found) ==
    {k \in found : \A j \in found : res[j].published <= res[k].published}

FindLatestResource(d) == LastPublished({k \in Rows : Offerable(k, d)})

-----------------------------------------------------------------------------
(* Administration                                                          *)

NormalizeRollout(p) == IF p <= 0 \/ p > 100 THEN 100 ELSE p

(* One transaction: the row becomes a draft with the new packages and      *)
(* range, and keeps its published_at.                                      *)
CreateResourceVersion(k, range, p) ==
    /\ res[k].content < MaxContents
    /\ res' = [res EXCEPT ![k].status = "draft",
                          ![k].range = range,
                          ![k].rollout = NormalizeRollout(p),
                          ![k].content = @ + 1]
    /\ UNCHANGED <<events, report, overview, check, answer, audited, notified,
                   executed, stopped, runs>>

NextRank == 1 + Cardinality({k \in Rows : res[k].published # 0})

WithStatus(r, status, publish) ==
    [r EXCEPT !.status = status,
              !.published = IF publish /\ @ = 0 THEN NextRank ELSE @]

(* publish and rollback; pause; recall and unpublish                       *)
StatusOf == [publish |-> "released", pause |-> "paused", recall |-> "recalled"]

ResourceAction(k, action) ==
    /\ res[k].status # "absent"
    /\ res' = [res EXCEPT ![k] = WithStatus(@, StatusOf[action], action = "publish")]
    /\ UNCHANGED <<events, report, overview, check, answer, audited, notified,
                   executed, stopped, runs>>

WithRollout(r, p) ==
    [r EXCEPT !.rollout = p,
              !.status = IF @ = "released" /\ p < 100 THEN "rolling_out" ELSE @]

UpdateResourceRollout(k, p) ==
    /\ res[k].status # "absent"
    /\ res' = [res EXCEPT ![k] = WithRollout(@, NormalizeRollout(p))]
    /\ UNCHANGED <<events, report, overview, check, answer, audited, notified,
                   executed, stopped, runs>>

-----------------------------------------------------------------------------
(* SaveUpdateEvent of an activation failure: the event, the installation   *)
(* (not modelled here), the pause and its audit, without a transaction.    *)

ReportEvent(r, v) ==
    /\ report[r] = Idle
    /\ events < MaxEvents
    /\ events' = events + 1
    /\ report' = [report EXCEPT ![r] = IF v = NoVersion THEN Idle
                                       ELSE [step |-> "pause", version |-> v]]
    /\ UNCHANGED <<res, overview, check, answer, audited, notified, executed,
                   stopped, runs>>

Stoppable(v) == {k \in Rows : VersionOf[k] = v /\ Live(k)}

(* The update pauses every row it matches; QueryRow reads one of the ids.  *)
ReportPause(r) ==
    /\ report[r].step = "pause"
    /\ LET hit == Stoppable(report[r].version)
       IN  /\ res' = [k \in Rows |-> IF k \in hit THEN [res[k] EXCEPT !.status = "paused"]
                                     ELSE res[k]]
           /\ stopped' = stopped \cup hit
           /\ \/ hit = {} /\ report' = [report EXCEPT ![r] = Idle]
              \/ \E k \in hit : report' = [report EXCEPT ![r] = [step |-> "audit", row |-> k]]
    /\ UNCHANGED <<events, overview, check, answer, audited, notified, executed, runs>>

ReportAudit(r) ==
    /\ report[r].step = "audit"
    /\ audited' = audited \cup {report[r].row}
    /\ report' = [report EXCEPT ![r] = Idle]
    /\ UNCHANGED <<res, events, overview, check, answer, notified, executed, stopped, runs>>

ReportFails(r) ==
    /\ Failures
    /\ report[r] # Idle
    /\ report' = [report EXCEPT ![r] = Idle]
    /\ UNCHANGED <<res, events, overview, check, answer, audited, notified,
                   executed, stopped, runs>>

-----------------------------------------------------------------------------
(* Service.AdminOverview: the store's lists, one query after another, then *)
(* processQualityAlerts on that snapshot.                                  *)

(* qualityResourceAutomationTarget: the live row that was published last,  *)
(* whichever version the failures named.                                   *)
AutomationTarget ==
    IF \E k \in Rows : Live(k) THEN LastPublished({k \in Rows : Live(k)}) ELSE {NoRow}

OverviewList(o) ==
    /\ overview[o] = Idle
    /\ \E k \in AutomationTarget :
          overview' = [overview EXCEPT ![o] = [step |-> "events", target |-> k]]
    /\ UNCHANGED <<res, events, report, check, answer, audited, notified,
                   executed, stopped, runs>>

(* recommendedQualityAction: pause_resource, or observe and no alert.      *)
OverviewEvents(o) ==
    /\ overview[o].step = "events"
    /\ overview' = [overview EXCEPT ![o] =
                        IF events >= Threshold
                        THEN [@ EXCEPT !.step = IF Webhook THEN "notify" ELSE "automate"]
                        ELSE Idle]
    /\ UNCHANGED <<res, events, report, check, answer, audited, notified,
                   executed, stopped, runs>>

(* auditExists: an error of the query reads as "no audit".  An error of    *)
(* InsertAudit is dropped.                                                 *)
Known(audit) == IF Failures THEN {audit, FALSE} ELSE {audit}
Written(audit) == IF Failures THEN {audit, TRUE} ELSE {TRUE}

OverviewNotify(o) ==
    /\ overview[o].step = "notify"
    /\ \E sent \in Known(notified) :
          overview' = [overview EXCEPT ![o].step = IF sent THEN "automate" ELSE "send"]
    /\ UNCHANGED <<res, events, report, check, answer, audited, notified,
                   executed, stopped, runs>>

(* A webhook that fails or times out leaves an audit nothing looks for.    *)
OverviewSend(o) ==
    /\ overview[o].step = "send"
    /\ \E step \in {"note"} \cup (IF Failures THEN {"automate"} ELSE {}) :
          overview' = [overview EXCEPT ![o].step = step]
    /\ UNCHANGED <<res, events, report, check, answer, audited, notified,
                   executed, stopped, runs>>

OverviewNote(o) ==
    /\ overview[o].step = "note"
    /\ notified' \in Written(notified)
    /\ overview' = [overview EXCEPT ![o].step = "automate"]
    /\ UNCHANGED <<res, events, report, check, answer, audited, executed, stopped, runs>>

OverviewAutomate(o) ==
    /\ overview[o].step = "automate"
    /\ \E done \in Known(executed) :
          overview' = [overview EXCEPT ![o] =
                           IF AutoPause /\ @.target # NoRow /\ ~done
                           THEN [@ EXCEPT !.step = "pause"] ELSE Idle]
    /\ UNCHANGED <<res, events, report, check, answer, audited, notified,
                   executed, stopped, runs>>

(* UpdateResourceStatus(target, "paused", false), whatever it has become.  *)
OverviewPause(o) ==
    /\ overview[o].step = "pause"
    /\ res' = [res EXCEPT ![overview[o].target] = WithStatus(@, "paused", FALSE)]
    /\ runs' = IF runs <= Cardinality(Overviews) THEN runs + 1 ELSE runs
    /\ overview' = [overview EXCEPT ![o].step = "execute"]
    /\ UNCHANGED <<events, report, check, answer, audited, notified, executed, stopped>>

OverviewExecute(o) ==
    /\ overview[o].step = "execute"
    /\ executed' \in Written(executed)
    /\ overview' = [overview EXCEPT ![o] = Idle]
    /\ UNCHANGED <<res, events, report, check, answer, audited, notified, stopped, runs>>

OverviewFails(o) ==
    /\ Failures
    /\ overview[o] # Idle
    /\ overview' = [overview EXCEPT ![o] = Idle]
    /\ UNCHANGED <<res, events, report, check, answer, audited, notified,
                   executed, stopped, runs>>

-----------------------------------------------------------------------------
(* Service.ResourceCheck: the row, then its packages, in two queries.      *)

CheckFind(d) ==
    /\ check[d] = Idle
    /\ \E k \in FindLatestResource(d) :
          check' = [check EXCEPT ![d] = [step |-> "packages", row |-> k,
                                         content |-> res[k].content]]
    /\ UNCHANGED <<res, events, report, overview, answer, audited, notified,
                   executed, stopped, runs>>

CheckNothing(d) ==
    /\ check[d] = Idle
    /\ FindLatestResource(d) = {}
    /\ answer' = [answer EXCEPT ![d] = Nothing]
    /\ UNCHANGED <<res, events, report, overview, check, audited, notified,
                   executed, stopped, runs>>

CheckPackages(d) ==
    /\ check[d].step = "packages"
    /\ answer' = [answer EXCEPT ![d] = [row |-> check[d].row,
                                        content |-> check[d].content,
                                        packages |-> res[check[d].row].content]]
    /\ check' = [check EXCEPT ![d] = Idle]
    /\ UNCHANGED <<res, events, report, overview, audited, notified, executed,
                   stopped, runs>>

(* An error of either query is answered as "no update".                    *)
CheckFails(d) ==
    /\ Failures
    /\ answer' = [answer EXCEPT ![d] = Nothing]
    /\ check' = [check EXCEPT ![d] = Idle]
    /\ UNCHANGED <<res, events, report, overview, audited, notified, executed,
                   stopped, runs>>

-----------------------------------------------------------------------------
Init ==
    /\ res = [k \in Rows |-> [status |-> "absent", range |-> Devices, rollout |-> 100,
                              published |-> 0, content |-> 0]]
    /\ events = 0
    /\ report = [r \in Reports |-> Idle]
    /\ overview = [o \in Overviews |-> Idle]
    /\ check = [d \in Devices |-> Idle]
    /\ answer = [d \in Devices |-> Nothing]
    /\ audited = {}
    /\ notified = FALSE
    /\ executed = FALSE
    /\ stopped = {}
    /\ runs = 0

Administer ==
    \/ \E k \in Rows, range \in Ranges, p \in Percentages : CreateResourceVersion(k, range, p)
    \/ \E k \in Rows, action \in DOMAIN StatusOf : ResourceAction(k, action)
    \/ \E k \in Rows, p \in Percentages : UpdateResourceRollout(k, p)

Proceed(r) == ReportPause(r) \/ ReportAudit(r)

SaveUpdateEvent(r) ==
    \/ \E v \in Versions \cup {NoVersion} : ReportEvent(r, v)
    \/ Proceed(r)
    \/ ReportFails(r)

AdminOverview(o) ==
    \/ OverviewList(o)
    \/ OverviewEvents(o)
    \/ OverviewNotify(o)
    \/ OverviewSend(o)
    \/ OverviewNote(o)
    \/ OverviewAutomate(o)
    \/ OverviewPause(o)
    \/ OverviewExecute(o)
    \/ OverviewFails(o)

ResourceCheck(d) == CheckFind(d) \/ CheckNothing(d) \/ CheckPackages(d) \/ CheckFails(d)

Next ==
    \/ Administer
    \/ \E r \in Reports : SaveUpdateEvent(r)
    \/ \E o \in Overviews : AdminOverview(o)
    \/ \E d \in Devices : ResourceCheck(d)

Spec == Init /\ [][Next]_vars

(* A report that started runs on, and devices go on polling; nobody has to *)
(* administer or to open the overview.                                     *)
Fairness ==
    /\ \A r \in Reports : WF_vars(Proceed(r))
    /\ \A d \in Devices : WF_vars(ResourceCheck(d))

FairSpec == Spec /\ Fairness

-----------------------------------------------------------------------------
(* Safety                                                                  *)

(* Only publish or rollback makes a resource live: no rollout change,      *)
(* re-creation, failure report or automation that is still under way.      *)
OnlyPublishGoesLive ==
    [][\A k \in Rows : ~Live(k) /\ Live(k)' => ResourceAction(k, "publish")]_vars

(* A resource.auto_pause audit names a resource that the report of a       *)
(* failure has taken out of circulation, although the audit is a statement *)
(* of its own and the row may have been published again meanwhile.         *)
AuditTruthful == audited \subseteq stopped

(* Overviews read at the same time repeat the automatic pause once each at *)
(* most: the first audit written ends it for good.                         *)
AutomationBounded == runs <= Cardinality(Overviews)

(* An offered version comes with the packages it was registered with or    *)
(* with later ones, never with those a new registration of it replaced,    *)
(* although row and packages are read in two queries and the row's id      *)
(* survives the registration.                                              *)
PackagesNotOlder == \A d \in Devices : answer[d].content <= answer[d].packages

-----------------------------------------------------------------------------
(* Refinement of Catalogue: the steps of reports, overviews and checks     *)
(* show as nothing or as one step of it, and a check has found its         *)
(* resource with its first query, whatever happens before it is answered.  *)

Stage(status) ==
    CASE status \in {"absent", "draft"} -> status
      [] IsLive(status) -> "live"
      [] OTHER -> "withdrawn"

Reach(k) ==
    {d \in Admits[k] \cap res[k].range : res[k].rollout >= 100 \/ Bucket[d] < res[k].rollout}
Found(d) == IF check[d] = Idle THEN answer[d].row ELSE check[d].row

Promise == INSTANCE Catalogue WITH
    Entries <- Rows,
    NoEntry <- NoRow,
    stage <- [k \in Rows |-> Stage(res[k].status)],
    reach <- [k \in Rows |-> Reach(k)],
    rank <- [k \in Rows |-> res[k].published],
    found <- [d \in Devices |-> Found(d)]

(* A device is given the resource published last of those in circulation   *)
(* that reach it, and only publishing brings one into circulation, while   *)
(* reports, the automation and administrators change the rows beside it.   *)
ImplementsCatalogue == Promise!Spec

-----------------------------------------------------------------------------
(* Liveness, under FairSpec                                                *)

(* A failure report that is accepted takes the version it names out of     *)
(* circulation on every channel.                                           *)
ReportStops ==
    \A r \in Reports, v \in Versions :
        report[r] = [step |-> "pause", version |-> v] ~>
            \A k \in Rows : VersionOf[k] = v => ~Live(k)

(* A resource that stays out of circulation disappears from the answers of *)
(* devices that go on polling, checks under way included.                  *)
StoppedLeavesDevices ==
    \A k \in Rows, d \in Devices : <>[](~Live(k)) => <>[](answer[d].row # k)
=============================================================================
