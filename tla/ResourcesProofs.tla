-------------------------- MODULE ResourcesProofs --------------------------
(***************************************************************************)
(* Proofs about Resources for every set of rows, versions, devices and     *)
(* requests, every threshold and whatever may fail: its invariants, and    *)
(* that it implements Catalogue.                                           *)
(***************************************************************************)
EXTENDS Resources, FiniteSetTheorems, TLAPS

ReportStates == {Idle} \cup [step : {"pause"}, version : Versions]
                       \cup [step : {"audit"}, row : Rows]
OverviewStates == {Idle} \cup [step : OverviewSteps, target : Rows \cup {NoRow}]
CheckStates == {Idle} \cup [step : {"packages"}, row : Rows, content : Nat]
Answers == [row : Rows \cup {NoRow}, content : Nat, packages : Nat]

(* What one step may do to the table: write some rows of it.               *)
Others == <<events, report, overview, check, answer, audited, notified,
            executed, stopped, runs>>

(* The rows that have been published.                                      *)
Published == {k \in Rows : res[k].published # 0}

-----------------------------------------------------------------------------
(* Type correctness                                                        *)

(* A percentage asked for is stored within 1..100.                         *)
LEMMA NormalizeRolloutRange ==
    ASSUME NEW p \in Int
    PROVE  NormalizeRollout(p) \in 1 .. 100
BY DEF NormalizeRollout

(* The next rank of publication is a positive number.                      *)
LEMMA NextRankType == NextRank \in Nat \ {0}
<1>1. IsFiniteSet({k \in Rows : res[k].published # 0})
  BY RowsAssumption, FS_Subset
<1>2. Cardinality({k \in Rows : res[k].published # 0}) \in Nat
  BY <1>1, FS_CardinalityType
<1>3. QED BY <1>2 DEF NextRank

(* A status change writes a row of the type.                               *)
LEMMA WithStatusType ==
    ASSUME NEW r \in Resource, NEW status \in Statuses, NEW publish \in BOOLEAN
    PROVE  WithStatus(r, status, publish) \in Resource
<1>1. (IF publish /\ r.published = 0 THEN NextRank ELSE r.published) \in Nat
  BY NextRankType DEF Resource
<1>2. QED BY <1>1 DEF WithStatus, Resource

(* So does a rollout.                                                      *)
LEMMA WithRolloutType ==
    ASSUME NEW r \in Resource, NEW p \in 1 .. 100
    PROVE  WithRollout(r, p) \in Resource
<1>1. (IF r.status = "released" /\ p < 100 THEN "rolling_out" ELSE r.status) \in Statuses
  BY DEF Resource, Statuses
<1>2. QED BY <1>1 DEF WithRollout, Resource

(* The empty tables are well typed.                                        *)
LEMMA InitType == Init => TypeOK
<1> SUFFICES ASSUME Init PROVE TypeOK
  OBVIOUS
<1>1. res \in [Rows -> Resource]
  BY DEF Init, Resource, Statuses
<1>2. answer \in [Devices -> Answers]
  BY DEF Init, Nothing, Answers
<1>3. 0 \in 0 .. MaxEvents
  BY RequestsAssumption
<1>4. QED BY <1>1, <1>2, <1>3 DEF Init, TypeOK, Answers

(* Administration keeps the types.                                         *)
LEMMA AdministerType ==
    ASSUME TypeOK, Administer
    PROVE  TypeOK'
<1>1. ASSUME NEW k \in Rows, NEW range \in Ranges, NEW p \in Percentages,
             CreateResourceVersion(k, range, p)
      PROVE  res' \in [Rows -> Resource] /\ UNCHANGED Others
  <2>1. NormalizeRollout(p) \in 1 .. 100
    BY NormalizeRolloutRange, RequestsAssumption
  <2>2. res' = [res EXCEPT ![k] = [res[k] EXCEPT !.status = "draft", !.range = range,
                    !.rollout = NormalizeRollout(p), !.content = res[k].content + 1]]
    BY <1>1 DEF CreateResourceVersion, TypeOK, Resource
  <2>3. res[k] \in Resource /\ res[k].content + 1 \in Nat /\ "draft" \in Statuses
    BY DEF TypeOK, Resource, Statuses
  <2>4. [res[k] EXCEPT !.status = "draft", !.range = range, !.rollout = NormalizeRollout(p),
             !.content = res[k].content + 1] \in Resource
    BY <2>1, <2>3, RequestsAssumption DEF Resource
  <2>5. QED BY <1>1, <2>2, <2>4 DEF CreateResourceVersion, TypeOK, Others
<1>2. ASSUME NEW k \in Rows, NEW action \in DOMAIN StatusOf, ResourceAction(k, action)
      PROVE  res' \in [Rows -> Resource] /\ UNCHANGED Others
  <2>1. StatusOf[action] \in Statuses /\ (action = "publish") \in BOOLEAN
    BY DEF StatusOf, Statuses
  <2>2. WithStatus(res[k], StatusOf[action], action = "publish") \in Resource
    BY <2>1, WithStatusType DEF TypeOK
  <2>3. QED BY <1>2, <2>2 DEF ResourceAction, TypeOK, Others
<1>3. ASSUME NEW k \in Rows, NEW p \in Percentages, UpdateResourceRollout(k, p)
      PROVE  res' \in [Rows -> Resource] /\ UNCHANGED Others
  <2>1. NormalizeRollout(p) \in 1 .. 100
    BY NormalizeRolloutRange, RequestsAssumption
  <2>2. WithRollout(res[k], NormalizeRollout(p)) \in Resource
    BY <2>1, WithRolloutType DEF TypeOK
  <2>3. QED BY <1>3, <2>2 DEF UpdateResourceRollout, TypeOK, Others
<1>4. res' \in [Rows -> Resource] /\ UNCHANGED Others
  BY <1>1, <1>2, <1>3 DEF Administer
<1>5. QED BY <1>4 DEF TypeOK, Others

(* A failure report keeps the types.                                       *)
LEMMA ReportType ==
    ASSUME TypeOK, NEW r \in Reports, SaveUpdateEvent(r)
    PROVE  TypeOK'
<1> USE DEF TypeOK
<1>1. ASSUME NEW v \in Versions \cup {NoVersion}, ReportEvent(r, v)
      PROVE  TypeOK'
  <2>1. report' \in [Reports -> ReportStates]
    BY <1>1 DEF ReportEvent, ReportStates
  <2>2. events' \in 0 .. MaxEvents
    BY <1>1, RequestsAssumption DEF ReportEvent
  <2>3. QED BY <1>1, <2>1, <2>2 DEF ReportEvent, ReportStates
<1>2. ASSUME ReportPause(r)
      PROVE  TypeOK'
  <2>1. \A k \in Rows : [res[k] EXCEPT !.status = "paused"] \in Resource
    BY DEF Resource, Statuses
  <2>2. res' \in [Rows -> Resource]
    BY <1>2, <2>1 DEF ReportPause
  <2>3. Stoppable(report[r].version) \subseteq Rows
    BY DEF Stoppable
  <2>4. report' \in [Reports -> ReportStates]
    BY <1>2, <2>3 DEF ReportPause, ReportStates
  <2>5. stopped' \subseteq Rows
    BY <1>2, <2>3 DEF ReportPause
  <2>6. QED BY <1>2, <2>2, <2>4, <2>5 DEF ReportPause, ReportStates
<1>3. ASSUME ReportAudit(r)
      PROVE  TypeOK'
  <2>1. report[r] \in [step : {"audit"}, row : Rows]
    BY <1>3 DEF ReportAudit, Idle
  <2>2. QED BY <1>3, <2>1 DEF ReportAudit
<1>4. ASSUME ReportFails(r)
      PROVE  TypeOK'
  BY <1>4 DEF ReportFails
<1>5. QED BY <1>1, <1>2, <1>3, <1>4 DEF SaveUpdateEvent, Proceed

(* What a check finds is a row.                                            *)
LEMMA FindLatestResourceRange ==
    ASSUME NEW d \in Devices
    PROVE  FindLatestResource(d) \subseteq Rows
BY DEF FindLatestResource, LastPublished

(* A resource-check keeps the types.                                       *)
LEMMA CheckType ==
    ASSUME TypeOK, NEW d \in Devices, ResourceCheck(d)
    PROVE  TypeOK'
<1> USE DEF TypeOK
<1>1. Nothing \in Answers
  BY DEF Nothing, Answers
<1>2. CASE CheckFind(d)
  <2>1. check' \in [Devices -> CheckStates]
    BY <1>2, FindLatestResourceRange DEF CheckFind, CheckStates, Resource
  <2>2. QED BY <1>2, <2>1 DEF CheckFind, CheckStates
<1>3. CASE CheckNothing(d)
  BY <1>1, <1>3 DEF CheckNothing, Answers
<1>4. CASE CheckPackages(d)
  <2>1. check[d] \in [step : {"packages"}, row : Rows, content : Nat]
    BY <1>4 DEF CheckPackages, Idle
  <2>2. answer' \in [Devices -> Answers]
    BY <1>4, <2>1 DEF CheckPackages, Answers, Resource
  <2>3. QED BY <1>4, <2>2 DEF CheckPackages, Answers
<1>5. CASE CheckFails(d)
  BY <1>1, <1>5 DEF CheckFails, Answers
<1>6. QED BY <1>2, <1>3, <1>4, <1>5 DEF ResourceCheck

(* The target of the automation is a row, or none.                         *)
LEMMA AutomationTargetRange == AutomationTarget \subseteq Rows \cup {NoRow}
BY DEF AutomationTarget, LastPublished

(* An overview under way is past its snapshot.                             *)
LEMMA OverviewUnderWay ==
    ASSUME TypeOK, NEW o \in Overviews, overview[o].step \in OverviewSteps
    PROVE  overview[o] \in [step : OverviewSteps, target : Rows \cup {NoRow}]
BY DEF TypeOK, Idle, OverviewSteps

(* Every step of an overview keeps the types.                              *)
LEMMA OverviewType ==
    ASSUME TypeOK, NEW o \in Overviews, AdminOverview(o)
    PROVE  TypeOK'
<1> DEFINE UnderWay == [step : OverviewSteps, target : Rows \cup {NoRow}]
<1> USE DEF TypeOK, OverviewStates
<1>1. \A s \in OverviewSteps : overview[o].step = s => overview[o] \in UnderWay
  BY OverviewUnderWay
<1>2. ASSUME NEW new \in OverviewStates, overview' = [overview EXCEPT ![o] = new]
      PROVE  overview' \in [Overviews -> OverviewStates]
  BY <1>2
<1>3. CASE OverviewList(o)
  BY <1>3, AutomationTargetRange DEF OverviewList, OverviewSteps
<1>4. CASE OverviewEvents(o)
  <2>1. overview[o] \in UnderWay
    BY <1>1, <1>4 DEF OverviewEvents, OverviewSteps
  <2>2. QED BY <1>4, <2>1 DEF OverviewEvents, OverviewSteps
<1>5. CASE OverviewNotify(o)
  <2>1. overview[o] \in UnderWay
    BY <1>1, <1>5 DEF OverviewNotify, OverviewSteps
  <2>2. QED BY <1>5, <2>1 DEF OverviewNotify, OverviewSteps
<1>6. CASE OverviewSend(o)
  <2>1. overview[o] \in UnderWay
    BY <1>1, <1>6 DEF OverviewSend, OverviewSteps
  <2>2. QED BY <1>6, <2>1 DEF OverviewSend, OverviewSteps
<1>7. CASE OverviewNote(o)
  <2>1. overview[o] \in UnderWay
    BY <1>1, <1>7 DEF OverviewNote, OverviewSteps
  <2>2. notified' \in BOOLEAN
    BY <1>7 DEF OverviewNote, Written
  <2>3. QED BY <1>7, <2>1, <2>2 DEF OverviewNote, OverviewSteps
<1>8. CASE OverviewAutomate(o)
  <2>1. overview[o] \in UnderWay
    BY <1>1, <1>8 DEF OverviewAutomate, OverviewSteps
  <2>2. QED BY <1>8, <2>1 DEF OverviewAutomate, OverviewSteps
<1>9. CASE OverviewPause(o)
  <2>1. overview[o] \in UnderWay
    BY <1>1, <1>9 DEF OverviewPause, OverviewSteps
  <2>2. "paused" \in Statuses
    BY DEF Statuses
  <2>3. \A k \in Rows : WithStatus(res[k], "paused", FALSE) \in Resource
    BY <2>2, WithStatusType
  <2>4. res' \in [Rows -> Resource]
    BY <1>9, <2>3 DEF OverviewPause
  <2>5. runs' \in Nat
    BY <1>9 DEF OverviewPause
  <2>6. QED BY <1>9, <2>1, <2>4, <2>5 DEF OverviewPause, OverviewSteps
<1>10. CASE OverviewExecute(o)
  <2>1. executed' \in BOOLEAN
    BY <1>10 DEF OverviewExecute, Written
  <2>2. QED BY <1>10, <2>1 DEF OverviewExecute
<1>11. CASE OverviewFails(o)
  BY <1>11 DEF OverviewFails
<1>12. QED
  BY <1>3, <1>4, <1>5, <1>6, <1>7, <1>8, <1>9, <1>10, <1>11 DEF AdminOverview

(* The type invariant: every table and request keeps its shape.            *)
THEOREM TypeOKHolds == Spec => []TypeOK
<1>1. TypeOK /\ [Next]_vars => TypeOK'
  <2>1. TypeOK /\ UNCHANGED vars => TypeOK'
    BY DEF TypeOK, vars
  <2>2. TypeOK /\ Next => TypeOK'
    BY AdministerType, ReportType, OverviewType, CheckType DEF Next
  <2>3. QED BY <2>1, <2>2
<1>2. QED BY InitType, <1>1, PTL DEF Spec

-----------------------------------------------------------------------------
(* Whatever a step does beside publishing, it brings no row into           *)
(* circulation: pauses, drafts and rollouts are all it writes.             *)
LEMMA QuietStatuses ==
    ASSUME TypeOK, [Next]_vars, NEW k \in Rows, ~Live(k), Live(k)'
    PROVE  ResourceAction(k, "publish")
<1> USE DEF Live, IsLive
<1>1. res[k] \in Resource
  BY DEF TypeOK
<1>2. CASE Administer
  <2>1. ASSUME NEW j \in Rows, NEW range \in Ranges, NEW p \in Percentages,
               CreateResourceVersion(j, range, p)
        PROVE  FALSE
    BY <2>1 DEF CreateResourceVersion, TypeOK, Resource
  <2>2. ASSUME NEW j \in Rows, NEW action \in DOMAIN StatusOf, ResourceAction(j, action)
        PROVE  j = k /\ action = "publish"
    BY <2>2 DEF ResourceAction, WithStatus, StatusOf, TypeOK, Resource
  <2>3. ASSUME NEW j \in Rows, NEW p \in Percentages, UpdateResourceRollout(j, p)
        PROVE  FALSE
    BY <2>3 DEF UpdateResourceRollout, WithRollout, TypeOK, Resource
  <2>4. QED BY <1>2, <2>1, <2>2, <2>3 DEF Administer
<1>3. ASSUME NEW r \in Reports, SaveUpdateEvent(r)
      PROVE  FALSE
  <2>1. CASE ReportPause(r)
    BY <1>1, <2>1 DEF ReportPause, Resource
  <2>2. CASE ~ReportPause(r)
    BY <1>3, <2>2 DEF SaveUpdateEvent, Proceed, ReportEvent, ReportAudit, ReportFails
  <2>3. QED BY <2>1, <2>2
<1>4. ASSUME NEW o \in Overviews, AdminOverview(o)
      PROVE  FALSE
  <2>1. CASE OverviewPause(o)
    BY <1>1, <2>1 DEF OverviewPause, WithStatus, TypeOK, Resource
  <2>2. CASE ~OverviewPause(o)
    BY <1>4, <2>2 DEF AdminOverview, OverviewList, OverviewEvents, OverviewNotify,
       OverviewSend, OverviewNote, OverviewAutomate, OverviewExecute, OverviewFails
  <2>3. QED BY <2>1, <2>2
<1>5. ASSUME NEW d \in Devices, ResourceCheck(d)
      PROVE  FALSE
  BY <1>5 DEF ResourceCheck, CheckFind, CheckNothing, CheckPackages, CheckFails
<1>6. CASE UNCHANGED vars
  BY <1>6 DEF vars
<1>7. QED BY <1>2, <1>3, <1>4, <1>5, <1>6 DEF Next

(* OnlyPublishGoesLive: stale automation targets, reports, rollouts and    *)
(* re-creations never put a resource back into circulation.                *)
THEOREM OnlyPublishGoesLiveHolds == Spec => OnlyPublishGoesLive
<1>1. TypeOK /\ [Next]_vars =>
          [\A k \in Rows : ~Live(k) /\ Live(k)' => ResourceAction(k, "publish")]_vars
  BY QuietStatuses
<1>2. QED BY TypeOKHolds, <1>1, PTL DEF Spec, OnlyPublishGoesLive

-----------------------------------------------------------------------------
(* AuditTruthful: the row a report is about to audit is one it paused, and *)
(* no step forgets which rows reports have paused.                         *)
AuditInv ==
    /\ AuditTruthful
    /\ \A r \in Reports : report[r].step = "audit" => report[r].row \in stopped

LEMMA AuditInvNext == TypeOK /\ AuditInv /\ [Next]_vars => AuditInv'
<1> SUFFICES ASSUME TypeOK, AuditInv, [Next]_vars
             PROVE  AuditInv'
  OBVIOUS
<1>1. CASE UNCHANGED <<audited, stopped, report>>
  BY <1>1 DEF AuditInv, AuditTruthful
<1>2. ASSUME NEW r \in Reports, ReportEvent(r, NoVersion) \/ ReportFails(r)
                                \/ \E v \in Versions : ReportEvent(r, v)
      PROVE  AuditInv'
  BY <1>2 DEF AuditInv, AuditTruthful, ReportEvent, ReportFails, Idle, TypeOK
<1>3. ASSUME NEW r \in Reports, ReportPause(r)
      PROVE  AuditInv'
  <2>1. stopped' = stopped \cup Stoppable(report[r].version) /\ UNCHANGED audited
    BY <1>3 DEF ReportPause
  <2>2. \A q \in Reports : report'[q].step = "audit" => report'[q].row \in stopped'
    BY <1>3, <2>1 DEF ReportPause, AuditInv, Idle, TypeOK
  <2>3. QED BY <2>1, <2>2 DEF AuditInv, AuditTruthful
<1>4. ASSUME NEW r \in Reports, ReportAudit(r)
      PROVE  AuditInv'
  BY <1>4 DEF AuditInv, AuditTruthful, ReportAudit, Idle, TypeOK
<1>5. ASSUME NEW r \in Reports, SaveUpdateEvent(r)
      PROVE  AuditInv'
  BY <1>2, <1>3, <1>4, <1>5 DEF SaveUpdateEvent, Proceed
<1>6. CASE Administer
  BY <1>1, <1>6 DEF Administer, CreateResourceVersion, ResourceAction, UpdateResourceRollout
<1>7. ASSUME NEW o \in Overviews, AdminOverview(o)
      PROVE  AuditInv'
  BY <1>1, <1>7 DEF AdminOverview, OverviewList, OverviewEvents, OverviewNotify,
     OverviewSend, OverviewNote, OverviewAutomate, OverviewPause, OverviewExecute,
     OverviewFails
<1>8. ASSUME NEW d \in Devices, ResourceCheck(d)
      PROVE  AuditInv'
  BY <1>1, <1>8 DEF ResourceCheck, CheckFind, CheckNothing, CheckPackages, CheckFails
<1>9. QED BY <1>1, <1>5, <1>6, <1>7, <1>8 DEF Next, vars

(* Every audit of an automatic pause names a resource that a report        *)
(* paused, with any number of reports and administrators beside it.        *)
THEOREM AuditTruthfulHolds == Spec => []AuditTruthful
<1>1. Init => AuditInv
  BY DEF Init, AuditInv, AuditTruthful, Idle
<1>2. AuditInv => AuditTruthful
  BY DEF AuditInv
<1>3. QED BY <1>1, <1>2, AuditInvNext, TypeOKHolds, PTL DEF Spec

-----------------------------------------------------------------------------
(* PackagesNotOlder: between the two queries of a check the row's packages *)
(* can only be replaced by later ones.                                     *)
PackagesInv ==
    /\ PackagesNotOlder
    /\ \A d \in Devices : check[d].step = "packages" =>
           check[d].content <= res[check[d].row].content

Grown(k) == /\ res[k].content <= res'[k].content
            /\ res[k].status # "absent" => res'[k].status # "absent"

(* No step takes a row back to earlier packages, or out of the table.      *)
LEMMA RowsGrow ==
    ASSUME TypeOK, [Next]_vars, NEW k \in Rows
    PROVE  Grown(k)
<1>1. res[k] \in Resource
  BY DEF TypeOK
<1>2. CASE UNCHANGED res
  BY <1>1, <1>2 DEF Resource, Grown
<1>3. CASE Administer
  <2>1. res \in [Rows -> Resource]
    BY DEF TypeOK
  <2>2. ASSUME NEW j \in Rows, NEW range \in Ranges, NEW p \in Percentages,
               CreateResourceVersion(j, range, p)
        PROVE  Grown(k)
    BY <1>1, <2>1, <2>2 DEF CreateResourceVersion, Resource, Grown
  <2>3. ASSUME NEW j \in Rows, NEW action \in DOMAIN StatusOf, ResourceAction(j, action)
        PROVE  Grown(k)
    BY <1>1, <2>1, <2>3 DEF ResourceAction, WithStatus, StatusOf, Resource, Grown
  <2>4. ASSUME NEW j \in Rows, NEW p \in Percentages, UpdateResourceRollout(j, p)
        PROVE  Grown(k)
    BY <1>1, <2>1, <2>4 DEF UpdateResourceRollout, WithRollout, Resource, Grown
  <2>5. QED BY <1>3, <2>2, <2>3, <2>4 DEF Administer
<1>4. ASSUME NEW r \in Reports, SaveUpdateEvent(r)
      PROVE  UNCHANGED res \/ Grown(k)
  <2>1. CASE ReportPause(r)
    BY <1>1, <2>1 DEF ReportPause, Resource, Grown
  <2>2. CASE ~ReportPause(r)
    BY <1>4, <2>2 DEF SaveUpdateEvent, Proceed, ReportEvent, ReportAudit, ReportFails
  <2>3. QED BY <2>1, <2>2
<1>5. ASSUME NEW o \in Overviews, AdminOverview(o)
      PROVE  UNCHANGED res \/ Grown(k)
  <2>1. CASE OverviewPause(o)
    BY <1>1, <2>1 DEF OverviewPause, WithStatus, TypeOK, Resource, Grown
  <2>2. CASE ~OverviewPause(o)
    BY <1>5, <2>2 DEF AdminOverview, OverviewList, OverviewEvents, OverviewNotify,
       OverviewSend, OverviewNote, OverviewAutomate, OverviewExecute, OverviewFails
  <2>3. QED BY <2>1, <2>2
<1>6. ASSUME NEW d \in Devices, ResourceCheck(d)
      PROVE  UNCHANGED res
  BY <1>6 DEF ResourceCheck, CheckFind, CheckNothing, CheckPackages, CheckFails
<1>7. QED BY <1>2, <1>3, <1>4, <1>5, <1>6 DEF Next, vars

(* Administrators, reports and overviews leave checks and answers alone.   *)
LEMMA ChecksApart ==
    ASSUME Administer \/ (\E r \in Reports : SaveUpdateEvent(r))
                      \/ (\E o \in Overviews : AdminOverview(o))
    PROVE  UNCHANGED <<check, answer>>
<1>1. CASE Administer
  BY <1>1 DEF Administer, CreateResourceVersion, ResourceAction, UpdateResourceRollout
<1>2. ASSUME NEW r \in Reports, SaveUpdateEvent(r)
      PROVE  UNCHANGED <<check, answer>>
  BY <1>2 DEF SaveUpdateEvent, Proceed, ReportEvent, ReportPause, ReportAudit, ReportFails
<1>3. ASSUME NEW o \in Overviews, AdminOverview(o)
      PROVE  UNCHANGED <<check, answer>>
  BY <1>3 DEF AdminOverview, OverviewList, OverviewEvents, OverviewNotify, OverviewSend,
     OverviewNote, OverviewAutomate, OverviewPause, OverviewExecute, OverviewFails
<1>4. QED BY <1>1, <1>2, <1>3

(* PackagesInv is inductive.                                               *)
LEMMA PackagesInvNext ==
    ASSUME TypeOK, PackagesInv, [Next]_vars
    PROVE  PackagesInv'
<1> USE DEF PackagesInv, PackagesNotOlder
<1>1. \A d \in Devices : check[d].step = "packages" => check[d].row \in Rows
                                                    /\ check[d].content \in Nat
  BY DEF TypeOK, Idle
<1>2. \A k \in Rows : /\ res[k].content \in Nat
                      /\ res'[k].content \in Nat
                      /\ res[k].content <= res'[k].content
  <2>1. TypeOK'
    BY AdministerType, ReportType, OverviewType, CheckType DEF Next, TypeOK, vars
  <2>2. QED BY <2>1, RowsGrow DEF TypeOK, Resource, Grown
<1>3. CASE UNCHANGED <<check, answer>>
  BY <1>1, <1>2, <1>3
<1>4. ASSUME NEW d \in Devices, ResourceCheck(d)
      PROVE  PackagesInv'
  <2>1. res' = res
    BY <1>4 DEF ResourceCheck, CheckFind, CheckNothing, CheckPackages, CheckFails
  <2>2. CASE CheckFind(d)
    BY <2>1, <2>2, <1>1, <1>2, FindLatestResourceRange DEF CheckFind, TypeOK
  <2>3. CASE CheckNothing(d)
    BY <2>1, <2>3 DEF CheckNothing, TypeOK, Nothing
  <2>4. CASE CheckPackages(d)
    BY <2>1, <2>4 DEF CheckPackages, TypeOK, Idle
  <2>5. CASE CheckFails(d)
    BY <2>1, <2>5 DEF CheckFails, TypeOK, Nothing, Idle
  <2>6. QED BY <1>4, <2>2, <2>3, <2>4, <2>5 DEF ResourceCheck
<1>5. QED BY <1>3, <1>4, ChecksApart DEF Next, vars

(* An answer never pairs a version with packages a later registration of   *)
(* it had replaced, although they are read in two queries.                 *)
THEOREM PackagesNotOlderHolds == Spec => []PackagesNotOlder
<1>1. Init => PackagesInv
  BY DEF Init, PackagesInv, PackagesNotOlder, Nothing, Idle
<1>2. TypeOK /\ PackagesInv /\ [Next]_vars => PackagesInv'
  BY PackagesInvNext
<1>3. PackagesInv => PackagesNotOlder
  BY DEF PackagesInv
<1>4. QED BY TypeOKHolds, <1>1, <1>2, <1>3, PTL DEF Spec

-----------------------------------------------------------------------------
(* AutomationBounded, where audits are read and written without error.     *)
(* What bounds the pauses is that an overview that looked before the audit *)
(* was there still counts: it is about to pause, or has paused and not yet *)
(* written its audit, and cannot be both.                                  *)
At(step) == {o \in Overviews : overview[o].step = step}

AutomationInv ==
    /\ runs + Cardinality(At("pause")) <= Cardinality(Overviews)
    /\ ~executed => runs <= Cardinality(At("execute"))

(* The overviews at a step are finitely many.                              *)
LEMMA AtFinite ==
    ASSUME NEW step
    PROVE  IsFiniteSet(At(step)) /\ Cardinality(At(step)) \in Nat
<1>1. IsFiniteSet(At(step))
  BY RequestsAssumption, FS_Subset DEF At
<1>2. QED BY <1>1, FS_CardinalityType

(* One overview moves, the others stay where they are.                     *)
LEMMA AtMoved ==
    ASSUME TypeOK, NEW o \in Overviews, NEW new,
           overview' = [overview EXCEPT ![o] = new]
    PROVE  /\ At("pause")' = IF new.step = "pause" THEN At("pause") \cup {o}
                             ELSE At("pause") \ {o}
           /\ At("execute")' = IF new.step = "execute" THEN At("execute") \cup {o}
                               ELSE At("execute") \ {o}
<1>1. overview'[o] = new /\ \A q \in Overviews \ {o} : overview'[q] = overview[q]
  BY DEF TypeOK
<1>2. QED BY <1>1 DEF At

(* What does not involve the steps of the automation keeps the invariant.  *)
LEMMA AutomationApart ==
    ASSUME AutomationInv, UNCHANGED <<runs, executed>>,
           At("pause")' = At("pause"), At("execute")' = At("execute")
    PROVE  AutomationInv'
BY DEF AutomationInv

(* The look at the audit: one more is about to pause, and none of those    *)
(* that have paused is.                                                    *)
LEMMA AutomateKeeps ==
    ASSUME TypeOK, ~Failures, AutomationInv, NEW o \in Overviews, OverviewAutomate(o)
    PROVE  AutomationInv'
<1> DEFINE P == At("pause")
           E == At("execute")
           new == IF AutoPause /\ overview[o].target # NoRow /\ ~executed
                  THEN [overview[o] EXCEPT !.step = "pause"] ELSE Idle
<1>1. overview' = [overview EXCEPT ![o] = new] /\ UNCHANGED <<runs, executed>>
  BY DEF OverviewAutomate, Known
<1>2. o \notin P /\ P \ {o} = P /\ E \ {o} = E
  BY DEF At, OverviewAutomate
<1>3. (new.step = "pause" /\ ~executed) \/ new.step = "idle"
  <2>1. overview[o] \in [step : OverviewSteps, target : Rows \cup {NoRow}]
    BY OverviewUnderWay DEF OverviewAutomate, OverviewSteps
  <2>2. QED BY <2>1 DEF Idle
<1> HIDE DEF new
<1>4. CASE new.step = "idle"
  <2>1. P' = P \ {o} /\ E' = E \ {o}
    BY <1>1, <1>4, AtMoved
  <2>2. QED BY <1>1, <1>2, <2>1, AutomationApart
<1>5. CASE new.step = "pause" /\ ~executed
  <2>1. P' = P \cup {o} /\ E' = E \ {o}
    BY <1>1, <1>5, AtMoved
  <2>2. IsFiniteSet(P) /\ IsFiniteSet(E) /\ Cardinality(P) \in Nat /\ Cardinality(E) \in Nat
    BY AtFinite
  <2>3. IsFiniteSet(P \cup {o}) /\ Cardinality(P \cup {o}) = Cardinality(P) + 1
    BY <1>2, <2>2, FS_AddElement
  <2>4. Cardinality((P \cup {o}) \cup E) = Cardinality(P) + 1 + Cardinality(E)
    <3>1. (P \cup {o}) \cap E = {}
      BY <1>2 DEF At
    <3>2. Cardinality((P \cup {o}) \cap E) = 0
      BY <3>1, FS_EmptySet
    <3>3. Cardinality((P \cup {o}) \cup E)
              = Cardinality(P \cup {o}) + Cardinality(E) - Cardinality((P \cup {o}) \cap E)
      BY <2>2, <2>3, FS_Union
    <3>4. QED BY <2>2, <2>3, <3>2, <3>3
  <2>5. Cardinality((P \cup {o}) \cup E) <= Cardinality(Overviews)
    <3>1. (P \cup {o}) \cup E \subseteq Overviews
      BY DEF At
    <3>2. QED BY <3>1, RequestsAssumption, FS_Subset
  <2>6. runs <= Cardinality(E) /\ runs \in Nat /\ Cardinality(Overviews) \in Nat
    BY <1>5, RequestsAssumption, FS_CardinalityType DEF AutomationInv, TypeOK
  <2>7. runs + Cardinality(P') <= Cardinality(Overviews)
    BY <2>1, <2>2, <2>3, <2>4, <2>5, <2>6
  <2>8. QED BY <1>1, <1>2, <2>1, <2>6, <2>7 DEF AutomationInv
<1>6. QED BY <1>3, <1>4, <1>5

(* The pause: who was about to pause is who has yet to write its audit.    *)
LEMMA PauseKeeps ==
    ASSUME TypeOK, AutomationInv, NEW o \in Overviews, OverviewPause(o)
    PROVE  AutomationInv'
<1> DEFINE P == At("pause")
           E == At("execute")
           new == [overview[o] EXCEPT !.step = "execute"]
<1>1. overview' = [overview EXCEPT ![o] = new] /\ executed' = executed
  BY DEF OverviewPause
<1>2. o \in P /\ o \notin E
  BY DEF At, OverviewPause
<1>3. new.step = "execute"
  <2>1. overview[o] \in [step : OverviewSteps, target : Rows \cup {NoRow}]
    BY OverviewUnderWay DEF OverviewPause, OverviewSteps
  <2>2. QED BY <2>1
<1> HIDE DEF new
<1>4. P' = P \ {o} /\ E' = E \cup {o}
  BY <1>1, <1>3, AtMoved
<1>5. IsFiniteSet(P) /\ IsFiniteSet(E) /\ Cardinality(P) \in Nat /\ Cardinality(E) \in Nat
  BY AtFinite
<1>6. /\ Cardinality(P \ {o}) = Cardinality(P) - 1
      /\ Cardinality(P \ {o}) \in Nat
      /\ Cardinality(E \cup {o}) = Cardinality(E) + 1
  BY <1>2, <1>5, FS_AddElement, FS_RemoveElement, FS_CardinalityType
<1>7. runs \in Nat /\ Cardinality(Overviews) \in Nat
      /\ runs + Cardinality(P) <= Cardinality(Overviews)
  BY RequestsAssumption, FS_CardinalityType DEF AutomationInv, TypeOK
<1>8. runs' = runs + 1
  BY <1>5, <1>6, <1>7 DEF OverviewPause
<1>9. Cardinality(P') = Cardinality(P) - 1 /\ Cardinality(E') = Cardinality(E) + 1
  BY <1>4, <1>6
<1>10. ~executed => runs <= Cardinality(E)
  BY DEF AutomationInv
<1>11. ~executed' => runs' <= Cardinality(E')
  BY <1>1, <1>5, <1>7, <1>8, <1>9, <1>10
<1>12. runs' + Cardinality(P') <= Cardinality(Overviews)
  BY <1>5, <1>7, <1>8, <1>9
<1>13. QED BY <1>11, <1>12 DEF AutomationInv

(* AutomationInv is inductive: the audit, once written, is read by all     *)
(* that look later, and before that the steps of an overview are one of    *)
(* those above.                                                            *)
LEMMA AutomationInvNext ==
    ASSUME TypeOK, ~Failures, AutomationInv, [Next]_vars
    PROVE  AutomationInv'
<1>1. CASE UNCHANGED <<overview, runs, executed>>
  BY <1>1, AutomationApart DEF At
<1>2. CASE Administer
  BY <1>1, <1>2 DEF Administer, CreateResourceVersion, ResourceAction, UpdateResourceRollout
<1>3. ASSUME NEW r \in Reports, SaveUpdateEvent(r)
      PROVE  AutomationInv'
  BY <1>1, <1>3 DEF SaveUpdateEvent, Proceed, ReportEvent, ReportPause, ReportAudit,
     ReportFails
<1>4. ASSUME NEW d \in Devices, ResourceCheck(d)
      PROVE  AutomationInv'
  BY <1>1, <1>4 DEF ResourceCheck, CheckFind, CheckNothing, CheckPackages, CheckFails
<1>5. ASSUME NEW o \in Overviews, NEW new, overview' = [overview EXCEPT ![o] = new],
             new.step \notin {"pause", "execute"},
             overview[o].step \notin {"pause", "execute"},
             UNCHANGED <<runs, executed>>
      PROVE  AutomationInv'
  <2>1. At("pause") \ {o} = At("pause") /\ At("execute") \ {o} = At("execute")
    BY <1>5 DEF At
  <2>2. At("pause")' = At("pause") \ {o} /\ At("execute")' = At("execute") \ {o}
    BY <1>5, AtMoved
  <2>3. QED BY <1>5, <2>1, <2>2, AutomationApart
<1>6. ASSUME NEW o \in Overviews, AdminOverview(o)
      PROVE  AutomationInv'
  <2>1. overview[o].step \in OverviewSteps =>
            \A step : [overview[o] EXCEPT !.step = step].step = step
    BY OverviewUnderWay
  <2>2. CASE OverviewList(o)
    <3>1. PICK k : overview' = [overview EXCEPT ![o] = [step |-> "events", target |-> k]]
      BY <2>2 DEF OverviewList
    <3> DEFINE new == [step |-> "events", target |-> k]
    <3>2. new.step = "events" /\ overview[o].step = "idle" /\ UNCHANGED <<runs, executed>>
      BY <2>2 DEF OverviewList, Idle
    <3> HIDE DEF new
    <3>3. overview' = [overview EXCEPT ![o] = new]
      BY <3>1 DEF new
    <3>4. QED BY <1>5, <3>2, <3>3
  <2>3. CASE OverviewEvents(o)
    <3> DEFINE new == IF events >= Threshold
                      THEN [overview[o] EXCEPT !.step = IF Webhook THEN "notify" ELSE "automate"]
                      ELSE Idle
    <3>1. new.step \in {"notify", "automate", "idle"}
      BY <2>1, <2>3 DEF OverviewEvents, OverviewSteps, Idle
    <3>2. overview' = [overview EXCEPT ![o] = new]
      BY <2>3 DEF OverviewEvents
    <3> HIDE DEF new
    <3>3. QED BY <1>5, <2>3, <3>1, <3>2 DEF OverviewEvents
  <2>4. ASSUME NEW step \in {"automate", "send", "note"}, UNCHANGED <<runs, executed>>,
               overview[o].step \in {"notify", "send", "note"},
               overview' = [overview EXCEPT ![o].step = step]
        PROVE  AutomationInv'
    <3>1. [overview[o] EXCEPT !.step = step].step = step
      BY <2>1, <2>4 DEF OverviewSteps
    <3>2. QED BY <1>5, <2>4, <3>1
  <2>5. CASE OverviewNotify(o)
    BY <2>4, <2>5 DEF OverviewNotify
  <2>6. CASE OverviewSend(o)
    BY <2>4, <2>6 DEF OverviewSend
  <2>7. CASE OverviewNote(o)
    BY <2>4, <2>7 DEF OverviewNote
  <2>8. CASE OverviewExecute(o)
    <3>1. executed' = TRUE /\ runs' = runs /\ overview' = [overview EXCEPT ![o] = Idle]
      BY <2>8 DEF OverviewExecute, Written
    <3>2. At("pause")' = At("pause")
      <4>1. At("pause") \ {o} = At("pause")
        BY <2>8 DEF At, OverviewExecute
      <4>2. Idle.step = "idle"
        BY DEF Idle
      <4>3. At("pause")' = At("pause") \ {o}
        BY <3>1, <4>2, AtMoved
      <4>4. QED BY <4>1, <4>3
    <3>3. QED BY <3>1, <3>2 DEF AutomationInv
  <2>9. CASE OverviewFails(o)
    BY <2>9 DEF OverviewFails
  <2>10. QED
    BY <1>6, <2>2, <2>3, <2>5, <2>6, <2>7, <2>8, <2>9, AutomateKeeps, PauseKeeps
       DEF AdminOverview
<1>7. QED BY <1>1, <1>2, <1>3, <1>4, <1>6 DEF Next, vars

(* Overviews read at the same time pause a resource once each at most, any *)
(* number of them (processQualityAlertAutomation looks for its audit, then *)
(* pauses, then writes it), if no statement of them fails: an error of the *)
(* look or of the write is dropped, and another overview pauses again.     *)
THEOREM AutomationBoundedHolds == ~Failures => (Spec => []AutomationBounded)
<1>1. SUFFICES ASSUME ~Failures PROVE Spec => []AutomationBounded
  OBVIOUS
<1>2. Init => AutomationInv
  <2>1. SUFFICES ASSUME Init PROVE AutomationInv
    OBVIOUS
  <2>2. At("pause") = {} /\ At("execute") = {}
    BY <2>1 DEF Init, At, Idle
  <2>3. Cardinality(Overviews) \in Nat
    BY RequestsAssumption, FS_CardinalityType
  <2>4. QED BY <2>1, <2>2, <2>3, FS_EmptySet DEF Init, AutomationInv
<1>3. TypeOK /\ AutomationInv /\ [Next]_vars => AutomationInv'
  BY <1>1, AutomationInvNext
<1>4. TypeOK /\ AutomationInv => AutomationBounded
  BY AtFinite, RequestsAssumption, FS_CardinalityType
     DEF AutomationInv, AutomationBounded, TypeOK
<1>5. QED BY TypeOKHolds, <1>2, <1>3, <1>4, PTL DEF Spec

-----------------------------------------------------------------------------
(* Resources implements Catalogue.  Of the order of publication the proof  *)
(* needs that no rank is beyond the number of rows published: then the     *)
(* next rank is new, and the last.                                         *)
RanksInv == \A k \in Rows : res[k].published <= Cardinality(Published)

(* What is said of ranks depends on nothing but the ranks.                 *)
LEMMA RanksUnchanged ==
    ASSUME RanksInv, \A k \in Rows : res'[k].published = res[k].published
    PROVE  RanksInv'
<1>1. Published' = Published
  BY DEF Published
<1>2. QED BY <1>1 DEF RanksInv

(* A first publication adds one row, and its rank is the new number.       *)
LEMMA FirstPublication ==
    ASSUME TypeOK, RanksInv, NEW k \in Rows, res[k].published = 0,
           res'[k].published = NextRank,
           \A j \in Rows \ {k} : res'[j].published = res[j].published
    PROVE  RanksInv' /\ \A j \in Rows : res[j].published < res'[k].published
<1>1. IsFiniteSet(Published) /\ k \notin Published
  BY RowsAssumption, FS_Subset DEF Published
<1>2. Cardinality(Published) \in Nat
  BY <1>1, FS_CardinalityType
<1>3. NextRank = 1 + Cardinality(Published)
  BY DEF NextRank, Published
<1>4. Published' = Published \cup {k}
  BY <1>2, <1>3 DEF Published
<1>5. Cardinality(Published') = Cardinality(Published) + 1
  BY <1>1, <1>4, FS_AddElement
<1>6. \A j \in Rows : res[j].published \in Nat
  BY DEF TypeOK, Resource
<1>7. QED BY <1>2, <1>3, <1>5, <1>6 DEF RanksInv

(* The stages of the statuses.                                             *)
LEMMA Stages ==
    /\ Stage("absent") = "absent"
    /\ Stage("draft") = "draft"
    /\ Stage("released") = "live"
    /\ Stage("rolling_out") = "live"
    /\ Stage("paused") = "withdrawn"
    /\ Stage("recalled") = "withdrawn"
    /\ \A status \in Statuses : (Stage(status) = "live") <=> IsLive(status)
    /\ \A status \in Statuses : (Stage(status) = "absent") <=> (status = "absent")
BY DEF Stage, IsLive, Statuses

(* The rows of the abstract store change as the table does.                *)
LEMMA RowRefinement ==
    ASSUME TypeOK, UNCHANGED <<check, answer>>
    PROVE  /\ UNCHANGED [d \in Devices |-> Found(d)]
           /\ UNCHANGED res => UNCHANGED Promise!vars
<1>1. \A d \in Devices : Found(d)' = Found(d)
  BY DEF Found
<1>2. UNCHANGED [d \in Devices |-> Found(d)]
  BY <1>1
<1>3. ASSUME UNCHANGED res
      PROVE  \A k \in Rows : Reach(k)' = Reach(k)
  BY <1>3 DEF Reach
<1>4. QED BY <1>2, <1>3 DEF Promise!vars

(* CreateResourceVersion is Create.                                        *)
LEMMA CreateRefines ==
    ASSUME TypeOK, RanksInv, NEW k \in Rows, NEW range \in Ranges, NEW p \in Percentages,
           CreateResourceVersion(k, range, p)
    PROVE  Promise!Create(k) /\ RanksInv'
<1>1. res \in [Rows -> Resource]
  BY DEF TypeOK
<1>2. /\ \A j \in Rows \ {k} : res'[j] = res[j]
      /\ res'[k].status = "draft"
      /\ res'[k].published = res[k].published
  BY <1>1 DEF CreateResourceVersion, Resource
<1>3. \A j \in Rows : res'[j].published = res[j].published
  BY <1>2
<1>4. RanksInv'
  BY <1>3, RanksUnchanged
<1>5. \A j \in Rows : Reach(j)' \in SUBSET Devices
  BY RowsAssumption DEF Reach
<1>6. \A j \in Rows \ {k} : Reach(j)' = Reach(j)
  BY <1>2 DEF Reach
<1>7. \A j \in Rows : Stage(res'[j].status) = IF j = k THEN "draft" ELSE Stage(res[j].status)
  BY <1>2, Stages
<1>8. UNCHANGED [d \in Devices |-> Found(d)]
  BY RowRefinement DEF CreateResourceVersion
<1>9. QED BY <1>3, <1>4, <1>5, <1>6, <1>7, <1>8 DEF Promise!Create, Promise!ChangedAt

(* Publishing is Publish; pausing and recalling withdraw one row.          *)
LEMMA ActionRefines ==
    ASSUME TypeOK, RanksInv, NEW k \in Rows, NEW action \in DOMAIN StatusOf,
           ResourceAction(k, action)
    PROVE  (Promise!Publish(k) \/ Promise!Withdraw({k})) /\ RanksInv'
<1>1. res \in [Rows -> Resource] /\ res[k] \in Resource
  BY DEF TypeOK
<1>2. /\ \A j \in Rows \ {k} : res'[j] = res[j]
      /\ res'[k].status = StatusOf[action]
      /\ res'[k].rollout = res[k].rollout
      /\ res'[k].range = res[k].range
      /\ res'[k].published = IF action = "publish" /\ res[k].published = 0
                             THEN NextRank ELSE res[k].published
  BY <1>1 DEF ResourceAction, WithStatus, Resource
<1>3. \A j \in Rows : Reach(j)' = Reach(j)
  BY <1>2 DEF Reach
<1>4. UNCHANGED [d \in Devices |-> Found(d)]
  BY RowRefinement DEF ResourceAction
<1>5. Stage(res[k].status) # "absent"
  BY <1>1, Stages DEF ResourceAction, Resource
<1>6. CASE action = "publish"
  <2>1. \A j \in Rows : Stage(res'[j].status) = IF j = k THEN "live" ELSE Stage(res[j].status)
    BY <1>2, <1>6, Stages DEF StatusOf
  <2>2. CASE res[k].published = 0
    <3>1. RanksInv' /\ \A j \in Rows : res[j].published < res'[k].published
      BY <1>2, <1>6, <2>2, FirstPublication
    <3>2. res'[k].published \in Nat
      BY <1>2, <1>6, <2>2, NextRankType
    <3>3. QED
      BY <1>2, <1>3, <1>4, <1>5, <2>1, <2>2, <3>1, <3>2 DEF Promise!Publish, Promise!ChangedAt
  <2>3. CASE res[k].published # 0
    <3>1. \A j \in Rows : res'[j].published = res[j].published
      BY <1>2, <2>3
    <3>2. QED
      BY <1>3, <1>4, <1>5, <2>1, <2>3, <3>1, RanksUnchanged DEF Promise!Publish
  <2>4. QED BY <2>2, <2>3
<1>7. CASE action # "publish"
  <2>1. StatusOf[action] \in {"paused", "recalled"}
    BY <1>7 DEF StatusOf
  <2>2. \A j \in Rows : Stage(res'[j].status) = IF j \in {k} THEN "withdrawn"
                                                ELSE Stage(res[j].status)
    BY <1>2, <2>1, Stages
  <2>3. \A j \in Rows : res'[j].published = res[j].published
    BY <1>2, <1>7
  <2>4. QED
    BY <1>3, <1>4, <1>5, <2>2, <2>3, RanksUnchanged DEF Promise!Withdraw
<1>8. QED BY <1>6, <1>7

(* UpdateResourceRollout is Rollout.                                       *)
LEMMA RolloutRefines ==
    ASSUME TypeOK, RanksInv, NEW k \in Rows, NEW p \in Percentages,
           UpdateResourceRollout(k, p)
    PROVE  Promise!Rollout(k) /\ RanksInv'
<1>1. res \in [Rows -> Resource] /\ res[k] \in Resource
  BY DEF TypeOK
<1>2. /\ \A j \in Rows \ {k} : res'[j] = res[j]
      /\ res'[k].status = IF res[k].status = "released" /\ NormalizeRollout(p) < 100
                          THEN "rolling_out" ELSE res[k].status
      /\ res'[k].published = res[k].published
  BY <1>1 DEF UpdateResourceRollout, WithRollout, Resource
<1>3. \A j \in Rows : Stage(res'[j].status) = Stage(res[j].status)
  BY <1>2, Stages
<1>4. \A j \in Rows : res'[j].published = res[j].published
  BY <1>2
<1>5. \A j \in Rows : Reach(j)' \in SUBSET Devices
  BY RowsAssumption DEF Reach
<1>6. \A j \in Rows \ {k} : Reach(j)' = Reach(j)
  BY <1>2 DEF Reach
<1>7. UNCHANGED [d \in Devices |-> Found(d)]
  BY RowRefinement DEF UpdateResourceRollout
<1>8. Stage(res[k].status) # "absent"
  BY <1>1, Stages DEF UpdateResourceRollout, Resource
<1>9. QED
  BY <1>3, <1>4, <1>5, <1>6, <1>7, <1>8, RanksUnchanged DEF Promise!Rollout, Promise!ChangedAt

(* The pause of a failure report withdraws every row it hits, and the      *)
(* other statements of the report touch nothing a lookup reads.            *)
LEMMA ReportRefines ==
    ASSUME TypeOK, RanksInv, NEW r \in Reports, SaveUpdateEvent(r)
    PROVE  [Promise!Next]_(Promise!vars) /\ RanksInv'
<1>1. UNCHANGED <<check, answer>>
  BY ChecksApart
<1>2. CASE ReportPause(r)
  <2> DEFINE hit == Stoppable(report[r].version)
  <2>1. hit \in SUBSET Rows
    BY DEF Stoppable
  <2>2. \A k \in Rows : res'[k] = IF k \in hit THEN [res[k] EXCEPT !.status = "paused"]
                                  ELSE res[k]
    BY <1>2 DEF ReportPause
  <2>3. \A k \in Rows : /\ res'[k].rollout = res[k].rollout
                        /\ res'[k].range = res[k].range
                        /\ res'[k].published = res[k].published
                        /\ res'[k].status = IF k \in hit THEN "paused" ELSE res[k].status
    <3>1. \A k \in Rows : res[k] \in Resource
      BY DEF TypeOK
    <3>2. QED BY <2>2, <3>1 DEF Resource
  <2>4. \A k \in Rows : Reach(k)' = Reach(k)
    BY <2>3 DEF Reach
  <2>5. \A k \in Rows : Stage(res'[k].status) = IF k \in hit THEN "withdrawn"
                                                ELSE Stage(res[k].status)
    BY <2>3, Stages
  <2>6. \A k \in hit : Stage(res[k].status) # "absent"
    BY Stages DEF Stoppable, Live, TypeOK, Resource
  <2>7. UNCHANGED [d \in Devices |-> Found(d)]
    BY <1>1, RowRefinement
  <2>8. Promise!Withdraw(hit)
    BY <2>1, <2>3, <2>4, <2>5, <2>6, <2>7 DEF Promise!Withdraw
  <2>9. RanksInv'
    BY <2>3, RanksUnchanged
  <2>10. QED BY <2>1, <2>8, <2>9 DEF Promise!Next
<1>3. CASE ~ReportPause(r)
  <2>1. res' = res
    BY <1>3 DEF SaveUpdateEvent, Proceed, ReportEvent, ReportAudit, ReportFails
  <2>2. UNCHANGED Promise!vars
    BY <1>1, <2>1, RowRefinement
  <2>3. QED BY <2>1, <2>2, RanksUnchanged
<1>4. QED BY <1>2, <1>3

(* An overview remembers a row of the table, or none.                      *)
TargetInv == \A o \in Overviews : overview[o] # Idle /\ overview[o].target # NoRow =>
                 res[overview[o].target].status # "absent"

(* Rows stay in the table, and the target does not change under way.       *)
LEMMA TargetInvNext ==
    ASSUME TypeOK, TargetInv, [Next]_vars
    PROVE  TargetInv'
<1>1. \A k \in Rows : res[k].status # "absent" => res'[k].status # "absent"
  BY RowsGrow DEF Grown
<1>2. \A o \in Overviews : overview[o] # Idle => overview[o].target \in Rows \cup {NoRow}
  BY DEF TypeOK
<1>3. CASE UNCHANGED overview
  BY <1>1, <1>2, <1>3 DEF TargetInv
<1>4. ASSUME NEW o \in Overviews, AdminOverview(o)
      PROVE  TargetInv'
  <2>1. CASE OverviewList(o)
    <3>1. PICK k \in AutomationTarget :
              overview' = [overview EXCEPT ![o] = [step |-> "events", target |-> k]]
      BY <2>1 DEF OverviewList
    <3>2. k # NoRow => res[k].status # "absent"
      BY AutomationTargetRange DEF AutomationTarget, LastPublished, Live, IsLive
    <3>3. res' = res
      BY <2>1 DEF OverviewList
    <3>4. QED BY <3>1, <3>2, <3>3 DEF TargetInv, TypeOK
  <2>2. CASE ~OverviewList(o)
    <3>1. overview[o] # Idle
      <4>1. overview[o].step \in OverviewSteps \/ OverviewFails(o)
        BY <1>4, <2>2 DEF AdminOverview, OverviewSteps, OverviewEvents, OverviewNotify,
           OverviewSend, OverviewNote, OverviewAutomate, OverviewPause, OverviewExecute
      <4>2. QED BY <4>1 DEF Idle, OverviewSteps, OverviewFails
    <3>2. PICK new : /\ overview' = [overview EXCEPT ![o] = new]
                     /\ new = Idle \/ new.target = overview[o].target
      <4>1. overview[o] \in [step : OverviewSteps, target : Rows \cup {NoRow}]
        BY <3>1 DEF TypeOK
      <4>2. \A step : [overview[o] EXCEPT !.step = step].target = overview[o].target
        BY <4>1
      <4>3. \/ \E step : overview' = [overview EXCEPT ![o] = [overview[o] EXCEPT !.step = step]]
            \/ overview' = [overview EXCEPT ![o] = Idle]
        <5>1. CASE OverviewEvents(o)
          BY <5>1 DEF OverviewEvents
        <5>2. CASE OverviewNotify(o)
          BY <5>2 DEF OverviewNotify
        <5>3. CASE OverviewSend(o)
          BY <5>3 DEF OverviewSend
        <5>4. CASE OverviewNote(o) \/ OverviewPause(o)
          BY <5>4 DEF OverviewNote, OverviewPause
        <5>5. CASE OverviewAutomate(o)
          BY <5>5 DEF OverviewAutomate
        <5>6. CASE OverviewExecute(o) \/ OverviewFails(o)
          BY <5>6 DEF OverviewExecute, OverviewFails
        <5>7. QED BY <1>4, <2>2, <5>1, <5>2, <5>3, <5>4, <5>5, <5>6 DEF AdminOverview
      <4>4. QED BY <4>2, <4>3
    <3>3. QED BY <1>1, <1>2, <3>1, <3>2 DEF TargetInv, TypeOK
  <2>3. QED BY <2>1, <2>2
<1>5. CASE Administer
  BY <1>3, <1>5 DEF Administer, CreateResourceVersion, ResourceAction, UpdateResourceRollout
<1>6. ASSUME NEW r \in Reports, SaveUpdateEvent(r)
      PROVE  UNCHANGED overview
  BY <1>6 DEF SaveUpdateEvent, Proceed, ReportEvent, ReportPause, ReportAudit, ReportFails
<1>7. ASSUME NEW d \in Devices, ResourceCheck(d)
      PROVE  UNCHANGED overview
  BY <1>7 DEF ResourceCheck, CheckFind, CheckNothing, CheckPackages, CheckFails
<1>8. QED BY <1>3, <1>4, <1>5, <1>6, <1>7 DEF Next, vars

(* The automatic pause of an overview withdraws its target, and its other  *)
(* steps touch nothing a lookup reads.                                     *)
LEMMA OverviewRefines ==
    ASSUME TypeOK, RanksInv, TargetInv, NEW o \in Overviews, AdminOverview(o)
    PROVE  [Promise!Next]_(Promise!vars) /\ RanksInv'
<1>1. UNCHANGED <<check, answer>>
  BY ChecksApart
<1>2. CASE OverviewPause(o) /\ overview[o].target \in Rows
  <2> DEFINE k == overview[o].target
  <2>1. res \in [Rows -> Resource] /\ k \in Rows /\ k # NoRow /\ overview[o] # Idle
    BY <1>2, RowsAssumption DEF TypeOK, OverviewPause, Idle
  <2>2. \A j \in Rows : /\ res'[j].rollout = res[j].rollout
                        /\ res'[j].range = res[j].range
                        /\ res'[j].published = res[j].published
                        /\ res'[j].status = IF j = k THEN "paused" ELSE res[j].status
    BY <1>2, <2>1 DEF OverviewPause, WithStatus, Resource
  <2>3. \A j \in Rows : Reach(j)' = Reach(j)
    BY <2>2 DEF Reach
  <2>4. \A j \in Rows : Stage(res'[j].status) = IF j \in {k} THEN "withdrawn"
                                                ELSE Stage(res[j].status)
    BY <2>2, Stages
  <2>5. Stage(res[k].status) # "absent"
    BY <2>1, Stages DEF TargetInv, Resource
  <2>6. UNCHANGED [d \in Devices |-> Found(d)]
    BY <1>1, RowRefinement
  <2>7. Promise!Withdraw({k})
    BY <2>1, <2>2, <2>3, <2>4, <2>5, <2>6 DEF Promise!Withdraw
  <2>8. RanksInv'
    BY <2>2, RanksUnchanged
  <2>9. QED BY <2>1, <2>7, <2>8 DEF Promise!Next
<1>3. CASE ~(OverviewPause(o) /\ overview[o].target \in Rows)
  <2>1. res' = res
    <3>1. CASE OverviewPause(o)
      BY <1>3, <3>1 DEF OverviewPause, TypeOK
    <3>2. CASE ~OverviewPause(o)
      BY <3>2 DEF AdminOverview, OverviewList, OverviewEvents, OverviewNotify,
         OverviewSend, OverviewNote, OverviewAutomate, OverviewExecute, OverviewFails
    <3>3. QED BY <3>1, <3>2
  <2>2. UNCHANGED Promise!vars
    BY <1>1, <2>1, RowRefinement
  <2>3. QED BY <2>1, <2>2, RanksUnchanged
<1>4. QED BY <1>2, <1>3

(* The first query of a check is the lookup, its second one and the answer *)
(* show as nothing, and a failure of either is a lookup that finds nothing. *)
LEMMA CheckRefines ==
    ASSUME TypeOK, RanksInv, NEW d \in Devices, ResourceCheck(d)
    PROVE  [Promise!Next]_(Promise!vars) /\ RanksInv'
<1>1. res' = res
  BY DEF ResourceCheck, CheckFind, CheckNothing, CheckPackages, CheckFails
<1>2. \A k \in Rows : Reach(k)' = Reach(k)
  BY <1>1 DEF Reach
<1>3. \A e \in Devices \ {d} : check'[e] = check[e] /\ answer'[e] = answer[e]
  BY DEF ResourceCheck, CheckFind, CheckNothing, CheckPackages, CheckFails, TypeOK
<1>4. \A e \in Devices \ {d} : Found(e)' = Found(e)
  BY <1>3 DEF Found
<1>5. Promise!Candidates(d) = {k \in Rows : Offerable(k, d)}
  BY Stages DEF Promise!Candidates, Offerable, Reach, Live, TypeOK, Resource
<1>6. CASE CheckFind(d)
  <2>1. PICK k \in FindLatestResource(d) :
            check' = [check EXCEPT ![d] = [step |-> "packages", row |-> k,
                                           content |-> res[k].content]]
    BY <1>6 DEF CheckFind
  <2>2. check'[d].step = "packages" /\ check'[d].row = k
    BY <2>1 DEF TypeOK
  <2>3. Found(d)' = k
    BY <2>2 DEF Found, Idle
  <2>4. k \in Promise!Candidates(d)
        /\ \A j \in Promise!Candidates(d) : res[j].published <= res[k].published
    BY <1>5, <2>1 DEF FindLatestResource, LastPublished
  <2>5. Promise!Candidates(d) \subseteq Rows
    BY DEF Promise!Candidates
  <2>6. Promise!Lookup(d)
    BY <1>1, <1>2, <1>4, <2>3, <2>4, <2>5 DEF Promise!Lookup
  <2>7. QED BY <1>1, <2>6, RanksUnchanged DEF Promise!Next
<1>7. CASE CheckNothing(d) \/ CheckFails(d)
  <2>1. Found(d)' = NoRow
    BY <1>7 DEF CheckNothing, CheckFails, Found, Nothing, TypeOK
  <2>2. Promise!LookupFails(d)
    BY <1>1, <1>2, <1>4, <2>1 DEF Promise!LookupFails
  <2>3. QED BY <1>1, <2>2, RanksUnchanged DEF Promise!Next
<1>8. CASE CheckPackages(d)
  <2>1. check'[d] = Idle /\ answer'[d].row = check[d].row /\ check[d] # Idle
    BY <1>8 DEF CheckPackages, TypeOK, Idle
  <2>2. Found(d)' = Found(d)
    BY <2>1 DEF Found
  <2>3. UNCHANGED Promise!vars
    BY <1>1, <1>2, <1>4, <2>2 DEF Promise!vars
  <2>4. QED BY <1>1, <2>3, RanksUnchanged
<1>9. QED BY <1>6, <1>7, <1>8 DEF ResourceCheck

(* The empty tables are an empty catalogue.                                *)
LEMMA InitRefines == Init => Promise!Init /\ RanksInv /\ TargetInv
<1> SUFFICES ASSUME Init PROVE Promise!Init /\ RanksInv /\ TargetInv
  OBVIOUS
<1>1. TypeOK
  BY InitType
<1>2. \A k \in Rows : res[k].published = 0 /\ Stage(res[k].status) = "absent"
  BY Stages DEF Init
<1>3. \A k \in Rows : Reach(k) \in SUBSET Devices
  BY RowsAssumption DEF Reach
<1>4. \A d \in Devices : Found(d) = NoRow
  BY DEF Init, Found, Nothing
<1>5. Promise!Init
  BY <1>2, <1>3, <1>4 DEF Promise!Init
<1>6. Published = {}
  BY <1>2 DEF Published
<1>7. RanksInv
  BY <1>2, <1>6, FS_EmptySet DEF RanksInv
<1>8. QED BY <1>5, <1>7 DEF TargetInv, Init

(* ImplementsCatalogue: administration, failure reports, the automation    *)
(* and two-query lookups, interleaved in any way and cut short anywhere,   *)
(* show devices a catalogue in which only publishing puts entries into     *)
(* circulation and a lookup finds the one published last.                  *)
THEOREM ImplementsCatalogueHolds == Spec => ImplementsCatalogue
<1>1. TypeOK /\ RanksInv /\ [Next]_vars /\ TargetInv => [Promise!Next]_(Promise!vars) /\ RanksInv'
  <2> SUFFICES ASSUME TypeOK, RanksInv, TargetInv, [Next]_vars
               PROVE  [Promise!Next]_(Promise!vars) /\ RanksInv'
    OBVIOUS
  <2>1. CASE Administer
    <3>1. ASSUME NEW k \in Rows, NEW range \in Ranges, NEW p \in Percentages,
             CreateResourceVersion(k, range, p)
          PROVE  Promise!Next /\ RanksInv'
      BY <3>1, CreateRefines DEF Promise!Next
    <3>2. ASSUME NEW k \in Rows, NEW action \in DOMAIN StatusOf, ResourceAction(k, action)
          PROVE  Promise!Next /\ RanksInv'
      BY <3>2, ActionRefines DEF Promise!Next
    <3>3. ASSUME NEW k \in Rows, NEW p \in Percentages, UpdateResourceRollout(k, p)
          PROVE  Promise!Next /\ RanksInv'
      BY <3>3, RolloutRefines DEF Promise!Next
    <3>4. QED BY <2>1, <3>1, <3>2, <3>3 DEF Administer
  <2>2. CASE UNCHANGED vars
    BY <2>2, RowRefinement, RanksUnchanged DEF vars
  <2>3. QED BY <2>1, <2>2, ReportRefines, OverviewRefines, CheckRefines DEF Next
<1>2. TypeOK /\ TargetInv /\ [Next]_vars => TargetInv'
  BY TargetInvNext
<1>3. QED BY TypeOKHolds, InitRefines, <1>1, <1>2, PTL
          DEF Spec, ImplementsCatalogue, Promise!Spec

-----------------------------------------------------------------------------
(* What is proved of a catalogue holds of the resources, read as one.      *)
Theory == INSTANCE CatalogueProofs WITH
    Entries <- Rows,
    NoEntry <- NoRow,
    stage <- [k \in Rows |-> Stage(res[k].status)],
    reach <- [k \in Rows |-> Reach(k)],
    rank <- [k \in Rows |-> res[k].published],
    found <- [d \in Devices |-> Found(d)]

LEMMA SameCatalogue == Promise!Spec => Theory!Spec
BY PTL DEF Promise!Spec, Theory!Spec, Promise!Init, Theory!Init, Promise!Next, Theory!Next,
   Promise!vars, Theory!vars, Promise!Create, Theory!Create, Promise!Publish, Theory!Publish,
   Promise!Rollout, Theory!Rollout, Promise!Withdraw, Theory!Withdraw, Promise!Lookup,
   Theory!Lookup, Promise!LookupFails, Theory!LookupFails, Promise!Candidates,
   Theory!Candidates, Promise!ChangedAt, Theory!ChangedAt

(* The candidates of a lookup are the rows the query selects.              *)
LEMMA SameCandidates ==
    ASSUME TypeOK, NEW d \in Devices
    PROVE  Theory!Candidates(d) = {k \in Rows : Offerable(k, d)}
BY Stages DEF Theory!Candidates, Offerable, Reach, Live, TypeOK, Resource

(* What a check finds is decided by published_at alone, after any sequence *)
(* of registrations, publications, pauses and rollbacks: a live resource   *)
(* has one and no two are equal, so neither "nulls last" nor created_at    *)
(* nor the order of the rows ever chooses.                                 *)
LookupDecided ==
    \A d \in Devices : (\E k \in Rows : Offerable(k, d)) =>
        \E k \in Rows : FindLatestResource(d) = {k}

LEMMA DecidedLookup == ASSUME TypeOK, Theory!Decided PROVE LookupDecided
<1>1. SUFFICES ASSUME NEW d \in Devices, \E k \in Rows : Offerable(k, d)
               PROVE  \E k \in Rows : FindLatestResource(d) = {k}
  BY DEF LookupDecided
<1> DEFINE S == {k \in Rows : Offerable(k, d)}
<1>2. PICK k \in S : \A j \in S \ {k} : res[j].published < res[k].published
  <2>1. Theory!Candidates(d) = S
    BY SameCandidates
  <2> HIDE DEF S
  <2>2. PICK k \in S : \A j \in S \ {k} : [n \in Rows |-> res[n].published][j]
                                           < [n \in Rows |-> res[n].published][k]
    <3>1. S # {}
      BY <1>1 DEF S
    <3>2. QED BY <2>1, <3>1 DEF Theory!Decided
  <2>3. S \subseteq Rows
    BY DEF S
  <2>4. QED BY <2>2, <2>3
<1>3. \A j \in Rows : res[j].published \in Nat
  BY DEF TypeOK, Resource
<1>4. LastPublished(S) = {k}
  BY <1>2, <1>3 DEF LastPublished
<1>5. QED BY <1>2, <1>4 DEF FindLatestResource

(* The query of a check selects one row, or there is none to select.       *)
THEOREM LookupDecidedHolds == Spec => []LookupDecided
<1>1. IsFiniteSet(Rows)
  BY RowsAssumption
<1>2. Theory!Spec => []Theory!Decided
  <2>1. Theory!IsFiniteSet(Rows)
    BY <1>1 DEF Theory!IsFiniteSet, IsFiniteSet
  <2>2. QED BY <2>1, Theory!DecidedHolds
<1>3. Spec => Theory!Spec
  BY ImplementsCatalogueHolds, SameCatalogue DEF ImplementsCatalogue
<1>4. TypeOK /\ Theory!Decided => LookupDecided
  BY DecidedLookup
<1>5. QED BY TypeOKHolds, <1>2, <1>3, <1>4, PTL
=============================================================================
