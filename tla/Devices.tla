------------------------------ MODULE Devices ------------------------------
(***************************************************************************)
(* One device and what the server knows of it: update checks, resource     *)
(* checks, task preflights, heartbeats and update events travel over a     *)
(* network that loses, repeats and reorders them, the server answers from  *)
(* the release and the resource it offers at that moment, and every call   *)
(* but the resource check writes the device's row of app_installations,    *)
(* column by column and last writer wins.                                  *)
(*                                                                         *)
(* How releases and resources become an offer is the subject of Releases   *)
(* and Resources.  The device itself is external; it reports its versions. *)
(***************************************************************************)
EXTENDS Integers, FiniteSets

CONSTANTS
    MaxCode,     \* app version codes are 1 .. MaxCode
    Resources,   \* resource_version values
    NoResource,  \* the blank version
    Offers,      \* what FindLatestRelease may answer
    ResOffers,   \* what FindLatestResource may answer
    Stores,      \* the stores the server may be configured with
    InFlight     \* bound on the messages in flight

Codes == 1 .. MaxCode
Versions == Resources \cup {NoResource}
Nobody == [version |-> NoResource, level |-> "normal"]

ASSUME OffersAssumption ==
    /\ MaxCode \in Nat \ {0}
    /\ NoResource \notin Resources
    /\ Offers \subseteq [code: Codes, min: 0 .. MaxCode, force: BOOLEAN, available: BOOLEAN]
    /\ ResOffers \subseteq [version: Versions, level: {"normal", "forced"}]
    /\ Stores \subseteq {"postgres", "demo"}
    /\ InFlight \in Nat \ {0}

VARIABLES
    store,      \* which store the server is configured with
    offer,      \* the release offered to the device
    resOffer,   \* the resource offered to it
    net,        \* the messages in flight
    device,     \* the device: the versions it runs
    row,        \* its row of app_installations
    ran         \* history: the codes and the resources the device has run

vars == <<store, offer, resOffer, net, device, row, ran>>

Missing == [code |-> -1]
AppEvents == {"install_success", "install_failed"}
ResourceEvents == {"activation_success", "activation_failed", "resource_rollback_success"}
Event == [kind: {"event"}, type: AppEvents, code: Codes, res: {NoResource}]
         \cup [kind: {"event"}, type: ResourceEvents, code: {0}, res: Resources]
Requests == {"check", "resource", "heartbeat"}
Request == [kind: {"check"}, code: Codes, res: {NoResource}]
           \cup [kind: {"resource"}, code: {0}, res: Versions]
           \cup [kind: {"heartbeat"}, code: Codes, res: Versions]
Answer == [kind: {"update"}, code: Codes] \cup [kind: {"packages"}, res: Resources]

TypeOK ==
    /\ store \in Stores
    /\ offer \in Offers
    /\ resOffer \in ResOffers \cup {Nobody}
    /\ net \subseteq Event \cup Request \cup Answer
    /\ Cardinality(net) <= InFlight
    /\ device \in [code: Codes, res: Versions]
    /\ row \in {Missing} \cup [code: 0 .. MaxCode, res: Versions]
    /\ ran \subseteq Codes \cup Versions

-----------------------------------------------------------------------------
(* Decisions.  A definition with a suffix is a broken variant of the one   *)
(* it is named after, which makes the property in its comment fail.        *)

(* AppUpdates: a device below the minimum is blocked but offered nothing.  *)
hasUpdate_Supported(cfg, code) == cfg.code > code /\ code >= cfg.min

(* checkWithConfig, for a device that reports its version code             *)
hasUpdate(cfg, code) == cfg.code > code

versionAvailable(cfg, code) == cfg.available /\ code >= cfg.min

(* AppBlockEnds: a forced release blocks the device that has it, too.      *)
forceUpdate_Always(cfg, code) == cfg.force \/ ~versionAvailable(cfg, code)

forceUpdate(cfg, code) ==
    \/ cfg.force /\ hasUpdate(cfg, code)
    \/ ~versionAvailable(cfg, code)

(* ResourceUpdates: only a device without a resource gets one.             *)
hasResource_First(candidate, res) == candidate.version # NoResource /\ res = NoResource

(* ResourceCheck.  A resource whose app version range excludes the device  *)
(* is not found, so the range forces nothing.                              *)
hasResource(candidate, res) == candidate.version \notin {NoResource, res}

forceResource(candidate) == candidate.level = "forced"

(* TaskPreflight.  It also writes the row, as an update check does.        *)
canExecute(cfg, candidate, code) ==
    ~forceUpdate(cfg, code) /\ ~forceResource(candidate)

-----------------------------------------------------------------------------
(* The network                                                             *)

(* A network that is full loses a message for the one it takes.            *)
Send(others, m) ==
    \/ Cardinality(others \cup {m}) <= InFlight /\ net' = others \cup {m}
    \/ /\ Cardinality(others \cup {m}) > InFlight
       /\ \E lost \in others : net' = (others \ {lost}) \cup {m}

(* What may be in flight once m has arrived: a call may arrive again, its  *)
(* sender retries it; an answer belongs to the call that waits for it.     *)
Rest(m) == {net \ {m}} \cup (IF m \in Answer THEN {} ELSE {net})

Reply(m, answer) == \E others \in Rest(m) : Send(others, answer)

Lose(m) ==
    /\ net' = net \ {m}
    /\ UNCHANGED <<store, offer, resOffer, device, row, ran>>

-----------------------------------------------------------------------------
(* The server.  A row that is not there is inserted.                       *)

Blank == [code |-> 0, res |-> NoResource]
Row == IF row = Missing THEN Blank ELSE row

(* UpsertInstallation: the columns of the check, whatever was there.  Its  *)
(* error, which only the database has, is dropped by Check.                *)
UpsertInstallation(code) ==
    \/ row' = [Row EXCEPT !.code = code]
    \/ store = "postgres" /\ row' = row

(* Check                                                                   *)
HandleCheck(m) ==
    /\ m.kind = "check"
    /\ UpsertInstallation(m.code)
    /\ IF hasUpdate(offer, m.code) THEN Reply(m, [kind |-> "update", code |-> offer.code])
       ELSE net' \in Rest(m)
    /\ UNCHANGED <<store, offer, resOffer, device, ran>>

HandleResourceCheck(m) ==
    /\ m.kind = "resource"
    /\ IF hasResource(resOffer, m.res)
       THEN Reply(m, [kind |-> "packages", res |-> resOffer.version])
       ELSE net' \in Rest(m)
    /\ UNCHANGED <<store, offer, resOffer, device, row, ran>>

(* RowCatchesUp: the heartbeat leaves the resource version alone.          *)
Heartbeat_AppOnly(m) == [Row EXCEPT !.code = m.code]

(* SaveHeartbeat: a blank resource version keeps the one there is.         *)
Heartbeat(m) ==
    [Row EXCEPT !.code = m.code,
                !.res = IF m.res = NoResource THEN @ ELSE m.res]

HandleHeartbeat(m) ==
    /\ m.kind = "heartbeat"
    /\ row' = Heartbeat(m)
    /\ net' \in Rest(m)
    /\ UNCHANGED <<store, offer, resOffer, device, ran>>

(* RowTrue: the event need not be a success.                               *)
AfterUpgradeEvent_Any(m) == [Row EXCEPT !.code = IF m.code > 0 THEN m.code ELSE @]

(* upsertInstallationAfterUpgradeEvent                                     *)
AfterUpgradeEvent(m) ==
    [Row EXCEPT !.code = IF m.type = "install_success" /\ m.code > 0 THEN m.code ELSE @]

(* TypeOK: the columns of the two events are mixed up.                     *)
AfterResourceEvent_Code(m) ==
    [Row EXCEPT !.res = IF m.type = "activation_success" THEN m.code ELSE @]

(* upsertInstallationAfterResourceEvent                                    *)
AfterResourceEvent(m) ==
    [Row EXCEPT !.res = IF m.type = "activation_success" /\ m.res # NoResource
                        THEN m.res ELSE @]

(* upsertInstallationAfterEventLocked: a row that is not there is inserted *)
(* without versions.                                                       *)
AfterEventDemo(m) ==
    IF row = Missing THEN Blank
    ELSE [code |-> IF m.type = "install_success" THEN m.code ELSE row.code,
          res |-> IF m.type = "activation_success" THEN m.res ELSE row.res]

(* SaveUpdateEvent                                                         *)
HandleEvent(m) ==
    /\ m.kind = "event"
    /\ row' = IF store = "demo" THEN AfterEventDemo(m)
              ELSE IF m.type \in {"install_success", "install_failed"}
                   THEN AfterUpgradeEvent(m)
                   ELSE AfterResourceEvent(m)
    /\ net' \in Rest(m)
    /\ UNCHANGED <<store, offer, resOffer, device, ran>>

(* The server starts again.  DemoStore has forgotten the device.           *)
Restart ==
    /\ store = "demo"
    /\ row' = Missing
    /\ UNCHANGED <<store, offer, resOffer, net, device, ran>>

(* An administrator, a schedule or an automatic pause changes the offer.   *)
ChangeOffer ==
    /\ offer' \in Offers
    /\ UNCHANGED <<store, resOffer, net, device, row, ran>>

ChangeResOffer ==
    /\ resOffer' \in ResOffers \cup {Nobody}
    /\ UNCHANGED <<store, offer, net, device, row, ran>>

-----------------------------------------------------------------------------
(* The device                                                              *)

Ask(kind) ==
    /\ Send(net, [kind |-> kind,
                  code |-> IF kind = "resource" THEN 0 ELSE device.code,
                  res |-> IF kind = "check" THEN NoResource ELSE device.res])
    /\ UNCHANGED <<store, offer, resOffer, device, row, ran>>

Report(m, type, code, res) ==
    Reply(m, [kind |-> "event", type |-> type, code |-> code, res |-> res])

(* An answer is acted on when it arrives; Android installs no older app.   *)
Install(m) ==
    /\ m.kind = "update"
    /\ m.code > device.code
    /\ device' = [device EXCEPT !.code = m.code]
    /\ ran' = ran \cup {m.code}
    /\ Report(m, "install_success", m.code, NoResource)
    /\ UNCHANGED <<store, offer, resOffer, row>>

InstallFails(m) ==
    /\ m.kind = "update"
    /\ Report(m, "install_failed", m.code, NoResource)
    /\ UNCHANGED <<store, offer, resOffer, device, row, ran>>

Activate(m) ==
    /\ m.kind = "packages"
    /\ device' = [device EXCEPT !.res = m.res]
    /\ ran' = ran \cup {m.res}
    /\ Report(m, "activation_success", 0, m.res)
    /\ UNCHANGED <<store, offer, resOffer, row>>

(* The packages do not work; the resource before them is put back.         *)
ActivateFails(m) ==
    /\ m.kind = "packages"
    /\ \/ Report(m, "activation_failed", 0, m.res)
       \/ Report(m, "resource_rollback_success", 0, m.res)
    /\ UNCHANGED <<store, offer, resOffer, device, row, ran>>

-----------------------------------------------------------------------------
Init ==
    /\ store \in Stores
    /\ offer \in Offers
    /\ resOffer = Nobody
    /\ net = {}
    /\ device = [code |-> 1, res |-> NoResource]
    /\ row = Missing
    /\ ran = {1, NoResource}

Some(Handle(_)) == \E m \in net : Handle(m)

Next ==
    \/ \E kind \in Requests : Ask(kind)
    \/ \E m \in net :
          \/ HandleCheck(m)
          \/ HandleResourceCheck(m)
          \/ HandleHeartbeat(m)
          \/ HandleEvent(m)
          \/ Install(m)
          \/ InstallFails(m)
          \/ Activate(m)
          \/ ActivateFails(m)
          \/ Lose(m)
    \/ ChangeOffer
    \/ ChangeResOffer
    \/ Restart

Spec == Init /\ [][Next]_vars

(* The device keeps asking, what it keeps asking is answered in the end,   *)
(* an update it keeps getting is installed in the end, and no call is      *)
(* retried for ever: the network loses it once it has no more senders.     *)
Fairness ==
    /\ \A kind \in Requests : WF_vars(Ask(kind))
    /\ SF_vars(Some(HandleCheck))
    /\ SF_vars(Some(HandleResourceCheck))
    /\ SF_vars(Some(HandleHeartbeat))
    /\ SF_vars(Some(Install))
    /\ SF_vars(Some(Activate))
    /\ \A m \in Event \cup Request : WF_vars(Lose(m))

FairSpec == Spec /\ Fairness

-----------------------------------------------------------------------------
(* However late, repeated or reordered the calls arrive, the row names no  *)
(* app and no resource that the device has not run.                        *)
RowTrue ==
    row # Missing => /\ row.code \in ran \cup {0}
                  /\ row.res \in ran

(* The row catches up: once the device stays at its versions, so does the  *)
(* row, though stale calls may still overwrite it for a while.  DemoStore  *)
(* must not lose the row time and again.                                   *)
RowCatchesUp ==
    <>[][device' = device /\ row' # Missing]_<<device, row>> => <>[](row = device)

(* A device that keeps asking gets what is offered, if the offer stays: at *)
(* least the offered app, and exactly the offered resource.                *)
AppUpdates == <>[][FALSE]_offer => <>[](device.code >= offer.code)

ResourceUpdates ==
    <>[][FALSE]_resOffer => <>[](resOffer # Nobody => device.res = resOffer.version)

(* A forced app update is a way out: while an offer stays that satisfies   *)
(* its own minimum, the preflight lets every device go on with its task in *)
(* the end.  A forced resource is none and has to be excepted: it keeps    *)
(* the device waiting when it already runs it (service.go:65).             *)
Sane(o) == o.available /\ o.min <= o.code

AppBlockEnds ==
    <>[][FALSE]_<<offer, resOffer>> =>
        <>[](Sane(offer) /\ ~forceResource(resOffer) =>
                 canExecute(offer, resOffer, device.code))
=============================================================================
