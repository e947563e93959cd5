# Release Center in TLA+

TLA+ models of the release center of `src/`: the Go server that keeps APK
releases and incremental resource versions in PostgreSQL, answers the update
checks of devices, records what devices report, and pauses resources that fail.
It also models who may administer, how an APK gets from an upload to a device,
what the server knows of a device, the database connections requests share, and
the migrations. The modules follow the code of `src/internal/modules/appreleases/`
and `src/cmd/`; TLC checks them on small instances and TLAPS proves the safety
results for every instance.

Paths below are relative to `src/internal/modules/appreleases/` unless they say
otherwise.

## 1. The system

### Components

| Component | Code | State | Operations |
|---|---|---|---|
| APK releases | `postgres.go`, `admin_postgres.go`, `admin_service.go`, `service.go` | `app_releases`, `app_release_rules`, `apps.enabled`, `Config` | `CreateRelease`, `ReleaseAction` (publish, rollback, pause, recall, unpublish), `UpdateReleaseRollout`, `UpdateReleaseNotes`, `AppAction`, `EnsureConfiguredRelease` at the start of the server, `Check` |
| Resource versions | same files | `app_resource_versions`, `app_resource_packages`, `app_resource_update_events`, `audit_events` | `CreateResourceVersion`, `ResourceAction`, `UpdateResourceRollout`, `ResourceCheck`, `SaveUpdateEvent` with `pauseResourceAfterActivationFailure` |
| Quality alerts and automation | `admin_postgres.go` (metrics), `admin_service.go` (`processQualityAlerts`) | the last 100 events, `audit_events`, `Config` | runs inside `GET /admin/api/app-releases`: a read that notifies a webhook and may pause a resource |
| Update-check decision | `service.go` (`checkWithConfig`, `TaskPreflight`) | none | pure functions from the row and the request to the answer |
| Builds and artifacts | `CreateBuild`, `CreateArtifact`, CI endpoints | `app_builds` | register or overwrite by build number |
| Installations | `UpsertInstallation`, `SaveHeartbeat`, the `upsertInstallationAfter...` pair | `app_installations` | last writer wins, column by column |
| Connection pool use | `FindLatestResource`, `listAdminResourcesWhere` | pgx pool | a second query while the rows of the first are open |
| RBAC, system management | `rbac.go`, `system_service.go`, `system_postgres.go` | `system_users`, roles, permissions, menus, dictionaries | middleware that reads permissions, then runs the handler |
| Migrations | `src/cmd/migrate/main.go`, `src/internal/migrations/` | `schema_migrations` | look, apply and record one file after another |
| In-memory store | `demo_store.go` | maps under one mutex | the whole `Store` interface |
| CI webhooks | `SaveWebhookEvent` | `webhook_events` | store what arrives |
| Packaging, signatures, blobs | `resource_packager.go`, `manifest_signature.go`, `src/internal/platform/storage/local.go` | files under unique keys | validate, sign, save, open |
| HTTP layer | `http.go`, `routes.go`, `src/internal/platform/httpx/` | none | decode, route, encode |
| Server, CLI, console | `src/cmd/server`, `src/cmd/releasectl`, `src/web` | configuration | start; clients of the API |

### How they interact

Every request runs in its own goroutine, and the server keeps no state of its own
between requests: components interact through the rows of the database. Few
operations are transactions (`EnsureConfiguredRelease`, `CreateResourceVersion`,
`CreateBuild`, `ensureApp`); most are several statements in autocommit, so the
statements of concurrent requests interleave, an error, a client that hangs up
(the request's context ends) or a restart leaves the first ones done, and a value
read by one statement may be stale when the next one uses it. The database runs
at READ COMMITTED.

- Devices, administrators and CI meet in `app_releases` and
  `app_resource_versions`: administrators write statuses, percentages and targets,
  `FindLatestRelease` and `FindLatestResource` read them.
- Every request of a device that names it goes through `ensureApp`, which also
  writes `apps.enabled`.
- A failure report of one device changes what every device is offered.
- The overview of an administrator reads resources, events and audits, and writes
  resources and audits.
- A restart writes the release named by the environment (`LATEST_VERSION_CODE` ...)
  over its row, and the same configuration is what `Check` answers when the query
  finds nothing or fails.

### What is hard, and what makes each part correct

`PROJECT.json` lists every hazard at its line. In short:

- **Releases.** A release goes to exactly the audience its last creation asked for, unless
  another creation overlapped it or cut it short, and no query finds it before its
  schedule; withdrawing it lasts until somebody publishes it again and reaches every device
  that polls; raising the percentage takes it from nobody. The configured release is the
  exception: a restart releases it again, and it is the answer when nothing else is.
- **Resources.** Only an administrator brings a resource into circulation; a failure
  report that is not cut short takes its version out everywhere; an audit names what was
  paused; packages are never older than the row they are answered with.
- **Automation.** The automatic pause happens a bounded number of times, unless requests
  fail, and however late it comes it revives nothing.
- **Builds.** What was uploaded last under a number is what the console downloads; an
  offer whose link and checksum were both registered never pairs the link of one artifact
  with the checksum of another; a sound release that stays best is installed.
- **Devices.** The row of a device names nothing it has not run and converges to what it
  runs, in spite of late, lost and repeated requests and events; offers that stay reach
  it; a forced app update ends.
- **Access.** A handler runs only for an account that held the permission during the
  request; what was disabled is out; a lockout cannot be undone from inside.
- **Pool.** Connections do not leak, and some request can always go on if there are more
  connections than requests that nest queries.
- **Migrations.** Every file takes effect once and in order, whatever runs beside it
  or is cut off; success means complete.

## 2. Modules

| Module | Content | Composition |
|---|---|---|
| `Releases` | releases, restart, update-check | |
| `Resources` | resources, failure reports, resource-check, overview automation | implements `Catalogue` |
| `Catalogue` | abstract specification: stages, publication order, lookups | instantiated by `Resources` |
| `Devices` | decisions of the checks and the preflight, installations, a device and its network | takes what `Releases` and `Resources` decide as an offer that changes at any time |
| `Builds` | files, build rows, releases of builds, downloads, fetching devices | statuses of `Releases` without schedule, target and percentage |
| `Access` | RBAC middleware, system tables, filtered overview | guards every administrator action of the other modules |
| `Pool` | connections, nested queries, abandoned requests | under every request of the other modules |
| `Migrate` | `cmd/migrate` | before the server starts |
| `MC...` | values of the constants | one per module above, but `Catalogue` |
| `...Proofs` | theorems and their lemmas | `Releases`, `Resources`, `Catalogue`, `Devices`, `Builds`, `Access`, `Pool`, `Migrate`; `ResourcesProofs` instantiates `CatalogueProofs` |

What could come next: a store of resources in memory beside `Resources` (it pauses the
first row of a version only, `demo_store.go:1238`, and compares `PublishedAt` or
`CreatedAt`, `demo_store.go:279`), and the rates and windows of the quality metrics as
functions.

## 3. What is modelled

### `Releases`

| Variable | Code |
|---|---|
| `rel` | `app_releases`: `status`, `rollout_percentage`, `published_at`, whether `paused_at` is set, `metadata.target_type/value`; status "absent" is no row |
| `rules` | `app_release_rules` of each row |
| `enabled` | `apps.enabled` of the configured app |
| `now` | the clock of the database |
| `create` | how far each `CreateRelease` request has got |
| `check` | update-checks between `FindLatestRelease` and the answer |
| `answer` | the last answer of each device |
| `due`, `clean` | history: the schedule the latest creation of a row asked for; whether it ran alone and was not cut short |

A row is a key of `app_releases` (app, build, channel, build type). Every build is
registered under the configured app, so what remains is a set `Rows`, with the
package, channel and build type as `LineOf` and the order of the versions as
`CodeOf` and `NumberOf`. `EnvRow` is the row the environment configures, or none.

| Action | Code |
|---|---|
| `CreateUpsert`, `CreateDeleteRules`, `CreateInsertRule`, `CreateFails` | `CreateRelease`, `admin_postgres.go:348-421`, statement by statement |
| `ReleaseAction` | `admin_service.go:423`, `UpdateReleaseStatus` |
| `UpdateReleaseRollout` | `admin_service.go:449`, `admin_postgres.go:438` |
| `AppAction` | `UpdateAppEnabled` |
| `EnsureApp` | `ensureApp`, run by heartbeats, events, builds and resource registrations |
| `CheckFind`, `CheckFindFails`, `CheckAnswer` | `Service.Check`: the query (or its error, which leaves the configuration), then `UpsertInstallation` and the answer |
| `Restart` | the process ends with its requests, and `main` runs `SyncConfiguredRelease` |
| `Tick` | time passes |

A `ScheduledAt` that does not parse is `scheduled` with `at = Null`, as in the code:
the status is "scheduled" and there is no date. An administrator can name a target
with an empty value only for type `all` (`admin_service.go:408`), so `Targets` holds
complete pairs.

### `Resources`

| Variable | Code |
|---|---|
| `res` | `app_resource_versions`: `status`, the range of app versions as the devices within it, `rollout_percentage`, the rank of `published_at`, and which upload its packages come from |
| `events` | the number of activation failures in `app_resource_update_events` |
| `report` | `SaveUpdateEvent` requests after the event was inserted |
| `overview` | overview requests after they read the resources, with the target they would pause |
| `check`, `answer` | resource-checks between their two queries; the last answers, with the upload the row and the packages were read from |
| `audited`, `notified`, `executed` | `resource.auto_pause`, `quality_alert.notified`, `quality_alert.auto_execute` audits |
| `stopped`, `runs` | history: rows a report paused; how often the automation paused something |

| Action | Code |
|---|---|
| `CreateResourceVersion` | one transaction, `admin_postgres.go:477-560` |
| `ResourceAction`, `UpdateResourceRollout` | `admin_service.go:555-592` |
| `ReportEvent`, `ReportPause`, `ReportAudit`, `ReportFails` | `SaveUpdateEvent` of an activation failure, `postgres.go:225-275`, and `pauseResourceAfterActivationFailure`, `postgres.go:422-453` |
| `OverviewList`, `OverviewEvents` | `AdminOverview`: the queries that matter, and the metrics they feed |
| `OverviewNotify`, `OverviewSend`, `OverviewNote` | `processQualityAlertNotification`: look for the audit, send, write the audit |
| `OverviewAutomate`, `OverviewPause`, `OverviewExecute` | `processQualityAlertAutomation`: look for the audit, pause, write the audit |
| `OverviewFails` | the request ends early |
| `CheckFind`, `CheckNothing`, `CheckPackages`, `CheckFails` | `ResourceCheck` with the two queries of `FindLatestResource` |

The automation and the webhook are fields of `Config` that `src/cmd/server` leaves at
their zero value; the constants `AutoPause` and `Webhook` say whether an embedding
sets them. `apps.enabled` filters resources too; it is modelled in `Releases` and true
here. `Ranges` are the version ranges a registration may ask for, and every registration of a row
replaces the one before it; `Admits` is what the channel lets through.
`NextRank` stands for `now()`: no two publications have the same time.
A failure of a request at any of its steps (`Failures`) includes the restart
of the server.

`Catalogue` is what the resource store promises a device, without tables, queries and
requests: an entry is absent, a draft, live or withdrawn; only `Publish` makes it live
and gives it a place in the order, once; a lookup finds the live entry that reaches the
device and was published last. `Resources` maps `stage` to the class of `status`, `reach`
to channel, version range and percentage, `rank` to the order of `published_at` and
`found` to the row a check holds between its queries or has answered. Creations,
actions and rollouts map to the step of their name, the pause of a report or of an
overview to `Withdraw` of all the rows it hits, the first query of a check to `Lookup`,
an error to `LookupFails`, and every other step to a stutter.

### `Devices`

| Variable | Code |
|---|---|
| `offer`, `resOffer` | what `FindLatestRelease` and `FindLatestResource` answer at the moment |
| `net` | requests, answers and events on their way; a set, so that any of them may arrive next. A request or event that was handled may stay and arrive again (`Rest`), an answer is taken once |
| `row` | version code and resource version of the device in `app_installations`, or `Missing` |
| `device`, `ran` | external: what the device runs; history: what it has run |
| `store` | PostgreSQL or `DemoStore`, chosen by `main` |

| Action | Code |
|---|---|
| `HandleCheck` | `Check`: `checkWithConfig` with `hasUpdate`, and `UpsertInstallation`, whose error on PostgreSQL the service drops (`service.go:48`): the row is as before and the answer is sent |
| `HandleResourceCheck` | `ResourceCheck` |
| `HandleHeartbeat` | `SaveHeartbeat`, `postgres.go:277-317`: a blank resource keeps the old one |
| `HandleEvent` | `SaveUpdateEvent`: `upsertInstallationAfterUpgradeEvent`, `...ResourceEvent`, or `upsertInstallationAfterEventLocked` |
| `Restart` | a `DemoStore` forgets the row |
| `ChangeOffer`, `ChangeResOffer` | anything `Releases` or `Resources` may do |
| `Ask`, `Install`, `InstallFails`, `Activate`, `ActivateFails`, `Lose` | the device and the network, external |

`canExecute` is the answer of `TaskPreflight`; its effect on the row is that of a check.
The device installs no older app, as Android does not, and activates the resource of
whatever answer reaches it.

### `Builds`

| Variable | Code |
|---|---|
| `files` | the artifacts under `FILE_ROOT` |
| `builds` | `app_builds` by number: what `artifact_path` leads to, version code, checksum, `metadata.storage_key` |
| `releases` | status, and for `DemoStore` the copy `releaseFromBuild` took |
| `upload` | requests between `Local.Save` and `CreateBuild` |
| `offer`, `installed` | external: what a device is about to fetch, and runs |
| `last` | history: the upload registered last under each number |

| Action | Code |
|---|---|
| `Save`, `Register`, `UploadFails` | the multipart forms of `CreateBuild` and `CreateCIArtifact` |
| `CreateBuild` | the JSON forms, with or without link and checksum (`admin_service.go:303-307` fills them from the configuration) |
| `CreateRelease`, `ReleaseAction`, `UpdateReleaseRollout` | as in `Releases`, and `demo_store.go:633-716` |
| `Check` | `FindLatestRelease` of either store, or the configuration |
| `Fetch` | external: only a link can be fetched (`ClientServes`), and only what has the announced checksum is installed |
| `Restart` | `EnsureConfiguredRelease` of either store; `DemoStore` begins with its seed |

`Merged` is the `on conflict` of `CreateBuild`, `Uploaded` the row of an upload: when the
number is known, its path names the id the request made up and the row never got
(`dangling`). An artifact stands for its bytes and hence for its SHA-256.

### `Access`

| Variable | Code |
|---|---|
| `users`, `roles`, `entries` | `system_users`, `system_roles`; permissions, dictionaries and menus |
| `request` | admin requests between the token lookup, the permission read, the handler and the filter |
| `held` | history: permissions the account has had during the request |

| Action | Code |
|---|---|
| `Arrive`, `Authorise` | `AdminRBACMiddleware`, `AdminHasPermission` |
| `ServeWrite` | the `system:write` routes: `CreateSystemUser`, `SystemUserAction`, `CreateSystemRole`, `SystemRoleAction`, and the same of the entries |
| `ServeOverview`, `FilterOverview` | `SystemManagementOverview`, then `FilterSystemManagementOverview` |
| `EndRequest`, `Restart` | the answer or an error; the process starts again |

`Put` is the upsert of PostgreSQL or the prepending of `DemoStore`; both stores return
rows newest first, and the lookup takes the first row of the account. `CreateSystemRole`
refuses an empty list on PostgreSQL, where it is sent as null.

### `Pool`

`free`, `holds` and `queue` are the connections; `pc`, `queries` and `rows` say where a
request is: it waits for a query, reads its rows, waits for the packages of a row, reads
those. `ScanResource` is the loop of `FindLatestResource` and `listAdminResourcesWhere`,
`ClosePackages` and `CloseRows` the deferred `rows.Close`, `Abandon` an error or a client
that goes away, at any point. `Others` are the requests that do not nest queries;
transactions hold one connection all along and are one query here. `Grant` and the order
of the queue are pgxpool's.

### `Migrate`

`recorded` is `schema_migrations`, `effects` the files whose statements were committed,
`at` and `pc` each migrator. `Look`, `Body`, `Insert`, `Commit` and `Finish` are the loop
of `applyUpMigrations`; `Insert` waits for a transaction that inserted the version and
fails if it is there, by the primary key. `Fail` is an error, the timeout or a kill; `Start`
runs `cmd/migrate` again. A body that fails because another run has created the same
tables is a `Fail`.

### `MC` modules

Values of the constants: which rows share a channel, the order of versions, hash
buckets of two devices on either side of 50%, percentages outside 1..100; two accounts
with a token each and what their roles grant; a forced and an unavailable offer.

## 4. What the runs show

Every run has a `.cfg` of its name. Passing runs:

| Run | Properties | Instance |
|---|---|---|
| `ReleasesTargets` | `TypeOK`, `SerialCreateTargets`, `RolloutKeepsAudience` | one row, two creations at once that may fail, targets all and one device, two devices with buckets 10 and 70, percentages 0, 50 and 150 |
| `ReleasesPolling` | `NotBeforeSchedule`, `ColumnsAgree`, `WithdrawnStaysWithdrawn`, `WithdrawalReachesDevices`, `BestOfferReachesDevices` | the configured row and another on one channel, one creation, one device, two instants, restarts |
| `ResourcesFailures` | `TypeOK`, `OnlyPublishGoesLive`, `ImplementsCatalogue` | two versions, one device, report and overview with webhook, every step may fail |
| `ResourcesAutomation` | `AutomationBounded` | two versions on one channel, two overviews, two events |
| `ResourcesPolling` | `PackagesNotOlder`, `AuditTruthful`, `ReportStops`, `StoppedLeavesDevices` | one version on two channels, registered up to twice with the device in or out of its range, one report, one device |
| `Access` | `TypeOK`, `ServedHeld`, `ShownHeld`, `DisabledIsOut`, `LockoutIsFinal` | two accounts with tokens, two roles, four grants, two requests, up to three rows a table, both stores |
| `Devices` | `TypeOK`, `RowTrue`, `RowCatchesUp`, `AppUpdates`, `ResourceUpdates`, `AppBlockEnds` | two app versions, two resources (one forced), an unavailable and a forced release, two messages in flight, both stores |
| `Builds` | `TypeOK`, `LastUploadServed`, `OfferSum`, `CopyIsKept`, `LinkReachesDevices` | two numbers, three artifacts, one upload, two registrations, one device, both stores |
| `Migrate` | `TypeOK`, `AppliedOnceInOrder`, `DoneIsComplete`, `RunsComplete` | three migrators, three files |
| `Pool` | `TypeOK`, `NothingLeaks`, `NeverStuck`, `EveryRequestEnds` | three connections, two requests that nest queries and two that do not, two queries each, two rows |

Runs in which TLC finds a statement of the documents broken by what the code does
(each is a finding in `PROJECT.json`, with the line it quotes):

| Run | Statement | What happens |
|---|---|---|
| `ReleasesDisabled` | a disabled app stays disabled | the next poll of a device enables it (`ensureApp`) |
| `BuildsDownload` | an uploaded APK that is released reaches devices | they are told `/api/v1/app/builds/<id>/download`, which no client route serves |

Every property of a passing run has a broken variant of a definition in its module,
listed under `mutants` in `PROJECT.json`, with which TLC finds the property violated.

### Other differences between documents and code

They can be read off a definition of the models, and a run would only repeat it:

- A re-creation of a release that is cut short after its upsert leaves the old rules
  beside the new target, and `Targeted` ORs the two (`admin_postgres.go:405`;
  "支持指定用户、指定设备、测试组和百分比灰度", `docs/app-release-center-spec.md:43`). `SerialCreateTargets`
  says what is left.
- A restart releases the configured row again, a recalled one included (`postgres.go:548`);
  `WithdrawnStaysWithdrawn` excepts it.
- Nothing changes "scheduled" to "released" when the time comes (`admin_postgres.go:352`;
  `docs/app-release-center-spec.md:1331` offers timed publication).
- A failure report that pauses several channels of a version audits one of the rows
  (`postgres.go:447`; `docs/app-release-center-implementation.md:507`).
- The automation pauses the resource of its snapshot whatever it has become
  (`admin_service.go:116`), so a recall may turn into a pause
  (`docs/app-release-center-implementation.md:505` names the statuses it pauses).
- `FindLatestRelease` falls back to the configuration, so a device on `stable` may be
  offered the configured `dev` build, and the configured release is offered even when its
  row is recalled (`WithdrawalReachesDevices` excepts it) or scheduled for later
  (`NotBeforeSchedule` excepts the answer of last resort).
- `Matches` has no case for `user_group`, which the console offers: such a
  release reaches nobody.
- `CreateResourceVersion` replaces the packages of a registered version, and on PostgreSQL
  `CreateBuild` the artifact of a released build
  (`docs/app-release-center-implementation.md:102` and
  `docs/independent-release-center-plan.md:97` say registered artifacts do not change).
- `UpdateResourceStatus` keeps a `published_at` that is set (`admin_postgres.go:566`), so
  rolling back to an older resource while a newer one is live changes no offer
  ("后台将稳定资源指针切回 20260601.2", `docs/app-release-center-spec.md:1704`).
- A forced resource is forced for a device that already runs it (`service.go:65` does not
  look at `hasUpdate`, as line 183 does for apps): its preflight never lets a task run while
  the resource is offered. `AppBlockEnds` excepts it.
- The second upload under a build number is registered with a path that names a build id
  which does not exist (`dangling`), and a registration by link keeps the `storage_key` of
  the upload before it, so the console downloads the old file (`Merged`). The configured
  release, which every start registers, does the same (`postgres.go:528`). The row then has
  the checksum of the link or of the configuration beside the download of the upload:
  `LastUploadServed` speaks of the download always, and of the checksum only while the row
  has the path of an upload.
- A registration that leaves out link or checksum takes it from the configured release;
  `OfferSum` excepts it.
- On `DemoStore` a user or role that is saved twice stays behind its new row, and disabling
  the row the console shows first may leave the other in force (`DisabledIsOut` excepts
  that store).

### Bounds, and why they are enough

- **Rows.** Rows interact only in the order of offers, so two on one line are
  enough for it, and one channel more for the fallback and for a version on two channels.
- **Requests.** Two creations of one row show every pairwise interleaving of their
  three statements; the proof covers any number. Two overviews likewise: they all take the
  same steps. Reports of one version meet only in the update that pauses it, which is
  atomic, so one at a time beside the administrators is enough. Two admin requests are
  one that revokes and one that is under way.
- **`MaxTime`** 2 gives a time before and a time after the schedule. Nothing
  else depends on the distance of two instants. Runs without schedules have one instant.
- **`MaxContents`**, **`MaxEvents`**: a second upload is the first one that replaces
  something; a second event lets a report follow an automatic pause, and the threshold is
  1 so that the alert is reached. The overview reads the last 100 events, far more than
  there are.
- **Percentages.** 100, one value that separates the two devices, and values outside
  the range.
- **`MaxUsers`**, **`MaxRoles`** 3: one row more than the seed, so that a key is saved a
  second time on `DemoStore`, where rows are added. **`MaxEntries`** 1: no authorisation
  reads entries.
- **`Ranges`**: two values in `ResourcesPolling`, none and all of the devices, so that a
  second registration takes the version from the device that holds it or gives it back;
  the other two resource runs have one.
- **`InFlight`** 2: the request that is handled last and one that overtook it. The network
  drops a message for a new one, which is one of the losses it may inflict anyway.
- **`MaxBuilds`** 2: a second registration is the first one that replaces a row. It bounds
  registrations, not files, restarts, releases or polls.
- **Migrators, files**: three migrators show one that waits for another while a third
  starts; the third file follows one that was skipped and one that was applied.
- **`MaxQueries`**, **`MaxRows`** 2: a request that comes back to the queue after its first
  query, and a second row after packages were closed. Three connections with two nesting
  requests is the least number for which `Enough` holds; the proof covers any.
- **`Failures = FALSE`** in `ResourcesAutomation` and `ResourcesPolling`:
  `AutomationBounded` and `ReportStops` hold only of requests that reach their end (see
  their hazards in `PROJECT.json`). Failing requests are the subject of
  `ResourcesFailures`.

### Fairness, and why the code justifies it

Only liveness properties assume any. No administrator, restart, failure or start of a
creation, report, overview, upload or migrator has to happen.

- `Releases`: a creation that started runs on (a goroutine waits for nothing but the
  database); a device polls again and again (weak fairness of `CheckFind`), and a poll it
  repeats is answered in the end although restarts may cut some of them (strong fairness
  of `CheckAnswer`, because `Restart` takes the step back); time passes.
- `Resources`: a report past its event runs on, a device polls. No step takes a poll
  back except its own failure, which is an answer too ("no update", `service.go:59`), so
  weak fairness of the whole poll is enough. `ReportStops` speaks of reports that are
  not cut short; its run has no failures.
- `Devices`: the client of the app asks at intervals (weak fairness of each `Ask`), and a
  network that may lose or delay any message does not lose all of them for ever (strong
  fairness of the handlers); an update offered again and again is installed in the end. A
  call is not repeated for ever: each request and event in flight is lost in the end (weak
  fairness of `Lose`), as a client stops retrying. No event needs to arrive: the heartbeat
  alone makes the row catch up. `RowCatchesUp` asks that `DemoStore` does not forget the
  row for ever.
- `Builds`: a device polls and fetches.
- `Migrate`: a migrator that runs takes its next step, each a call that returns or times
  out. Nobody has to start one; `RunsComplete` asks that somebody does and that runs are
  not cut off for ever.
- `Pool`: pgxpool hands out connections that are free, and a goroutine that has one goes on.
  No client needs to give up, and none has to come.

## 5. What is proved

All theorems hold for any values of the constants that satisfy the assumptions of the
module (`ASSUME`, evaluated by every run): any sets of rows, devices, requests, accounts,
artifacts, connections, migrators, and any bounds. Each rests on an inductive invariant
with one lemma or step per action.

| Module | Theorems | The invariant beyond the property, and why it is needed |
|---|---|---|
| `ReleasesProofs` | `TypeCorrect`, `Inductive`, `ScheduleHolds`, `ColumnsAgreeHolds`, `SerialCreateIsExact`, `WithdrawnStays`, `RolloutKeeps` | see below |
| `ResourcesProofs` | `TypeOKHolds`, `OnlyPublishGoesLiveHolds`, `AuditTruthfulHolds`, `PackagesNotOlderHolds`, `AutomationBoundedHolds`, `ImplementsCatalogueHolds`, `LookupDecidedHolds` | a report about to audit names a stopped row (`AuditInv`); a check under way holds no more packages than its row (`PackagesInv`); ranks are at most the number of published rows, so that `NextRank` is above them all (`RanksInv`); the target of an overview is a row that exists (`TargetInv`), so that its pause maps to `Withdraw`; without failures, pauses done and pauses about to be done are together no more than the overviews, and until the first audit is written every pause done belongs to an overview about to write it (`AutomationInv`) |
| `CatalogueProofs` | `DecidedHolds` | a live entry has a place in the order and no two entries share one (`Order`) |
| `AccessProofs` | `TypeOKHolds`, `ServedHeldHolds`, `ShownHeldHolds`, `DisabledIsOutHolds`, `LockoutIsFinalHolds` | what the account of a request holds now is recorded (`HeldNow`); on PostgreSQL the tables have one row per account and per role code (`OneRow`), which the seed has by `KeysAssumption` and every upsert keeps |
| `DevicesProofs` | `TypeOKHolds`, `RowTrueHolds`, `NothingWithheldHolds` | every request and every success in flight names versions the device has run (`Truthful`), and no check names an app version above the one the device runs now (`NotAhead`) |
| `BuildsProofs` | `Inductive`, `TypeOKHolds`, `LastUploadServedHolds`, `OfferSumHolds`, `CopyIsKeptHolds` | an upload under way has its file; a row with a path names a file with its checksum (`Stored`); the `storage_key` of a row is the upload registered last (`KeyOf`), because what is merged over it keeps it or brings the next one (`KeysKept`), and a key has its file (`KeysFiled`); link and checksum of every row, copy and offer are of one artifact or one is the configured one (`Paired`) |
| `PoolProofs` | `Inductive`, `TypeOKHolds`, `NothingLeaksHolds`, `NeverStuckHolds` | a request waits in the queue once; it holds none, one or two connections by what it is about (`HoldsOK`); only `Resources` nest (`Nested`). If all connections were held by waiting requests, each would be held by a different request of `Resources`, against `Enough` |
| `MigrateProofs` | `Inductive`, `TypeOKHolds`, `AppliedOnceInOrderHolds`, `DoneIsCompleteHolds` | the recorded versions are a prefix (`Prefix`), a migrator has passed only recorded ones (`Behind`), and one open transaction at most has inserted a version, none a recorded one (`OneInserter`) |

`IInv` of `ReleasesProofs` is `TypeOK` with two groups of conjuncts.

- *Dates.* `NotBeforeSchedule` speaks of the step of a query. What makes it true is a fact
  about the row it finds: a scheduled row keeps the date in `published_at` (`DueKept`) until
  it is created again. A due row that is absent would be dated by the first restart, hence
  `AbsentForAll`. The parts of `ColumnsAgree`
  are inductive beside it.
- *Audience.* `SerialCreateTargets` speaks of quiet moments. Between them, a row that is
  clean has at most one request (`OneCreate`); the row carries the target of this request,
  and no rules are left once they were deleted (`CreateOwnsRow`); with no request, the
  rules name the target of the row and nothing else (`RulesFollowTarget`). A request that
  meets another one on its row, or is cut, makes the row unclean until the next creation
  that starts alone.

The preservation proof first says what each action does to one row (`RowStep`: kept,
created again, published, withdrawn, rolled, or revived by the restart), then proves the dates
from that alone, and the audience with one lemma per statement of `CreateRelease`. The
other two action properties follow from the same row steps and the type invariant.

`ImplementsCatalogueHolds` shows that the initial states of `Resources` map to those of
`Catalogue` and that every step maps to a step or a stutter, one lemma per action; it uses
`TypeOK`, `RanksInv` and `TargetInv`.

Two theorems state what no run checks by itself. `NothingWithheldHolds` is the safety beside
`AppUpdates`: a check that is turned away, however late, comes from a device that runs the
offer or more.

`LookupDecidedHolds` is proved of `Catalogue` and carried down. `FindLatestResource`
returns the first of the rows it orders by `published_at`, then `created_at`; that the
first key alone decides needs that two live rows never share it, after any sequence of
registrations, publications and withdrawals, which is a matter of the order of publication
and not of queries. `CatalogueProofs` shows it for any finite set of entries (a finite set
has a greatest number because the strict subsets of a finite set are well-founded, which
the library proves; no induction theorem with an operator parameter is used), and
`ResourcesProofs` obtains it for the rows by `ImplementsCatalogueHolds`.

`AutomationBoundedHolds` has the hypothesis `~Failures`. It is needed: an overview whose
pause is done and whose audit is not written leaves the next one to pause again, so with
failures every further request may add one. Its run has the same constant.

`KeysAssumption` of `Access` says that no two rows of the seed share an account or a role
code, as the unique constraints of `src/internal/migrations/000002_system_management_schema.up.sql`
have it. `DisabledIsOut` fails on `DemoStore`, where a second save adds a row, and says so.

Checked by TLC only: the liveness properties `WithdrawalReachesDevices`,
`BestOfferReachesDevices`, `ReportStops`, `StoppedLeavesDevices`, `RowCatchesUp`,
`AppUpdates`, `ResourceUpdates`, `AppBlockEnds`, `LinkReachesDevices`, `RunsComplete` and
`EveryRequestEnds` (fairness and ENABLED are beyond the prover). Every invariant and every
action property of a passing run is also a theorem.

## 6. What is not modelled, and why

- Notes, titles, messages, sizes and addresses: no decision reads them.
- Audits other than the three the automation and its properties depend on.
- ZIP validation, checksums, signatures, HTTP decoding and encoding: byte handling without
  a protocol. The order of file and row is part of `Builds`.
- Rates, reasons and the window of the quality metrics: arithmetic over free text.
  `Resources` keeps the threshold and what follows from an alert.
- Resources of `DemoStore`, and its releases beyond `Builds`: one mutex makes every
  operation of it atomic, so nothing interleaves.
- CI webhooks: stored as they arrive and listed; nothing acts on them.
- Status, error and last-seen columns of installations: shown, never read by a decision.
- The web console and `releasectl`: clients, covered by what the administrators of the
  modules may ask.
- `hashtext`: a fixed bucket per device. Its one value without an absolute value makes
  the query fail, which is `CheckFindFails`.
- Several apps: the service is configured with one, and devices ask for it.
  CI may name another, whose rows meet those of the first nowhere.
- A server without an admin token serves every request unasked; `Access` models one with
  tokens.

## 7. Running it

    tlc -workers 2 -config ReleasesTargets.cfg MCReleases
    tlc -workers 2 -config ReleasesPolling.cfg MCReleases
    tlc -workers 2 -config ResourcesFailures.cfg MCResources
    tlc -workers 2 -config Access.cfg MCAccess
    tlc -workers 2 -config Devices.cfg MCDevices
    tlc -workers 2 -config Builds.cfg MCBuilds
    tlc -workers 2 -config Migrate.cfg MCMigrate
    tlc -workers 2 -config Pool.cfg MCPool
    tlapm ReleasesProofs.tla

and likewise for the other configurations and the other proof modules. The longest run
takes about three minutes.
