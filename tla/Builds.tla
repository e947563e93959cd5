------------------------------- MODULE Builds -------------------------------
(***************************************************************************)
(* From an APK to a device: artifacts are saved as files or named by a     *)
(* link, registered as builds under their build numbers, released, offered *)
(* and fetched.                                                            *)
(*                                                                         *)
(* An upload is two steps, the file and then the row.  A registration      *)
(* under a known number is written over the row there is.  A release of    *)
(* PostgresStore shows its build as it is at the moment of the query, one  *)
(* of DemoStore the copy it took when it was created.                      *)
(*                                                                         *)
(* An artifact stands for its content, and so for its SHA-256; those who   *)
(* register one state its version code.  There is one app, channel and     *)
(* build type here, and the devices are in every rollout: schedules,       *)
(* targets and percentages are the subject of Releases.                    *)
(***************************************************************************)
EXTENDS Integers

CONSTANTS
    Artifacts,    \* the contents of APK files
    NoArtifact,
    CodeOf,       \* the version code of each artifact
    Built,        \* the artifacts that are uploaded or registered
    Numbers,      \* build numbers
    Stores,       \* the stores the server may be configured with
    SeedNumber,   \* the build and the release NewDemoStore begins with
    SeedArtifact,
    EnvNumber,    \* the configured release: BUILD_NUMBER, and the artifact of
    EnvArtifact,  \*   LATEST_VERSION_CODE, DOWNLOAD_URL and SHA256
    Uploads,      \* uploads in flight at once
    Devices,
    MaxBuilds     \* bound on the registrations

ASSUME BuildsAssumption ==
    /\ NoArtifact \notin Artifacts
    /\ CodeOf \in [Artifacts -> Nat \ {0}]
    /\ SeedNumber \in Numbers /\ EnvNumber \in Numbers /\ Numbers \subseteq Nat \ {0}
    /\ Built \subseteq Artifacts
    /\ SeedArtifact \in Artifacts /\ EnvArtifact \in Artifacts
    /\ Stores \subseteq {"postgres", "demo"}
    /\ MaxBuilds \in Nat

VARIABLES
    store,      \* which store the server is configured with
    files,      \* the artifacts of the files under FILE_ROOT
    builds,     \* app_builds by build number
    releases,   \* app_releases by the number of their build
    upload,     \* uploads between the file and the row
    offer,      \* the offer each device is about to fetch
    installed,  \* the artifact each device runs
    made,       \* how many registrations there were
    last        \* history: the upload registered last under each number

vars == <<store, files, builds, releases, upload, offer, installed, made, last>>

Absent == [url |-> "absent"]
Idle == [number |-> 0]
NoOffer == [url |-> "none"]

(* An artifact_path is a link to an artifact or the path of the download   *)
(* of a build: of its own row, or of the row that a registration under a   *)
(* known number was not inserted as.                                       *)
Urls == {"link", "path", "dangling"}

(* What a device is told of an artifact, and the build row around it       *)
Datum == [url: Urls, to: Artifacts \cup {NoArtifact}, code: Nat, sum: Artifacts]
Build == [url: Urls, to: Artifacts \cup {NoArtifact}, code: Nat, sum: Artifacts,
          key: Artifacts \cup {NoArtifact}]
Statuses == {"absent", "draft", "released", "rolling_out", "withdrawn"}

TypeOK ==
    /\ store \in Stores
    /\ files \subseteq Artifacts
    /\ builds \in [Numbers -> {Absent} \cup Build]
    /\ releases \in [Numbers -> [status: Statuses, copy: {Absent} \cup Datum]]
    /\ \A n \in Numbers :
          releases[n].status # "absent" =>
             builds[n] # Absent /\ (store = "demo" => releases[n].copy # Absent)
    /\ upload \in [Uploads -> {Idle} \cup [number: Numbers, artifact: Artifacts]]
    /\ offer \in [Devices -> {NoOffer} \cup Datum]
    /\ installed \in [Devices -> Artifacts]
    /\ made \in 0 .. MaxBuilds
    /\ last \in [Numbers -> Artifacts \cup {NoArtifact}]

-----------------------------------------------------------------------------
(* Rows.  A definition with a suffix is a broken variant of the one it is  *)
(* named after, which makes the property in its comment fail.              *)

Linked(a, sum) == [url |-> "link", to |-> a, code |-> CodeOf[a], sum |-> sum, key |-> NoArtifact]

(* The row a multipart request registers, and that of a JSON request: what *)
(* it does not say is taken from the configuration.                        *)
Uploaded(n, a) ==
    [url |-> IF builds[n] = Absent THEN "path" ELSE "dangling",
     to |-> NoArtifact, code |-> CodeOf[a], sum |-> a, key |-> a]

Registered(a, linked, summed) ==
    [Linked(a, IF summed THEN a ELSE EnvArtifact)
        EXCEPT !.to = IF linked THEN a ELSE EnvArtifact]

(* LastUploadServed: the metadata are merged the other way round.          *)
Merged_Old(old, new) ==
    IF old = Absent \/ old.key = NoArtifact THEN new ELSE [new EXCEPT !.key = old.key]

(* OfferSum: artifact_path is not among the columns that are replaced.     *)
Merged_KeepsPath(old, new) ==
    IF old = Absent THEN new
    ELSE [new EXCEPT !.url = old.url, !.to = old.to,
                     !.key = IF new.key = NoArtifact THEN old.key ELSE new.key]

(* on conflict (app_id, build_number): every column is replaced, and the   *)
(* metadata keep a storage_key the new ones do not have.                   *)
Merged(old, new) ==
    IF old # Absent /\ new.key = NoArtifact THEN [new EXCEPT !.key = old.key] ELSE new

(* DemoStore replaces the record.                                          *)
Upsert(n, new) ==
    builds' = [builds EXCEPT ![n] = IF store = "postgres" THEN Merged(@, new) ELSE new]

DatumOf(b) == [url |-> b.url, to |-> b.to, code |-> b.code, sum |-> b.sum]

(* CopyIsKept: DemoStore shows the build, too.                             *)
Data_Joined(n) == DatumOf(builds[n])

Data(n) == IF store = "postgres" THEN DatumOf(builds[n]) ELSE releases[n].copy

IsLive(n) == releases[n].status \in {"released", "rolling_out"}

Best(n) ==
    /\ IsLive(n)
    /\ \A m \in Numbers :
          IsLive(m) => \/ Data(n).code > Data(m).code
                       \/ Data(n).code = Data(m).code /\ n >= m

(* The configuration as an offer                                           *)
Configured == DatumOf(Linked(EnvArtifact, EnvArtifact))

-----------------------------------------------------------------------------
(* The admin and CI endpoints                                              *)

(* The file of an upload, whatever becomes of the request                  *)
Save(u, n, a) ==
    /\ upload[u] = Idle
    /\ files' = files \cup {a}
    /\ upload' = [upload EXCEPT ![u] = [number |-> n, artifact |-> a]]
    /\ UNCHANGED <<store, builds, releases, offer, installed, made, last>>

(* The row of an upload                                                    *)
Register(u) ==
    /\ upload[u] # Idle /\ made < MaxBuilds
    /\ Upsert(upload[u].number, Uploaded(upload[u].number, upload[u].artifact))
    /\ upload' = [upload EXCEPT ![u] = Idle]
    /\ made' = made + 1
    /\ last' = [last EXCEPT ![upload[u].number] = upload[u].artifact]
    /\ UNCHANGED <<store, files, releases, offer, installed>>

UploadFails(u) ==
    /\ upload[u] # Idle
    /\ upload' = [upload EXCEPT ![u] = Idle]
    /\ UNCHANGED <<store, files, builds, releases, offer, installed, made, last>>

(* A build registered without its file, by the console or by CI            *)
CreateBuild(n, a, linked, summed) ==
    /\ made < MaxBuilds
    /\ Upsert(n, Registered(a, linked, summed))
    /\ made' = made + 1
    /\ UNCHANGED <<store, files, releases, upload, offer, installed, last>>

(* TypeOK: the build is not looked up.                                     *)
CreateRelease_NoBuild(n) ==
    /\ releases' = [releases EXCEPT ![n] = [@ EXCEPT !.status = "draft"]]
    /\ UNCHANGED <<store, files, builds, upload, offer, installed, made, last>>

(* A release that exists is a draft again.                                 *)
CreateRelease(n) ==
    /\ builds[n] # Absent
    /\ releases' = [releases EXCEPT ![n] =
          [status |-> "draft",
           copy |-> IF store = "demo" THEN DatumOf(builds[n]) ELSE Absent]]
    /\ UNCHANGED <<store, files, builds, upload, offer, installed, made, last>>

(* Publish and rollback; pause, recall and unpublish, which only Releases   *)
(* has to tell apart.                                                      *)
ReleaseAction(n, status) ==
    /\ releases[n].status # "absent"
    /\ releases' = [releases EXCEPT ![n].status = status]
    /\ UNCHANGED <<store, files, builds, upload, offer, installed, made, last>>

UpdateReleaseRollout(n) ==
    /\ releases[n].status = "released"
    /\ releases' = [releases EXCEPT ![n].status = "rolling_out"]
    /\ UNCHANGED <<store, files, builds, upload, offer, installed, made, last>>

-----------------------------------------------------------------------------
(* Downloads of the console; NoArtifact is the answer 404.                 *)

Opened(key) == IF key \in files THEN key ELSE NoArtifact

DownloadBuild(n) ==
    IF store = "postgres" /\ builds[n] # Absent THEN Opened(builds[n].key) ELSE NoArtifact

(* Without a file, the client is sent to the address of the release.       *)
DownloadRelease(n) ==
    IF releases[n].status = "absent" THEN NoArtifact
    ELSE IF store = "postgres" /\ builds[n].key # NoArtifact THEN Opened(builds[n].key)
    ELSE Data(n).to

-----------------------------------------------------------------------------
(* Devices.  The routes of the client have no download of a build, so that *)
(* only a link can be fetched.  A device installs what has the announced   *)
(* checksum and is not older than what it runs.                            *)

(* LinkReachesDevices: the highest build number is offered.                *)
Offered_ByNumber ==
    {Data(n) : n \in {m \in Numbers : IsLive(m) /\ \A k \in Numbers : IsLive(k) => m >= k}}

(* FindLatestRelease                                                       *)
Offered == {Data(n) : n \in {m \in Numbers : Best(m)}}

Check(d) ==
    /\ offer[d] = NoOffer
    /\ \E found \in IF Offered = {} THEN {Configured} ELSE Offered :
          /\ found.code > CodeOf[installed[d]]
          /\ offer' = [offer EXCEPT ![d] = found]
    /\ UNCHANGED <<store, files, builds, releases, upload, installed, made, last>>

ClientServes(url) == url = "link"

Installs(d, o) ==
    /\ ClientServes(o.url)
    /\ o.to = o.sum
    /\ CodeOf[o.to] >= CodeOf[installed[d]]

Fetch(d) ==
    /\ offer[d] # NoOffer
    /\ installed' = [installed EXCEPT ![d] = IF Installs(d, offer[d]) THEN offer[d].to ELSE @]
    /\ offer' = [offer EXCEPT ![d] = NoOffer]
    /\ UNCHANGED <<store, files, builds, releases, upload, made, last>>

-----------------------------------------------------------------------------
(* The start of the server                                                 *)

Nothing == [n \in Numbers |-> Absent]
NoReleases == [n \in Numbers |-> [status |-> "absent", copy |-> Absent]]
Seed == [Nothing EXCEPT ![SeedNumber] = Linked(SeedArtifact, SeedArtifact)]
SeedReleases ==
    [NoReleases EXCEPT ![SeedNumber] =
        [status |-> "released", copy |-> DatumOf(Linked(SeedArtifact, SeedArtifact))]]

(* EnsureConfiguredRelease of PostgresStore writes over the rows it finds, *)
(* that of DemoStore leaves them.                                          *)
EnsureBuild(old, b) ==
    [b EXCEPT ![EnvNumber] =
        IF old = "postgres" THEN Merged(@, Linked(EnvArtifact, EnvArtifact))
        ELSE IF @ = Absent THEN Linked(EnvArtifact, EnvArtifact) ELSE @]

EnsureRelease(old, r) ==
    [r EXCEPT ![EnvNumber] =
        IF old = "postgres" THEN [@ EXCEPT !.status = "released"]
        ELSE IF @.status = "absent" THEN [status |-> "released", copy |-> Configured] ELSE @]

Restart ==
    /\ builds' = EnsureBuild(store, IF store = "postgres" THEN builds ELSE Seed)
    /\ releases' = EnsureRelease(store, IF store = "postgres" THEN releases ELSE SeedReleases)
    /\ upload' = [u \in Uploads |-> Idle]
    /\ UNCHANGED <<store, files, offer, installed, made, last>>

Init ==
    /\ store \in Stores
    /\ files = {}
    /\ builds = EnsureBuild(store, IF store = "postgres" THEN Nothing ELSE Seed)
    /\ releases = EnsureRelease(store, IF store = "postgres" THEN NoReleases ELSE SeedReleases)
    /\ upload = [u \in Uploads |-> Idle]
    /\ offer = [d \in Devices |-> NoOffer]
    /\ installed = [d \in Devices |-> SeedArtifact]
    /\ made = 0
    /\ last = [n \in Numbers |-> NoArtifact]

-----------------------------------------------------------------------------
Next ==
    \/ \E u \in Uploads, n \in Numbers, a \in Built : Save(u, n, a)
    \/ \E u \in Uploads : Register(u) \/ UploadFails(u)
    \/ \E n \in Numbers, a \in Built, linked \in BOOLEAN, summed \in BOOLEAN :
          CreateBuild(n, a, linked, summed)
    \/ \E n \in Numbers : CreateRelease(n) \/ UpdateReleaseRollout(n)
    \/ \E n \in Numbers, status \in {"released", "withdrawn"} : ReleaseAction(n, status)
    \/ \E d \in Devices : Check(d) \/ Fetch(d)
    \/ Restart

Spec == Init /\ [][Next]_vars

(* A device polls again and again and fetches what it is offered.          *)
Fairness == \A d \in Devices : WF_vars(Check(d)) /\ WF_vars(Fetch(d))

FairSpec == Spec /\ Fairness

-----------------------------------------------------------------------------
(* Properties                                                              *)

(* On PostgresStore the upload registered last under a number is what the  *)
(* console downloads for its build and its release, whatever came of other *)
(* uploads, of registrations by link and of restarts after it.  Its        *)
(* checksum is that of the row as long as the row has its path.  A link    *)
(* registered over it, or the configured release written over it at a      *)
(* start, leaves the download as it is and brings a checksum of its own.   *)
LastUploadServed ==
    store = "postgres" =>
        \A n \in Numbers :
            /\ DownloadBuild(n) = last[n]
            /\ releases[n].status # "absent" /\ last[n] # NoArtifact => DownloadRelease(n) = last[n]
            /\ builds[n].url \in {"path", "dangling"} => builds[n].sum = last[n]

(* An offer never pairs the link of one artifact with the checksum of      *)
(* another, unless a registration left one of them to the configuration.   *)
OfferSum ==
    \A d \in Devices :
        offer[d] # NoOffer /\ offer[d].url = "link" =>
            offer[d].to = offer[d].sum \/ EnvArtifact \in {offer[d].to, offer[d].sum}

(* In DemoStore a release is not changed by registrations under the number *)
(* of its build: what it shows changes only when it is created again, as a *)
(* draft, or the server starts.                                            *)
CopyIsKept ==
    [][\A n \in Numbers :
          store = "demo" /\ IsLive(n) /\ ~Restart /\ releases'[n].status # "draft" =>
              Data(n)' = Data(n)]_vars

(* A release that stays the one to offer, with a link to what it announces *)
(* and its checksum, reaches every device.                                 *)
Sound(n) == Data(n).url = "link" /\ Data(n).to = Data(n).sum /\ Data(n).code = CodeOf[Data(n).to]

LinkReachesDevices ==
    \A d \in Devices, a \in Artifacts :
        <>[](\E n \in Numbers : Best(n) /\ Sound(n) /\ Data(n).to = a)
            => <>[](CodeOf[installed[d]] >= CodeOf[a])

(* The same of an artifact that was uploaded to the server: the devices    *)
(* are told a path of the server that no route of theirs serves.           *)
UploadReachesDevices ==
    \A d \in Devices, a \in Artifacts :
        <>[](\E n \in Numbers : Best(n) /\ Data(n).url = "path" /\ Data(n).sum = a)
            => <>[](CodeOf[installed[d]] >= CodeOf[a])
=============================================================================
