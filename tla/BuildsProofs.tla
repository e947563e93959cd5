---------------------------- MODULE BuildsProofs ----------------------------
(***************************************************************************)
(* Builds, for any sets of artifacts, numbers, uploads and devices: what   *)
(* the console downloads, what devices are offered and what a release of   *)
(* DemoStore shows.                                                        *)
(*                                                                         *)
(* LastUploadServed and OfferSum are not inductive.  The first one needs   *)
(* that the file of an upload is there before its row, and that the row    *)
(* keeps the key of the last upload, whatever is registered over it; the   *)
(* second one, that rows and copies pair links with checksums as offers do.*)
(***************************************************************************)
EXTENDS Builds, TLAPS

(* A link goes with its checksum, or one of them is configured.            *)
Paired(o) == o.url = "link" => o.to = o.sum \/ EnvArtifact \in {o.to, o.sum}

(* A build that was uploaded has its file.                                 *)
Stored(b, saved) == b.url \in {"path", "dangling"} => b.key = b.sum /\ b.key \in saved

Sums ==
    /\ \A u \in Uploads : upload[u] # Idle => upload[u].artifact \in files
    /\ \A n \in Numbers : Stored(builds[n], files) /\ Paired(builds[n])
    /\ \A n \in Numbers : Paired(releases[n].copy)
    /\ \A d \in Devices : Paired(offer[d])

IInv == TypeOK /\ Sums

-----------------------------------------------------------------------------
(* Rows                                                                    *)

Rows == {Absent} \cup Build
Copies == {Absent} \cup Datum
GoodRow(b, saved) == b \in Rows /\ Stored(b, saved) /\ Paired(b)

LEMMA EnvRow ==
    /\ Linked(EnvArtifact, EnvArtifact) \in Build
    /\ Linked(SeedArtifact, SeedArtifact) \in Build
    /\ \A saved : Stored(Linked(EnvArtifact, EnvArtifact), saved)
    /\ \A saved : Stored(Linked(SeedArtifact, SeedArtifact), saved)
    /\ Paired(Linked(EnvArtifact, EnvArtifact))
    /\ Paired(Linked(SeedArtifact, SeedArtifact))
BY BuildsAssumption DEF Linked, Build, Urls, Stored, Paired

(* Merging keeps the key of the old row only for a link.                   *)
LEMMA MergedSound ==
    ASSUME NEW saved, NEW old \in Rows, NEW new \in Build, Stored(new, saved), Paired(new),
           saved \subseteq Artifacts
    PROVE  GoodRow(Merged(old, new), saved) /\ Merged(old, new) \in Build
<1>1. CASE old # Absent /\ new.key = NoArtifact
  <2>1. old \in Build /\ Merged(old, new) = [new EXCEPT !.key = old.key]
    BY <1>1 DEF Merged, Rows
  <2>2. Merged(old, new) \in Build
    BY <2>1 DEF Build
  <2>3. new.url = "link"
    BY <1>1, BuildsAssumption DEF Stored, Build, Urls
  <2>4. QED
    BY <2>1, <2>2, <2>3 DEF Build, GoodRow, Stored, Paired, Rows
<1>2. CASE ~(old # Absent /\ new.key = NoArtifact)
  BY <1>2 DEF Merged, GoodRow, Rows
<1>3. QED
  BY <1>1, <1>2

LEMMA DatumTyped ==
    ASSUME NEW b \in Build, Paired(b)
    PROVE  DatumOf(b) \in Datum /\ Paired(DatumOf(b)) /\ DatumOf(b) # Absent
BY DEF DatumOf, Build, Datum, Paired, Absent, Urls

LEMMA UpsertKeeps ==
    ASSUME IInv, NEW n \in Numbers, NEW new \in Build, Stored(new, files), Paired(new),
           Upsert(n, new)
    PROVE  /\ builds' \in [Numbers -> Rows]
           /\ \A k \in Numbers : Stored(builds'[k], files) /\ Paired(builds'[k])
           /\ \A k \in Numbers : builds[k] # Absent => builds'[k] # Absent
           /\ builds'[n] # Absent
<1>1. builds \in [Numbers -> Rows] /\ files \subseteq Artifacts
  BY DEF IInv, TypeOK, Rows
<1>2. \A b \in Build : b # Absent
  BY DEF Build, Absent, Urls
<1>3. builds[n] \in Rows
  BY <1>1
<1>4. GoodRow(Merged(builds[n], new), files) /\ Merged(builds[n], new) \in Build
  BY <1>1, <1>3, MergedSound
<1>5. DEFINE value == IF store = "postgres" THEN Merged(builds[n], new) ELSE new
<1>6. builds' = [builds EXCEPT ![n] = value]
  BY <1>1 DEF Upsert
<1>7. value \in Build /\ Stored(value, files) /\ Paired(value)
  BY <1>4 DEF GoodRow
<1>8. \A k \in Numbers : Stored(builds[k], files) /\ Paired(builds[k])
  BY DEF IInv, Sums
<1>9. QED
  BY <1>1, <1>2, <1>6, <1>7, <1>8 DEF Rows

-----------------------------------------------------------------------------
(* Steps.  The invariant has a part for each variable, and most steps      *)
(* leave most parts alone.                                                 *)

Others == <<store, files, releases, offer, installed>>

LEMMA SaveKeeps ==
    ASSUME IInv, NEW u \in Uploads, NEW n \in Numbers, NEW a \in Built, Save(u, n, a)
    PROVE  IInv'
<1>1. a \in Artifacts /\ files' = files \cup {a}
  BY BuildsAssumption DEF Save
<1>2. upload' = [upload EXCEPT ![u] = [number |-> n, artifact |-> a]]
  BY DEF Save
<1>3. TypeOK'
  BY <1>1, <1>2 DEF IInv, TypeOK, Save
<1>4. \A w \in Uploads : upload'[w] # Idle => upload'[w].artifact \in files'
  BY <1>1, <1>2 DEF IInv, TypeOK, Sums
<1>5. QED
  BY <1>1, <1>3, <1>4 DEF IInv, Sums, Save, Stored, Paired

LEMMA RegistrationKeeps ==
    ASSUME IInv, NEW n \in Numbers, NEW new \in Build, Stored(new, files), Paired(new),
           Upsert(n, new), made < MaxBuilds, made' = made + 1,
           UNCHANGED Others, last' \in [Numbers -> Artifacts \cup {NoArtifact}],
           \A u \in Uploads : upload'[u] \in {upload[u], Idle},
           upload' \in [Uploads -> {Idle} \cup [number: Numbers, artifact: Artifacts]]
    PROVE  IInv'
<1>1. /\ builds' \in [Numbers -> Rows]
      /\ \A k \in Numbers : Stored(builds'[k], files) /\ Paired(builds'[k])
      /\ \A k \in Numbers : builds[k] # Absent => builds'[k] # Absent
  BY UpsertKeeps
<1>2. made' \in 0 .. MaxBuilds
  BY BuildsAssumption DEF IInv, TypeOK
<1>3. TypeOK'
  BY <1>1, <1>2 DEF IInv, TypeOK, Others, Rows
<1>4. QED
  BY <1>1, <1>3 DEF IInv, Sums, Others, Stored, Paired

LEMMA RegisterKeeps ==
    ASSUME IInv, NEW u \in Uploads, Register(u)
    PROVE  IInv'
<1> DEFINE n == upload[u].number
           a == upload[u].artifact
<1>1. n \in Numbers /\ a \in Artifacts /\ a \in files
  BY DEF IInv, TypeOK, Sums, Register
<1>2. Uploaded(n, a) \in Build /\ Stored(Uploaded(n, a), files) /\ Paired(Uploaded(n, a))
  BY <1>1, BuildsAssumption DEF Uploaded, Build, Urls, Stored, Paired
<1>3. upload' = [upload EXCEPT ![u] = Idle]
  BY DEF Register
<1>4. /\ \A w \in Uploads : upload'[w] \in {upload[w], Idle}
      /\ upload' \in [Uploads -> {Idle} \cup [number: Numbers, artifact: Artifacts]]
      /\ last' \in [Numbers -> Artifacts \cup {NoArtifact}]
  BY <1>1, <1>3 DEF IInv, TypeOK, Register
<1>5. /\ Upsert(n, Uploaded(n, a)) /\ made < MaxBuilds /\ made' = made + 1
      /\ UNCHANGED Others
  BY DEF Register, Others
<1>6. QED
  BY <1>1, <1>2, <1>4, <1>5, RegistrationKeeps

LEMMA CreateBuildKeeps ==
    ASSUME IInv, NEW n \in Numbers, NEW a \in Built, NEW linked \in BOOLEAN,
           NEW summed \in BOOLEAN, CreateBuild(n, a, linked, summed)
    PROVE  IInv'
<1> DEFINE new == Registered(a, linked, summed)
<1>1. new \in Build /\ Stored(new, files) /\ Paired(new)
  BY BuildsAssumption DEF Registered, Linked, Build, Urls, Stored, Paired
<1>2. /\ \A w \in Uploads : upload'[w] \in {upload[w], Idle}
      /\ upload' \in [Uploads -> {Idle} \cup [number: Numbers, artifact: Artifacts]]
      /\ last' \in [Numbers -> Artifacts \cup {NoArtifact}]
  BY DEF CreateBuild, IInv, TypeOK
<1>3. /\ Upsert(n, new) /\ made < MaxBuilds /\ made' = made + 1
      /\ UNCHANGED Others
  BY DEF CreateBuild, Others
<1>4. QED
  BY <1>1, <1>2, <1>3, RegistrationKeeps

LEMMA UploadFailsKeeps ==
    ASSUME IInv, NEW u \in Uploads, UploadFails(u)
    PROVE  IInv'
<1>1. upload' = [upload EXCEPT ![u] = Idle]
  BY DEF UploadFails
<1>2. TypeOK'
  BY <1>1 DEF IInv, TypeOK, UploadFails
<1>3. \A w \in Uploads : upload'[w] # Idle => upload'[w].artifact \in files
  BY <1>1 DEF IInv, TypeOK, Sums
<1>4. QED
  BY <1>2, <1>3 DEF IInv, Sums, UploadFails, Stored, Paired

(* A release step sets the row of a build that is there.                   *)
LEMMA ReleaseStepKeeps ==
    ASSUME IInv, NEW n \in Numbers, builds[n] # Absent,
           NEW status \in Statuses, NEW copy \in Copies, Paired(copy),
           store = "demo" => copy # Absent,
           releases' = [releases EXCEPT ![n] = [status |-> status, copy |-> copy]],
           UNCHANGED <<store, files, builds, upload, offer, installed, made, last>>
    PROVE  IInv'
<1>1. TypeOK'
  BY DEF IInv, TypeOK, Copies
<1>2. \A k \in Numbers : Paired(releases'[k].copy)
  BY DEF IInv, TypeOK, Sums
<1>3. QED
  BY <1>1, <1>2 DEF IInv, Sums, Stored, Paired

LEMMA CreateReleaseKeeps ==
    ASSUME IInv, NEW n \in Numbers, CreateRelease(n)
    PROVE  IInv'
<1> DEFINE copy == IF store = "demo" THEN DatumOf(builds[n]) ELSE Absent
<1>1. builds[n] \in Build /\ Paired(builds[n])
  BY DEF IInv, TypeOK, Sums, CreateRelease
<1>2. DatumOf(builds[n]) \in Datum /\ Paired(DatumOf(builds[n])) /\ DatumOf(builds[n]) # Absent
  BY <1>1, DatumTyped
<1>3. copy \in Copies /\ Paired(copy) /\ (store = "demo" => copy # Absent)
  BY <1>2 DEF Copies, Paired, Absent
<1>4. /\ "draft" \in Statuses /\ builds[n] # Absent
      /\ releases' = [releases EXCEPT ![n] = [status |-> "draft", copy |-> copy]]
      /\ UNCHANGED <<store, files, builds, upload, offer, installed, made, last>>
  BY DEF CreateRelease, Statuses
<1>5. QED
  BY <1>3, <1>4, ReleaseStepKeeps

LEMMA OtherStatus ==
    ASSUME NEW S, NEW C, NEW r \in [status: S, copy: C], NEW status \in S
    PROVE  [r EXCEPT !.status = status] = [status |-> status, copy |-> r.copy]
OBVIOUS

LEMMA StatusKeeps ==
    ASSUME IInv, NEW n \in Numbers, NEW status \in Statuses,
           releases[n].status # "absent",
           releases' = [releases EXCEPT ![n].status = status],
           UNCHANGED <<store, files, builds, upload, offer, installed, made, last>>
    PROVE  IInv'
<1>1. releases[n] \in [status: Statuses, copy: Copies]
  BY DEF IInv, TypeOK, Copies
<1>2. releases' = [releases EXCEPT ![n] = [status |-> status, copy |-> releases[n].copy]]
  <2>1. [releases[n] EXCEPT !.status = status]
            = [status |-> status, copy |-> releases[n].copy]
    BY <1>1, OtherStatus
  <2>2. QED
    BY <2>1, Zenon
<1>3. /\ builds[n] # Absent /\ releases[n].copy \in Copies /\ Paired(releases[n].copy)
      /\ store = "demo" => releases[n].copy # Absent
  BY <1>1 DEF IInv, TypeOK, Sums
<1>4. QED
  BY <1>2, <1>3, ReleaseStepKeeps

LEMMA CheckKeeps ==
    ASSUME IInv, NEW d \in Devices, Check(d)
    PROVE  IInv'
<1>1. PICK found \in IF Offered = {} THEN {Configured} ELSE Offered :
          offer' = [offer EXCEPT ![d] = found]
  BY DEF Check
<1>2. found \in Datum /\ Paired(found)
  <2>1. CASE found = Configured
    BY <2>1, EnvRow, DatumTyped DEF Configured
  <2>2. CASE found \in Offered
    <3>1. PICK n \in Numbers : IsLive(n) /\ found = Data(n)
      BY <2>2 DEF Offered, Best
    <3>2. releases[n].status # "absent"
      BY <3>1 DEF IsLive
    <3>3. CASE store = "postgres"
      <4>1. builds[n] \in Build /\ Paired(builds[n])
        BY <3>2 DEF IInv, TypeOK, Sums
      <4>2. QED
        BY <3>1, <3>3, <4>1, DatumTyped DEF Data
    <3>4. CASE store # "postgres"
      <4>1. store = "demo"
        BY <3>4, BuildsAssumption DEF IInv, TypeOK
      <4>2. releases[n].copy \in Datum /\ Paired(releases[n].copy)
        BY <3>2, <4>1 DEF IInv, TypeOK, Sums
      <4>3. QED
        BY <3>1, <3>4, <4>2 DEF Data
    <3>5. QED
      BY <3>3, <3>4
  <2>3. QED
    BY <2>1, <2>2
<1>3. TypeOK'
  BY <1>1, <1>2 DEF IInv, TypeOK, Check
<1>4. \A e \in Devices : Paired(offer'[e])
  BY <1>1, <1>2 DEF IInv, TypeOK, Sums
<1>5. QED
  BY <1>3, <1>4 DEF IInv, Sums, Check, Stored, Paired

LEMMA FetchKeeps ==
    ASSUME IInv, NEW d \in Devices, Fetch(d)
    PROVE  IInv'
<1> DEFINE runs == IF Installs(d, offer[d]) THEN offer[d].to ELSE installed[d]
<1>1. /\ installed' = [installed EXCEPT ![d] = runs]
      /\ offer' = [offer EXCEPT ![d] = NoOffer]
  BY DEF Fetch
<1>2. offer[d] \in Datum
  BY DEF IInv, TypeOK, Fetch
<1>3. runs \in Artifacts
  BY <1>2 DEF IInv, TypeOK, Installs, Datum
<1>4. TypeOK'
  BY <1>1, <1>3 DEF IInv, TypeOK, Fetch
<1>5. \A e \in Devices : Paired(offer'[e])
  BY <1>1 DEF IInv, TypeOK, Sums, Paired, NoOffer
<1>6. QED
  BY <1>4, <1>5 DEF IInv, Sums, Fetch, Stored, Paired

-----------------------------------------------------------------------------
(* The start of the server, from the rows there are or from the seed       *)

RowsOK(b, r, saved) ==
    /\ b \in [Numbers -> Rows]
    /\ r \in [Numbers -> [status: Statuses, copy: Copies]]
    /\ \A n \in Numbers : Stored(b[n], saved) /\ Paired(b[n]) /\ Paired(r[n].copy)

(* A release has its build, and in DemoStore its copy.                     *)
Owned(b, r) ==
    \A n \in Numbers :
        r[n].status # "absent" => b[n] # Absent /\ (store = "demo" => r[n].copy # Absent)

LEMMA SeedOK ==
    ASSUME NEW saved
    PROVE  RowsOK(Seed, SeedReleases, saved) /\ Owned(Seed, SeedReleases)
<1> DEFINE row == Linked(SeedArtifact, SeedArtifact)
<1>1. row \in Build /\ Stored(row, saved) /\ Paired(row) /\ row # Absent
  BY EnvRow DEF Build, Absent, Urls
<1>2. DatumOf(row) \in Datum /\ Paired(DatumOf(row)) /\ DatumOf(row) # Absent
  BY <1>1, DatumTyped
<1>3. Stored(Absent, saved) /\ Paired(Absent)
  BY DEF Stored, Paired, Absent
<1> HIDE DEF row
<1>4. Seed = [n \in Numbers |-> IF n = SeedNumber THEN row ELSE Absent]
  BY DEF Seed, Nothing, row
<1>5. SeedReleases = [n \in Numbers |->
          IF n = SeedNumber THEN [status |-> "released", copy |-> DatumOf(row)]
          ELSE [status |-> "absent", copy |-> Absent]]
  BY DEF SeedReleases, NoReleases, row
<1>6. RowsOK(Seed, SeedReleases, saved)
  BY <1>1, <1>2, <1>3, <1>4, <1>5 DEF RowsOK, Rows, Copies, Statuses
<1>7. Owned(Seed, SeedReleases)
  BY <1>1, <1>2, <1>4, <1>5 DEF Owned
<1>8. QED
  BY <1>6, <1>7

LEMMA NothingOK ==
    ASSUME NEW saved
    PROVE  RowsOK(Nothing, NoReleases, saved) /\ Owned(Nothing, NoReleases)
BY DEF RowsOK, Owned, Nothing, NoReleases, Rows, Copies, Statuses, Stored, Paired, Absent

LEMMA EnsureKeeps ==
    ASSUME NEW b, NEW r, NEW saved, saved \subseteq Artifacts, store \in {"postgres", "demo"},
           RowsOK(b, r, saved), Owned(b, r)
    PROVE  /\ RowsOK(EnsureBuild(store, b), EnsureRelease(store, r), saved)
           /\ Owned(EnsureBuild(store, b), EnsureRelease(store, r))
<1> DEFINE row == Linked(EnvArtifact, EnvArtifact)
           old == b[EnvNumber]
           rel == r[EnvNumber]
           newRow == IF store = "postgres" THEN Merged(old, row)
                     ELSE IF old = Absent THEN row ELSE old
           newRel == IF store = "postgres" THEN [status |-> "released", copy |-> rel.copy]
                     ELSE IF rel.status = "absent"
                          THEN [status |-> "released", copy |-> Configured] ELSE rel
<1>1. row \in Build /\ Stored(row, saved) /\ Paired(row)
  BY EnvRow
<1>2. Configured \in Datum /\ Paired(Configured) /\ Configured # Absent
  BY <1>1, DatumTyped DEF Configured
<1>3. old \in Rows /\ Stored(old, saved) /\ Paired(old)
  BY BuildsAssumption DEF RowsOK
<1>4. rel \in [status: Statuses, copy: Copies] /\ Paired(rel.copy)
  BY BuildsAssumption DEF RowsOK
<1>5. newRow \in Build /\ Stored(newRow, saved) /\ Paired(newRow)
  BY <1>1, <1>3, MergedSound DEF GoodRow, Rows
<1>6. newRow \in Rows /\ newRow # Absent
  BY <1>5 DEF Rows, Build, Absent, Urls
<1>7. /\ newRel \in [status: Statuses, copy: Copies] /\ Paired(newRel.copy)
      /\ store = "demo" /\ rel.status = "absent" => newRel.copy # Absent
      /\ store = "demo" /\ rel.status # "absent" => newRel = rel
  BY <1>2, <1>4 DEF Copies, Statuses
<1>8. [rel EXCEPT !.status = "released"] = [status |-> "released", copy |-> rel.copy]
  BY <1>4, OtherStatus DEF Statuses
<1> HIDE DEF row
<1>9. EnsureBuild(store, b) = [b EXCEPT ![EnvNumber] = newRow]
  BY DEF EnsureBuild, row
<1>10. EnsureRelease(store, r) = [r EXCEPT ![EnvNumber] = newRel]
  BY <1>8, Zenon DEF EnsureRelease
<1> HIDE DEF newRow, newRel
<1>11. RowsOK(EnsureBuild(store, b), EnsureRelease(store, r), saved)
  BY <1>5, <1>6, <1>7, <1>9, <1>10 DEF RowsOK
<1>12. Owned(EnsureBuild(store, b), EnsureRelease(store, r))
  BY <1>6, <1>7, <1>9, <1>10, BuildsAssumption DEF Owned, RowsOK
<1>13. QED
  BY <1>11, <1>12

LEMMA InitIInv == ASSUME Init PROVE IInv
<1>1. store \in {"postgres", "demo"}
  BY BuildsAssumption DEF Init
<1>2. RowsOK(builds, releases, files) /\ Owned(builds, releases)
  <2>1. files \subseteq Artifacts
    BY DEF Init
  <2>2. CASE store = "postgres"
    BY <1>1, <2>1, <2>2, NothingOK, EnsureKeeps DEF Init
  <2>3. CASE store # "postgres"
    BY <1>1, <2>1, <2>3, SeedOK, EnsureKeeps DEF Init
  <2>4. QED
    BY <2>2, <2>3
<1>3. TypeOK
  BY <1>2, BuildsAssumption DEF Init, TypeOK, RowsOK, Owned, Rows, Copies
<1>4. Sums
  BY <1>2 DEF Init, Sums, RowsOK, Paired, NoOffer
<1>5. QED
  BY <1>3, <1>4 DEF IInv

LEMMA RestartKeeps == ASSUME IInv, Restart PROVE IInv'
<1>1. store \in {"postgres", "demo"} /\ files \subseteq Artifacts
  BY BuildsAssumption DEF IInv, TypeOK
<1>2. RowsOK(builds', releases', files) /\ Owned(builds', releases')
  <2>1. RowsOK(builds, releases, files) /\ Owned(builds, releases)
    BY DEF IInv, TypeOK, Sums, RowsOK, Owned, Rows, Copies
  <2>2. CASE store = "postgres"
    BY <1>1, <2>1, <2>2, EnsureKeeps DEF Restart
  <2>3. CASE store # "postgres"
    BY <1>1, <2>3, SeedOK, EnsureKeeps DEF Restart
  <2>4. QED
    BY <2>2, <2>3
<1>3. TypeOK'
  BY <1>2 DEF IInv, TypeOK, Restart, RowsOK, Owned, Rows, Copies
<1>4. Sums'
  BY <1>2 DEF IInv, Sums, Restart, RowsOK, Stored, Paired
<1>5. QED
  BY <1>3, <1>4 DEF IInv

LEMMA NextKeeps == ASSUME IInv, [Next]_vars PROVE IInv'
<1>1. CASE UNCHANGED vars
  BY <1>1 DEF vars, IInv, TypeOK, Sums, Stored, Paired
<1>2. ASSUME NEW u \in Uploads, NEW n \in Numbers, NEW a \in Built, Save(u, n, a)
      PROVE  IInv'
  BY <1>2, SaveKeeps
<1>3. ASSUME NEW u \in Uploads, Register(u) \/ UploadFails(u)
      PROVE  IInv'
  BY <1>3, RegisterKeeps, UploadFailsKeeps
<1>4. ASSUME NEW n \in Numbers, NEW a \in Built, NEW linked \in BOOLEAN,
             NEW summed \in BOOLEAN, CreateBuild(n, a, linked, summed)
      PROVE  IInv'
  BY <1>4, CreateBuildKeeps
<1>5. ASSUME NEW n \in Numbers, CreateRelease(n) \/ UpdateReleaseRollout(n)
      PROVE  IInv'
  <2>1. CASE CreateRelease(n)
    BY <2>1, CreateReleaseKeeps
  <2>2. CASE UpdateReleaseRollout(n)
    BY <2>2, StatusKeeps DEF UpdateReleaseRollout, Statuses
  <2>3. QED
    BY <1>5, <2>1, <2>2
<1>6. ASSUME NEW n \in Numbers, NEW status \in {"released", "withdrawn"},
             ReleaseAction(n, status)
      PROVE  IInv'
  BY <1>6, StatusKeeps DEF ReleaseAction, Statuses
<1>7. ASSUME NEW d \in Devices, Check(d) \/ Fetch(d)
      PROVE  IInv'
  BY <1>7, CheckKeeps, FetchKeeps
<1>8. CASE Restart
  BY <1>8, RestartKeeps
<1>9. QED
  BY <1>1, <1>2, <1>3, <1>4, <1>5, <1>6, <1>7, <1>8 DEF Next

THEOREM Inductive == Spec => []IInv
BY InitIInv, NextKeeps, PTL DEF Spec

-----------------------------------------------------------------------------
(* Every reachable state is well typed, and a release has its build.       *)
THEOREM TypeOKHolds == Spec => []TypeOK
<1>1. IInv => TypeOK
  BY DEF IInv
<1>2. QED
  BY <1>1, Inductive, PTL

(* On PostgresStore a row has the key of the upload registered last under  *)
(* its number, and none if there was no upload; its file is there.         *)
KeyOf(b) == IF b = Absent THEN NoArtifact ELSE b.key

KeysKept == store = "postgres" => \A n \in Numbers : KeyOf(builds[n]) = last[n]

KeysFiled == \A n \in Numbers : last[n] \in files \cup {NoArtifact}

(* What is merged into a row without an upload leaves its key alone.       *)
LEMMA MergedKey ==
    ASSUME NEW old \in Rows, NEW new \in Build
    PROVE  KeyOf(Merged(old, new)) = IF new.key = NoArtifact THEN KeyOf(old) ELSE new.key
<1>1. new # Absent
  BY DEF Build, Absent, Urls
<1>2. CASE old # Absent /\ new.key = NoArtifact
  <2>1. Merged(old, new) = [new EXCEPT !.key = old.key] /\ Merged(old, new) # Absent
    BY <1>2 DEF Merged, Rows, Build, Absent, Urls
  <2>2. QED
    BY <1>2, <2>1 DEF KeyOf, Build
<1>3. CASE ~(old # Absent /\ new.key = NoArtifact)
  BY <1>1, <1>3 DEF Merged, KeyOf
<1>4. QED
  BY <1>2, <1>3

LEMMA InitKeys == ASSUME Init PROVE KeysKept
<1> SUFFICES ASSUME store = "postgres", NEW n \in Numbers
             PROVE  KeyOf(builds[n]) = last[n]
  BY DEF KeysKept
<1>1. builds = [Nothing EXCEPT ![EnvNumber] = Merged(@, Linked(EnvArtifact, EnvArtifact))]
  BY DEF Init, EnsureBuild
<1>2. KeyOf(Merged(Absent, Linked(EnvArtifact, EnvArtifact))) = NoArtifact
  BY EnvRow, MergedKey DEF Rows, KeyOf, Linked
<1>3. KeyOf(Absent) = NoArtifact
  BY DEF KeyOf
<1>4. QED
  BY <1>1, <1>2, <1>3 DEF Init, Nothing

LEMMA NextKeys == ASSUME IInv, KeysKept, [Next]_vars PROVE KeysKept'
<1>1. builds \in [Numbers -> Rows] /\ last \in [Numbers -> Artifacts \cup {NoArtifact}]
  BY DEF IInv, TypeOK, Rows
<1>2. CASE UNCHANGED <<store, builds, last>>
  BY <1>2 DEF KeysKept, KeyOf
<1>3. ASSUME NEW u \in Uploads, Register(u)
      PROVE  KeysKept'
  <2> DEFINE n == upload[u].number
             a == upload[u].artifact
  <2>1. n \in Numbers /\ a \in Artifacts /\ a # NoArtifact
    BY <1>3, BuildsAssumption DEF IInv, TypeOK, Register
  <2>2. Uploaded(n, a) \in Build /\ Uploaded(n, a).key = a
    BY <2>1, BuildsAssumption DEF Uploaded, Build, Urls
  <2>3. KeyOf(Merged(builds[n], Uploaded(n, a))) = a
    BY <1>1, <2>1, <2>2, MergedKey
  <2>4. store' = store /\ last' = [last EXCEPT ![n] = a]
    BY <1>3 DEF Register
  <2>5. store = "postgres" => builds' = [builds EXCEPT ![n] = Merged(builds[n], Uploaded(n, a))]
    BY <1>3 DEF Register, Upsert
  <2> HIDE DEF n, a
  <2>6. QED
    BY <1>1, <2>1, <2>3, <2>4, <2>5 DEF KeysKept
<1>4. ASSUME NEW n \in Numbers, NEW new \in Build, new.key = NoArtifact,
             store = "postgres" => builds' = [builds EXCEPT ![n] = Merged(builds[n], new)],
             UNCHANGED <<store, last>>
      PROVE  KeysKept'
  <2>1. KeyOf(Merged(builds[n], new)) = KeyOf(builds[n])
    BY <1>1, <1>4, MergedKey
  <2>2. QED
    BY <1>1, <1>4, <2>1 DEF KeysKept
<1>5. ASSUME NEW n \in Numbers, NEW a \in Built, NEW linked \in BOOLEAN,
             NEW summed \in BOOLEAN, CreateBuild(n, a, linked, summed)
      PROVE  KeysKept'
  <2>1. Registered(a, linked, summed) \in Build /\ Registered(a, linked, summed).key = NoArtifact
    BY BuildsAssumption DEF Registered, Linked, Build, Urls
  <2>2. store = "postgres" =>
            builds' = [builds EXCEPT ![n] = Merged(builds[n], Registered(a, linked, summed))]
    BY <1>5 DEF CreateBuild, Upsert
  <2>3. QED
    BY <1>4, <1>5, <2>1, <2>2 DEF CreateBuild
<1>6. CASE Restart
  <2>1. Linked(EnvArtifact, EnvArtifact).key = NoArtifact
    BY DEF Linked
  <2>2. store = "postgres" => builds' = [builds EXCEPT ![EnvNumber] =
                                  Merged(builds[EnvNumber], Linked(EnvArtifact, EnvArtifact))]
    BY <1>6 DEF Restart, EnsureBuild
  <2>3. QED
    BY <1>4, <1>6, <2>1, <2>2, EnvRow, BuildsAssumption DEF Restart
<1>7. QED
  BY <1>2, <1>3, <1>5, <1>6
     DEF Next, vars, Save, UploadFails, CreateRelease, UpdateReleaseRollout, ReleaseAction,
         Check, Fetch

LEMMA NextFiled == ASSUME IInv, KeysFiled, [Next]_vars PROVE KeysFiled'
<1>1. files \subseteq files'
  BY DEF Next, vars, Save, Register, UploadFails, CreateBuild, CreateRelease,
         UpdateReleaseRollout, ReleaseAction, Check, Fetch, Restart
<1>2. CASE UNCHANGED last
  BY <1>1, <1>2 DEF KeysFiled
<1>3. ASSUME NEW u \in Uploads, Register(u)
      PROVE  KeysFiled'
  <2>1. upload[u].artifact \in files
    BY <1>3 DEF IInv, Sums, Register
  <2>2. \A n \in Numbers : last'[n] \in {last[n], upload[u].artifact}
    BY <1>3 DEF IInv, TypeOK, Register
  <2>3. QED
    BY <1>1, <2>1, <2>2 DEF KeysFiled
<1>4. QED
  BY <1>2, <1>3
     DEF Next, vars, Save, UploadFails, CreateBuild, CreateRelease, UpdateReleaseRollout,
         ReleaseAction, Check, Fetch, Restart

(* The console downloads what was uploaded last, also after uploads cut    *)
(* short, registrations by link and restarts, which change the checksum    *)
(* beside it.                                                              *)
THEOREM LastUploadServedHolds == Spec => []LastUploadServed
<1>1. ASSUME IInv, KeysKept, KeysFiled
      PROVE  LastUploadServed
  <2> SUFFICES ASSUME store = "postgres", NEW n \in Numbers
               PROVE  /\ DownloadBuild(n) = last[n]
                      /\ releases[n].status # "absent" /\ last[n] # NoArtifact =>
                            DownloadRelease(n) = last[n]
                      /\ builds[n].url \in {"path", "dangling"} => builds[n].sum = last[n]
    BY DEF LastUploadServed
  <2>1. KeyOf(builds[n]) = last[n]
    BY <1>1 DEF KeysKept
  <2>2. Opened(last[n]) = last[n]
    BY <1>1 DEF KeysFiled, Opened
  <2>3. DownloadBuild(n) = last[n]
    BY <2>1, <2>2 DEF DownloadBuild, KeyOf
  <2>4. releases[n].status # "absent" => builds[n] # Absent
    BY <1>1 DEF IInv, TypeOK
  <2>5. releases[n].status # "absent" /\ last[n] # NoArtifact => DownloadRelease(n) = last[n]
    BY <2>1, <2>2, <2>4 DEF DownloadRelease, KeyOf
  <2>6. builds[n].url \in {"path", "dangling"} => builds[n].sum = last[n]
    BY <1>1, <2>1 DEF IInv, Sums, Stored, KeyOf, Absent
  <2>7. QED
    BY <2>3, <2>5, <2>6
<1>2. Init => IInv /\ KeysKept /\ KeysFiled
  BY InitIInv, InitKeys DEF Init, KeysFiled
<1>3. IInv /\ KeysKept /\ KeysFiled /\ [Next]_vars => KeysKept' /\ KeysFiled'
  BY NextKeys, NextFiled
<1>4. QED
  BY <1>1, <1>2, <1>3, Inductive, PTL DEF Spec

(* Offers pair a link with its own checksum.                               *)
THEOREM OfferSumHolds == Spec => []OfferSum
<1>1. IInv => OfferSum
  BY DEF IInv, Sums, Paired, OfferSum
<1>2. QED
  BY <1>1, Inductive, PTL

(* What a release of DemoStore shows is fixed when it is created.          *)
THEOREM CopyIsKeptHolds == Spec => CopyIsKept
<1> DEFINE Kept == \A n \in Numbers :
          store = "demo" /\ IsLive(n) /\ ~Restart /\ releases'[n].status # "draft" =>
              Data(n)' = Data(n)
<1>1. ASSUME IInv, [Next]_vars
      PROVE  [Kept]_vars
  <2> SUFFICES ASSUME Next, NEW n \in Numbers, store = "demo", IsLive(n), ~Restart,
                      releases'[n].status # "draft"
               PROVE  Data(n)' = Data(n)
    BY <1>1
  <2>1. store' = "demo"
    BY DEF Next, Save, Register, UploadFails, CreateBuild, CreateRelease,
           UpdateReleaseRollout, ReleaseAction, Check, Fetch
  <2>2. releases'[n].copy = releases[n].copy
    <3>1. ASSUME NEW k \in Numbers, NEW status \in Statuses,
                 releases' = [releases EXCEPT ![k].status = status]
          PROVE  releases'[n].copy = releases[n].copy
      <4>1. releases[k] \in [status: Statuses, copy: Copies]
        BY <1>1 DEF IInv, TypeOK, Copies
      <4>2. [releases[k] EXCEPT !.status = status]
                = [status |-> status, copy |-> releases[k].copy]
        BY <4>1, OtherStatus
      <4>3. releases' = [releases EXCEPT ![k] = [status |-> status, copy |-> releases[k].copy]]
        BY <3>1, <4>2, Zenon
      <4>4. QED
        BY <1>1, <4>3 DEF IInv, TypeOK
    <3>2. ASSUME NEW k \in Numbers, CreateRelease(k)
          PROVE  releases'[n] = releases[n]
      BY <1>1, <3>2 DEF CreateRelease, IInv, TypeOK
    <3>3. CASE UNCHANGED releases
      BY <3>3
    <3>4. QED
      BY <1>1, <3>1, <3>2, <3>3
         DEF Next, Save, Register, UploadFails, CreateBuild, UpdateReleaseRollout,
             ReleaseAction, Check, Fetch, Statuses
  <2>3. QED
    BY <2>1, <2>2 DEF Data
<1>2. QED
  BY <1>1, Inductive, PTL DEF Spec, CopyIsKept
=============================================================================
