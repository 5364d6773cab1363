------------------------ MODULE CatalogDeliveryProofs ------------------------
(***************************************************************************)
(* Proofs about catalog delivery, for any boards, jobs, processes and      *)
(* retention.  The argument follows one version through a refresh: a       *)
(* version once published never changes, so that what a refresh has        *)
(* verified stays what was published, in its memory, in the cache and in   *)
(* the database it commits; and since only the holder of the lock commits, *)
(* the manifest it has read is no older than the data it replaces.         *)
(***************************************************************************)
EXTENDS CatalogDelivery, TLAPS

\* What a database shows of the boards that snapshot is authoritative about.
Shows(database, snapshot) ==
  \A b \in Board :
    (IF snapshot.board[b].known
     THEN ~snapshot.board[b].enabled \/ snapshot.board[b].complete
     ELSE b \in database.managed)
      => database.open \cap JobsOf(b) = snapshot.open \cap JobsOf(b)

Fetched == {"payload", "import", "point", "commit"}

\* What a refresh holds: a version that exists and is no older than the
\* data it will replace, then the payload of that version, then that payload
\* in the cache.
Carries(r) ==
  /\ run[r].phase \in Fetched =>
       /\ run[r].manifest \in 0..latest
       /\ run[r].manifest >= loaded
  /\ run[r].phase \in {"import", "point", "commit"} =>
       run[r].payload = published[run[r].manifest]
  /\ run[r].phase \in {"point", "commit"} =>
       cache.payload[run[r].manifest] = published[run[r].manifest]

LockInv == \A r \in Refresher : lock = r <=> run[r].phase \in Syncing

ClientInv ==
  /\ loaded \in 0..latest \cup {None}
  /\ loaded # None /\ ~local => Shows(db, published[loaded])
  /\ cache.latest # None =>
       /\ cache.latest \in 0..latest
       /\ cache.payload[cache.latest] = published[cache.latest]

IInv ==
  /\ TypeOK
  /\ ClientInv
  /\ \A r \in Refresher : Carries(r)

-------------------------------------------------------------------------------
(* Databases and imports.                                                  *)

Client == [managed : SUBSET Board, open : SUBSET Job]

LEMMA DatabaseFields ==
  \A d \in Database : d.board \in [Board -> Entry] /\ d.open \in SUBSET Job
BY DEF Database

LEMMA EmptyDatabase == Empty \in Database
<1>1. Absent \in Entry
  BY DEF Absent, Entry
<1>2. [b \in Board |-> Absent] \in [Board -> Entry]
  BY <1>1
<1> QED
  BY <1>2 DEF Empty, Database

LEMMA ListedType ==
  ASSUME NEW open \in SUBSET Job, NEW b \in Board, NEW listed \in SUBSET JobsOf(b),
         NEW complete \in BOOLEAN
  PROVE  Listed(open, b, listed, complete) \in SUBSET Job
BY DEF Listed, JobsOf

LEMMA ImportType ==
  ASSUME db \in Client, NEW s \in Database
  PROVE  /\ Import(s) \in Client
         /\ Import(s).managed = db.managed \cup Known(s)
         /\ Import(s).open =
              s.open \cup {j \in db.open : ~Authoritative(BoardOf[j], s)}
<1>1. db.managed \in SUBSET Board /\ db.open \in SUBSET Job
  BY DEF Client
<1>2. Known(s) \in SUBSET Board /\ s.open \in SUBSET Job
  BY DatabaseFields DEF Known
<1> QED
  BY <1>1, <1>2 DEF Import, Client

\* After an import the client shows what the catalog is authoritative about.
LEMMA ImportShows ==
  ASSUME db \in Client, NEW s \in Database
  PROVE  Shows(Import(s), s)
<1> SUFFICES ASSUME NEW b \in Board,
                    IF s.board[b].known
                    THEN ~s.board[b].enabled \/ s.board[b].complete
                    ELSE b \in Import(s).managed
             PROVE  Import(s).open \cap JobsOf(b) = s.open \cap JobsOf(b)
  BY DEF Shows
<1>1. Authoritative(b, s)
  BY ImportType DEF Authoritative, Known
<1>2. \A j \in JobsOf(b) : j \in Import(s).open <=> j \in s.open
  BY <1>1, ImportType DEF JobsOf
<1> QED
  BY <1>2

\* A job an import closes was listed by a catalog with authority over it.
LEMMA ImportCloses ==
  ASSUME db \in Client, NEW s \in Database, NEW j \in db.open \ Import(s).open
  PROVE  Authoritative(BoardOf[j], s)
BY ImportType

-------------------------------------------------------------------------------
(* Types.                                                                  *)

Phase == Syncing \cup {"idle", "sync", "bundled", "bootstrap", "ingest", "mark"}

RunRow ==
  [phase : Phase, manifest : Version \cup {None}, payload : Database,
   outcome : {"none", "success", "stale_fallback"}]

Cache == [latest : Version \cup {None}, payload : [Version -> Database]]

\* Writing a value of its type into a field leaves a record of its type.
LEMMA RunUpdates ==
  \A x \in RunRow :
    /\ \A y \in Phase : [x EXCEPT !.phase = y] \in RunRow
    /\ \A y \in Version \cup {None} : [x EXCEPT !.manifest = y] \in RunRow
    /\ \A y \in Database : [x EXCEPT !.payload = y] \in RunRow
    /\ \A y \in {"none", "success", "stale_fallback"} : [x EXCEPT !.outcome = y] \in RunRow
<1> TAKE x \in RunRow
<1> QED
  BY DEF RunRow

LEMMA RunFields ==
  \A x \in RunRow :
    /\ x.phase \in Phase /\ x.manifest \in Version \cup {None}
    /\ x.payload \in Database
    /\ x.outcome \in {"none", "success", "stale_fallback"}
BY DEF RunRow

LEMMA CacheUpdates ==
  \A x \in Cache :
    /\ x.latest \in Version \cup {None} /\ x.payload \in [Version -> Database]
    /\ \A y \in Version \cup {None} : [x EXCEPT !.latest = y] \in Cache
    /\ \A y \in [Version -> Database] : [x EXCEPT !.payload = y] \in Cache
<1> TAKE x \in Cache
<1> QED
  BY DEF Cache

LEMMA Constants ==
  /\ 0 \in Version /\ None \notin Version
  /\ \A r \in Refresher : r # None
  /\ \A v \in Version : v < MaxVersion => v + 1 \in Version
  /\ {"idle", "sync", "manifest", "payload", "import", "point", "commit",
      "bundled", "bootstrap", "ingest", "mark"} \subseteq Phase
BY CatalogAssumption DEF Version, None, Phase, Syncing

LEMMA RestingRow == Resting \in RunRow
<1>1. Empty \in Database
  BY EmptyDatabase
<1>2. "idle" \in Phase
  BY Constants
<1> HIDE DEF Phase, Version, Database, Empty
<1> QED
  BY <1>1, <1>2 DEF Resting, RunRow

Types ==
  /\ central \in Database /\ db \in Client /\ local \in BOOLEAN
  /\ published \in [Version -> Database]
  /\ latest \in Version /\ loaded \in Version \cup {None}
  /\ cache \in Cache
  /\ run \in [Refresher -> RunRow]

LEMMA TypeParts == TypeOK <=> Types /\ LockInv
BY DEF TypeOK, Types, LockInv, Client, Cache, RunRow, Phase

LEMMA InitTypes == Init => Types /\ LockInv
<1> SUFFICES ASSUME Init
             PROVE  Types /\ LockInv
  OBVIOUS
<1>1. central \in Database
  <2>1. {Absent, [known |-> TRUE, enabled |-> TRUE, complete |-> TRUE]}
          \subseteq Entry
    BY DEF Absent, Entry
  <2> QED
    BY <2>1 DEF Init, Database
<1>2. Empty \in Database
  BY EmptyDatabase
<1>3. published \in [Version -> Database]
  BY <1>1, <1>2 DEF Init, Version
<1>4. [v \in 0..MaxVersion |-> Empty] \in [Version -> Database]
  BY <1>2 DEF Version
<1>5. cache \in Cache
  BY <1>4 DEF Init, Cache
<1>6. run \in [Refresher -> RunRow]
  BY RestingRow DEF Init
<1>7. Types
  BY <1>1, <1>2, <1>3, <1>5, <1>6, Constants DEF Init, Types, Client
<1>8. LockInv
  BY Constants DEF Init, LockInv, Resting, Syncing
<1> QED
  BY <1>7, <1>8

\* The centre's own steps.
LEMMA CenterTypes ==
  ASSUME Types, Center
  PROVE  Types'
<1> USE DEF Types
<1>0. /\ central.board \in [Board -> Entry] /\ central.open \in SUBSET Job
      /\ central = [board |-> central.board, open |-> central.open]
  BY DEF Database
<1>1. ASSUME NEW b \in Board, NEW enabled \in BOOLEAN, Discover(b, enabled)
      PROVE  Types'
  <2>1. [central.board EXCEPT ![b] = [known |-> TRUE, enabled |-> enabled, complete |-> TRUE]]
          \in [Board -> Entry]
    BY <1>0 DEF Entry
  <2>2. central' \in Database
    BY <1>0, <1>1, <2>1 DEF Discover, Database
  <2> QED
    BY <1>1, <2>2 DEF Discover, client
<1>2. ASSUME NEW b \in Board, NEW enabled \in BOOLEAN, Validate(b, enabled)
      PROVE  Types'
  <2>1. [central.board EXCEPT ![b].enabled = enabled] \in [Board -> Entry]
    BY <1>0 DEF Entry
  <2>2. central' \in Database
    BY <1>0, <1>2, <2>1 DEF Validate, Database
  <2> QED
    BY <1>2, <2>2 DEF Validate, client
<1>3. ASSUME NEW b \in Board, NEW complete \in BOOLEAN, NEW listed \in SUBSET JobsOf(b),
             Refresh(b, listed, complete)
      PROVE  Types'
  <2>1. [central.board EXCEPT ![b] = [known |-> TRUE, enabled |-> TRUE, complete |-> complete]]
          \in [Board -> Entry]
    BY <1>0 DEF Entry
  <2>2. Listed(central.open, b, listed, complete) \in SUBSET Job
    BY <1>0, ListedType
  <2>3. central' \in Database
    BY <1>3, <2>1, <2>2 DEF Refresh, Database
  <2> QED
    BY <1>3, <2>3 DEF Refresh, client
<1>4. CASE Publish
  <2>1. Snapshot \in Database
    BY <1>0 DEF Snapshot, Database
  <2>2. published' \in [Version -> Database]
    BY <1>4, <2>1 DEF Publish
  <2>3. latest' \in Version
    BY <1>4, Constants DEF Publish, Publishing
  <2> QED
    BY <1>4, <2>2, <2>3 DEF Publish, client
<1> QED
  BY <1>1, <1>2, <1>3, <1>4 DEF Center

\* The steps of a refresh replace its row, by a row.
LEMMA RefreshTypes ==
  ASSUME Types, NEW r \in Refresher, Start(r) \/ Step(r) \/ Crash(r)
  PROVE  Types'
<1> USE DEF Types, server, client
<1>0. run[r] \in RunRow
  OBVIOUS
<1>1. ASSUME NEW x \in RunRow, run' = [run EXCEPT ![r] = x]
      PROVE  run' \in [Refresher -> RunRow]
  BY <1>1
<1> HIDE DEF Resting, Phase, RunRow, Version, Database, Client, Cache
<1>2. CASE Start(r)
  <2>1. run' = [run EXCEPT ![r] = [run[r] EXCEPT !.phase = "sync"]]
    BY <1>2, Zenon DEF Start
  <2>2. [run[r] EXCEPT !.phase = "sync"] \in RunRow
    BY <1>0, RunUpdates, Constants, Zenon
  <2> QED
    BY <1>2, <1>1, <2>1, <2>2 DEF Start
<1>3. CASE Lock(r)
  <2>1. run' = [run EXCEPT ![r] = [run[r] EXCEPT !.phase = "manifest"]]
    BY <1>3, Zenon DEF Lock
  <2>2. [run[r] EXCEPT !.phase = "manifest"] \in RunRow
    BY <1>0, RunUpdates, Constants, Zenon
  <2> QED
    BY <1>3, <1>1, <2>1, <2>2 DEF Lock
<1>4. CASE FetchManifest(r)
  <2>1. [run[r] EXCEPT !.phase = "payload"] \in RunRow
    BY <1>0, RunUpdates, Constants, Zenon
  <2>2. [[run[r] EXCEPT !.phase = "payload"] EXCEPT !.manifest = latest] \in RunRow
    BY <2>1, RunUpdates, Zenon
  <2>3. run' = [run EXCEPT ![r] =
                  [[run[r] EXCEPT !.phase = "payload"] EXCEPT !.manifest = latest]]
    BY <1>4, Zenon DEF FetchManifest
  <2> QED
    BY <1>4, <1>1, <2>2, <2>3 DEF FetchManifest
<1>5. CASE FetchPayload(r)
  <2>1. PICK content \in {published[run[r].manifest], Empty} :
          run' = [run EXCEPT ![r] =
                    [[run[r] EXCEPT !.phase = "import"] EXCEPT !.payload = content]]
    BY <1>5, Zenon DEF FetchPayload
  <2>2. run[r].manifest \in Version
    BY <1>5, CatalogAssumption DEF FetchPayload, Retained, Version
  <2>3. content \in Database
    BY <2>1, <2>2, EmptyDatabase
  <2>4. [run[r] EXCEPT !.phase = "import"] \in RunRow
    BY <1>0, RunUpdates, Constants, Zenon
  <2>5. [[run[r] EXCEPT !.phase = "import"] EXCEPT !.payload = content] \in RunRow
    BY <2>3, <2>4, RunUpdates, Zenon
  <2> QED
    BY <1>5, <1>1, <2>1, <2>5 DEF FetchPayload
<1>6. CASE PromotePayload(r)
  <2>1. run' = [run EXCEPT ![r] = [run[r] EXCEPT !.phase = "point"]]
    BY <1>6, Zenon DEF PromotePayload
  <2>2. [run[r] EXCEPT !.phase = "point"] \in RunRow
    BY <1>0, RunUpdates, Constants, Zenon
  <2>3. [cache.payload EXCEPT ![run[r].manifest] = run[r].payload] \in [Version -> Database]
    BY <1>0, RunFields, CacheUpdates
  <2>4. cache' = [cache EXCEPT !.payload =
                    [cache.payload EXCEPT ![run[r].manifest] = run[r].payload]]
    BY <1>6, Zenon DEF PromotePayload
  <2>5. cache' \in Cache
    BY <2>3, <2>4, CacheUpdates, Zenon
  <2> QED
    BY <1>6, <1>1, <2>1, <2>2, <2>5 DEF PromotePayload
<1>7. CASE PromoteLatest(r)
  <2>1. run' = [run EXCEPT ![r] = [run[r] EXCEPT !.phase = "commit"]]
    BY <1>7, Zenon DEF PromoteLatest
  <2>2. [run[r] EXCEPT !.phase = "commit"] \in RunRow
    BY <1>0, RunUpdates, Constants, Zenon
  <2>3. run[r].manifest \in Version \cup {None}
    BY <1>0, RunFields
  <2>4. cache' \in Cache
    BY <1>7, <2>3, CacheUpdates, Zenon DEF PromoteLatest
  <2> QED
    BY <1>7, <1>1, <2>1, <2>2, <2>4 DEF PromoteLatest
<1>8. ASSUME NEW s \in Database, NEW outcome \in {"success", "stale_fallback"},
             run' = [run EXCEPT ![r] =
                       [[run[r] EXCEPT !.phase = "mark"] EXCEPT !.outcome = outcome]]
      PROVE  run' \in [Refresher -> RunRow] /\ Import(s) \in Client
  <2>1. [run[r] EXCEPT !.phase = "mark"] \in RunRow
    BY <1>0, RunUpdates, Constants, Zenon
  <2>2. [[run[r] EXCEPT !.phase = "mark"] EXCEPT !.outcome = outcome] \in RunRow
    BY <2>1, RunUpdates, Zenon
  <2> QED
    BY <1>8, <1>1, <2>2, ImportType
<1>9. CASE Commit(r)
  <2>1. run[r].payload \in Database /\ run[r].manifest \in Version \cup {None}
    BY <1>0, RunFields
  <2>2. run' = [run EXCEPT ![r] =
                  [[run[r] EXCEPT !.phase = "mark"] EXCEPT !.outcome = "success"]]
    BY <1>9, Zenon DEF Commit
  <2>3. run' \in [Refresher -> RunRow] /\ Import(run[r].payload) \in Client
    BY <1>8, <2>1, <2>2
  <2> QED
    BY <1>9, <2>1, <2>3 DEF Commit
<1>10. CASE Fail(r)
  <2>1. [Resting EXCEPT !.phase = "bundled"] \in RunRow
    BY RestingRow, RunUpdates, Constants, Zenon
  <2>2. run' \in [Refresher -> RunRow]
    BY <1>10, <2>1 DEF Fail
  <2> QED
    BY <1>10, <2>2 DEF Fail
<1>11. CASE ImportBundled(r)
  <2>1. published[0] \in Database
    BY Constants
  <2>2. run' = [run EXCEPT ![r] =
                  [[run[r] EXCEPT !.phase = "mark"] EXCEPT !.outcome = "stale_fallback"]]
    BY <1>11, Zenon DEF ImportBundled
  <2>3. run' \in [Refresher -> RunRow] /\ Import(published[0]) \in Client
    BY <1>8, <2>1, <2>2
  <2> QED
    BY <1>11, <2>3, Constants DEF ImportBundled
<1>12. CASE Recover(r)
  BY <1>12, <1>1, RestingRow DEF Recover
<1>13. CASE Mark(r)
  BY <1>13, <1>1, RestingRow DEF Mark
<1>14. CASE Crash(r)
  BY <1>14, <1>1, RestingRow DEF Crash
<1>15. CASE BundledFails(r)
  <2>1. [Resting EXCEPT !.phase = "bootstrap"] \in RunRow
    BY RestingRow, RunUpdates, Constants, Zenon
  <2>2. run' \in [Refresher -> RunRow]
    BY <1>15, <2>1 DEF BundledFails
  <2> QED
    BY <1>15, <2>2 DEF BundledFails
<1>16. CASE Bootstrap(r)
  <2>1. run' = [run EXCEPT ![r] = [run[r] EXCEPT !.phase = "ingest"]]
    BY <1>16, Zenon DEF Bootstrap
  <2>2. [run[r] EXCEPT !.phase = "ingest"] \in RunRow
    BY <1>0, RunUpdates, Constants, Zenon
  <2> QED
    BY <1>16, <1>1, <2>1, <2>2 DEF Bootstrap
<1>17. ASSUME NEW b \in Board, NEW complete \in BOOLEAN, NEW listed \in SUBSET JobsOf(b),
              IngestLocally(r, b, listed, complete)
       PROVE  Types'
  <2>1. db.managed \in SUBSET Board /\ db.open \in SUBSET Job
    BY DEF Client
  <2>2. Listed(db.open, b, listed, complete) \in SUBSET Job
    BY <2>1, ListedType
  <2>3. db' \in Client
    BY <1>17, <2>1, <2>2 DEF IngestLocally, Client
  <2> QED
    BY <1>17, <2>3 DEF IngestLocally
<1> QED
  BY <1>2, <1>3, <1>4, <1>5, <1>6, <1>7, <1>9, <1>10, <1>11, <1>12, <1>13, <1>14,
     <1>15, <1>16, <1>17 DEF Step

-------------------------------------------------------------------------------
(* What each step does to the row of its refresh.                          *)

\* A step leaves the other refreshes alone, and takes the lock, keeps it or
\* gives it up with its phase.
LEMMA StepEffect ==
  ASSUME Types, NEW r \in Refresher, Start(r) \/ Step(r) \/ Crash(r)
  PROVE  /\ \A s \in Refresher : s # r => run'[s] = run[s]
         /\ \/ lock' = lock /\ (run'[r].phase \in Syncing <=> run[r].phase \in Syncing)
            \/ lock = None /\ lock' = r /\ run'[r].phase \in Syncing
            \/ lock' = Released(r) /\ run'[r].phase \notin Syncing
<1>1. CASE Start(r)
  BY <1>1 DEF Start, At, Types, RunRow, Syncing
<1>2. CASE Lock(r)
  BY <1>2 DEF Lock, At, Types, RunRow, Syncing
<1>3. CASE FetchManifest(r)
  BY <1>3 DEF FetchManifest, At, Types, RunRow, Syncing
<1>4. CASE FetchPayload(r)
  BY <1>4 DEF FetchPayload, At, Types, RunRow, Syncing
<1>5. CASE PromotePayload(r)
  BY <1>5 DEF PromotePayload, At, Types, RunRow, Syncing
<1>6. CASE PromoteLatest(r)
  BY <1>6 DEF PromoteLatest, At, Types, RunRow, Syncing
<1>7. CASE Commit(r)
  BY <1>7 DEF Commit, At, Types, RunRow, Syncing
<1>8. CASE Fail(r)
  BY <1>8 DEF Fail, Types, RunRow, Syncing, Resting
<1>9. CASE ImportBundled(r)
  BY <1>9 DEF ImportBundled, At, Types, RunRow, Syncing
<1>10. CASE Recover(r) \/ Mark(r)
  BY <1>10 DEF Recover, Mark, At, Types, RunRow, Syncing, Resting
<1>11. CASE Crash(r)
  BY <1>11 DEF Crash, Types, RunRow, Syncing, Resting
<1>12. CASE BundledFails(r) \/ Bootstrap(r)
  BY <1>12 DEF BundledFails, Bootstrap, At, Types, RunRow, Syncing, Resting
<1>13. CASE \E b \in Board, complete \in BOOLEAN :
              \E listed \in SUBSET JobsOf(b) : IngestLocally(r, b, listed, complete)
  BY <1>13 DEF IngestLocally
<1> QED
  BY <1>1, <1>2, <1>3, <1>4, <1>5, <1>6, <1>7, <1>8, <1>9, <1>10, <1>11, <1>12, <1>13
     DEF Step

LEMMA RefreshLock ==
  ASSUME Types, LockInv, NEW r \in Refresher, Start(r) \/ Step(r) \/ Crash(r)
  PROVE  LockInv'
<1>1. /\ \A s \in Refresher : s # r => run'[s] = run[s]
      /\ \/ lock' = lock /\ (run'[r].phase \in Syncing <=> run[r].phase \in Syncing)
         \/ lock = None /\ lock' = r /\ run'[r].phase \in Syncing
         \/ lock' = Released(r) /\ run'[r].phase \notin Syncing
  BY StepEffect
<1> SUFFICES ASSUME NEW s \in Refresher
             PROVE  lock' = s <=> run'[s].phase \in Syncing
  BY DEF LockInv
<1>2. CASE lock' = lock /\ (run'[r].phase \in Syncing <=> run[r].phase \in Syncing)
  BY <1>1, <1>2 DEF LockInv
<1>3. CASE lock = None /\ lock' = r /\ run'[r].phase \in Syncing
  BY <1>1, <1>3, Constants DEF LockInv
<1>4. CASE lock' = Released(r) /\ run'[r].phase \notin Syncing
  BY <1>1, <1>4, Constants DEF LockInv, Released
<1> QED
  BY <1>1, <1>2, <1>3, <1>4

\* The catalog client is well typed, and its lock is held by exactly the
\* refresh that synchronises, for any boards, jobs and processes.
THEOREM CatalogTypeCorrect == Spec => []TypeOK
<1>1. Init => TypeOK
  BY InitTypes, TypeParts
<1>2. TypeOK /\ [Next]_vars => TypeOK'
  <2> SUFFICES ASSUME TypeOK, [Next]_vars
               PROVE  Types' /\ LockInv'
    BY TypeParts DEF TypeOK, Types, LockInv, Client, Cache, RunRow, Phase
  <2>1. Types /\ LockInv
    BY TypeParts
  <2>2. ASSUME NEW r \in Refresher, Start(r) \/ Step(r) \/ Crash(r)
        PROVE  Types' /\ LockInv'
    BY <2>1, <2>2, RefreshTypes, RefreshLock
  <2>3. CASE Center
    <3>1. Types'
      BY <2>1, <2>3, CenterTypes
    <3>2. LockInv'
      BY <2>1, <2>3 DEF LockInv, Center, Discover, Validate, Refresh, Publish
    <3> QED
      BY <3>1, <3>2
  <2>4. CASE UNCHANGED vars
    BY <2>1, <2>4 DEF vars, Types, LockInv
  <2> QED
    BY <2>2, <2>3, <2>4 DEF Next
<1> QED
  BY <1>1, <1>2, PTL DEF Spec

-------------------------------------------------------------------------------
(* The centre.                                                             *)

\* What has been published stays as it is.
LEMMA CenterExtends ==
  ASSUME Types, Center
  PROVE  /\ latest \in Nat /\ latest' \in Nat /\ latest <= latest'
         /\ \A v \in 0..latest : published'[v] = published[v]
         /\ UNCHANGED <<client, lock, run>>
<1>1. latest \in Nat
  BY CatalogAssumption DEF Types, Version
<1>2. CASE Publish
  <2>1. /\ latest' = latest + 1
        /\ published' = [published EXCEPT ![latest + 1] = Snapshot]
        /\ UNCHANGED <<client, lock, run>>
    BY <1>2 DEF Publish
  <2>2. latest + 1 \in Version
    BY <1>2, Constants DEF Publish, Publishing, Types
  <2>3. published'[latest + 1] = Snapshot
    BY <2>1, <2>2 DEF Types
  <2>4. \A v \in 0..latest : v \in Version /\ v # latest + 1
    BY <1>1, CatalogAssumption DEF Types, Version
  <2>5. \A v \in 0..latest : published'[v] = published[v]
    BY <2>1, <2>4 DEF Types
  <2> QED
    BY <1>1, <2>1, <2>3, <2>5
<1>3. CASE \E b \in Board, enabled \in BOOLEAN : Discover(b, enabled) \/ Validate(b, enabled)
  BY <1>1, <1>3 DEF Discover, Validate
<1>4. CASE \E b \in Board, complete \in BOOLEAN :
             \E listed \in SUBSET JobsOf(b) : Refresh(b, listed, complete)
  BY <1>1, <1>4 DEF Refresh
<1> QED
  BY <1>2, <1>3, <1>4 DEF Center

\* Nothing of a client changes, and what it knows remains true.
LEMMA CenterKeepsClient ==
  ASSUME Types, ClientInv, \A r \in Refresher : Carries(r), Center
  PROVE  ClientInv' /\ \A r \in Refresher : Carries(r)'
<1>1. /\ latest \in Nat /\ latest' \in Nat /\ latest <= latest'
      /\ \A v \in 0..latest : published'[v] = published[v]
      /\ db' = db /\ loaded' = loaded /\ cache' = cache /\ run' = run
  BY CenterExtends DEF client
<1>2. 0..latest \subseteq 0..latest'
  BY <1>1
<1>3. ClientInv'
  <2>1. loaded' \in 0..latest' \cup {None}
    BY <1>1, <1>2 DEF ClientInv
  <2>2. /\ local' = local
        /\ loaded # None => published'[loaded] = published[loaded]
        /\ loaded # None /\ ~local => Shows(db, published[loaded])
    BY <1>1, CenterExtends DEF ClientInv, client
  <2>3. cache.latest # None =>
          /\ cache.latest \in 0..latest'
          /\ cache.payload[cache.latest] = published'[cache.latest]
    BY <1>1, <1>2 DEF ClientInv
  <2> QED
    BY <1>1, <2>1, <2>2, <2>3 DEF ClientInv, Shows
<1>4. ASSUME NEW r \in Refresher
      PROVE  Carries(r)'
  <2>1. run[r].phase \in Fetched =>
          /\ run[r].manifest \in 0..latest'
          /\ published'[run[r].manifest] = published[run[r].manifest]
    BY <1>1, <1>2 DEF Carries
  <2>2. Carries(r)
    OBVIOUS
  <2> QED
    BY <1>1, <2>1, <2>2 DEF Carries, Fetched
<1> QED
  BY <1>3, <1>4

-------------------------------------------------------------------------------
(* A refresh.                                                              *)

LEMMA NoVersion ==
  ASSUME Types
  PROVE  /\ latest \in Nat /\ None \notin 0..latest /\ 0..latest \subseteq Version
         /\ \A v \in 0..latest \cup {None} : v <= latest /\ v >= None
BY CatalogAssumption DEF Types, Version, None

\* An import or a promotion happens while no other refresh holds anything it has
\* fetched.
LEMMA Alone ==
  ASSUME Types, LockInv, NEW r \in Refresher, Start(r) \/ Step(r) \/ Crash(r),
         NEW s \in Refresher, s # r, run[s].phase \in Fetched
  PROVE  UNCHANGED <<loaded, cache>>
<1>1. lock = s
  BY DEF LockInv, Fetched, Syncing
<1>2. lock # None /\ lock # r
  BY <1>1, Constants
<1>3. run[r].phase \notin Syncing
  BY <1>2 DEF LockInv
<1>4. ~PromotePayload(r) /\ ~PromoteLatest(r) /\ ~Commit(r) /\ ~ImportBundled(r)
  BY <1>2, <1>3 DEF Syncing, PromotePayload, PromoteLatest, Commit, ImportBundled, At
<1> QED
  BY <1>4 DEF Step, Start, Lock, FetchManifest, FetchPayload, Fail, BundledFails, Bootstrap,
              IngestLocally, Recover, Mark, Crash, client

\* What r itself carries after its step.
LEMMA StepCarries ==
  ASSUME Types, LockInv, ClientInv, NEW r \in Refresher, Carries(r),
         Start(r) \/ Step(r) \/ Crash(r)
  PROVE  Carries(r)'
<1> USE DEF Types, RunRow, Fetched
<1>1. CASE Start(r) \/ Lock(r)
  BY <1>1 DEF Start, Lock, Carries
<1>2. CASE FetchManifest(r)
  <2>1. /\ run'[r].phase = "payload" /\ run'[r].manifest = latest
        /\ UNCHANGED <<server, client>>
    BY <1>2 DEF FetchManifest
  <2>2. latest \in 0..latest /\ latest >= loaded
    BY NoVersion DEF ClientInv
  <2> QED
    BY <2>1, <2>2 DEF Carries, server, client
<1>3. CASE FetchPayload(r)
  <2>1. /\ run'[r].phase = "import" /\ run'[r].manifest = run[r].manifest
        /\ run'[r].payload = published[run[r].manifest]
        /\ UNCHANGED <<server, client>>
    BY <1>3 DEF FetchPayload, Verified
  <2>2. run[r].manifest \in 0..latest /\ run[r].manifest >= loaded
    BY <1>3 DEF FetchPayload, At, Carries
  <2> QED
    BY <2>1, <2>2 DEF Carries, server, client
<1>4. CASE PromotePayload(r)
  <2>1. /\ run'[r].phase = "point" /\ run'[r].manifest = run[r].manifest
        /\ run'[r].payload = run[r].payload
        /\ cache' = [cache EXCEPT !.payload[run[r].manifest] = run[r].payload]
        /\ UNCHANGED <<server, db, loaded>>
    BY <1>4 DEF PromotePayload
  <2>2. /\ run[r].manifest \in 0..latest /\ run[r].manifest >= loaded
        /\ run[r].payload = published[run[r].manifest]
    BY <1>4 DEF PromotePayload, At, Carries
  <2>3. cache'.payload[run[r].manifest] = run[r].payload
    BY <2>1, <2>2, NoVersion DEF Cache
  <2> QED
    BY <2>1, <2>2, <2>3 DEF Carries, server
<1>5. CASE PromoteLatest(r)
  <2>1. /\ run'[r].phase = "commit" /\ run'[r].manifest = run[r].manifest
        /\ run'[r].payload = run[r].payload
        /\ cache' = [cache EXCEPT !.latest = run[r].manifest]
        /\ UNCHANGED <<server, db, loaded>>
    BY <1>5 DEF PromoteLatest
  <2>2. cache'.payload = cache.payload
    BY <2>1 DEF Cache
  <2> QED
    BY <1>5, <2>1, <2>2 DEF PromoteLatest, At, Carries, server
<1>6. ASSUME run'[r].phase \notin Fetched
      PROVE  Carries(r)'
  BY <1>6 DEF Carries
<1>7. CASE Commit(r) \/ ImportBundled(r)
  <2>1. run'[r].phase = "mark"
    BY <1>7 DEF Commit, ImportBundled
  <2> QED
    BY <1>6, <2>1
<1>8. CASE Fail(r) \/ BundledFails(r) \/ Recover(r) \/ Mark(r) \/ Crash(r)
  <2>1. run'[r].phase \in {"idle", "bundled", "bootstrap"}
    BY <1>8 DEF Fail, BundledFails, Recover, Mark, Crash, Resting
  <2> QED
    BY <1>6, <2>1
<1>9. CASE Bootstrap(r)
  <2>1. run'[r].phase = "ingest"
    BY <1>9 DEF Bootstrap
  <2> QED
    BY <1>6, <2>1
<1>10. CASE \E b \in Board, complete \in BOOLEAN :
              \E listed \in SUBSET JobsOf(b) : IngestLocally(r, b, listed, complete)
  <2>1. run'[r].phase = "ingest"
    BY <1>10 DEF IngestLocally, At
  <2> QED
    BY <1>6, <2>1
<1> QED
  BY <1>1, <1>2, <1>3, <1>4, <1>5, <1>7, <1>8, <1>9, <1>10 DEF Step

LEMMA OthersCarry ==
  ASSUME Types, LockInv, NEW r \in Refresher, Start(r) \/ Step(r) \/ Crash(r),
         NEW s \in Refresher, s # r, Carries(s)
  PROVE  Carries(s)'
<1>1. run'[s] = run[s]
  BY StepEffect
<1>2. UNCHANGED server
  BY DEF Step, Start, Lock, FetchManifest, FetchPayload, PromotePayload,
         PromoteLatest, Commit, Fail, ImportBundled, BundledFails, Bootstrap,
         IngestLocally, Recover, Mark, Crash
<1>3. CASE run[s].phase \in Fetched
  BY <1>1, <1>2, <1>3, Alone DEF Carries, server, client
<1>4. CASE run[s].phase \notin Fetched
  BY <1>1, <1>4 DEF Carries, Fetched
<1> QED
  BY <1>3, <1>4

\* What a step leaves in the cache and in the database.
LEMMA StepClient ==
  ASSUME Types, LockInv, ClientInv, NEW r \in Refresher, Carries(r),
         Start(r) \/ Step(r) \/ Crash(r)
  PROVE  ClientInv'
<1> USE DEF Types
<1>0. UNCHANGED server
  BY DEF Step, Start, Lock, FetchManifest, FetchPayload, PromotePayload,
         PromoteLatest, Commit, Fail, ImportBundled, BundledFails, Bootstrap,
         IngestLocally, Recover, Mark, Crash
<1>1. CASE UNCHANGED client
  BY <1>0, <1>1 DEF ClientInv, Shows, server, client
<1>2. CASE PromotePayload(r)
  <2>1. /\ cache' = [cache EXCEPT !.payload[run[r].manifest] = run[r].payload]
        /\ run[r].manifest \in 0..latest
        /\ run[r].payload = published[run[r].manifest]
    BY <1>2 DEF PromotePayload, At, Carries, Fetched
  <2>2. cache'.latest = cache.latest
    BY <2>1 DEF Cache
  <2>3. \A v \in 0..latest : cache'.payload[v] =
          IF v = run[r].manifest THEN published[v] ELSE cache.payload[v]
    BY <2>1, NoVersion DEF Cache
  <2>4. db' = db /\ loaded' = loaded /\ local' = local
    BY <1>2 DEF PromotePayload
  <2> QED
    BY <1>0, <2>2, <2>3, <2>4 DEF ClientInv, Shows, server
<1>3. CASE PromoteLatest(r)
  <2>1. /\ run[r].manifest \in 0..latest
        /\ cache.payload[run[r].manifest] = published[run[r].manifest]
    BY <1>3 DEF PromoteLatest, At, Carries, Fetched
  <2>2. cache'.latest = run[r].manifest /\ cache'.payload = cache.payload
    BY <1>3 DEF PromoteLatest, Cache
  <2>3. db' = db /\ loaded' = loaded /\ local' = local
    BY <1>3 DEF PromoteLatest
  <2> QED
    BY <1>0, <2>1, <2>2, <2>3 DEF ClientInv, Shows, server
<1>4. ASSUME NEW v \in 0..latest, db' = Import(published[v]), loaded' = v, cache' = cache
      PROVE  ClientInv'
  <2>1. published[v] \in Database
    BY NoVersion
  <2>2. Shows(db', published[v])
    BY <1>4, <2>1, ImportShows
  <2> QED
    BY <1>0, <1>4, <2>2 DEF ClientInv, Shows, server
<1>5. CASE Commit(r)
  <2>1. run[r].manifest \in 0..latest /\ run[r].payload = published[run[r].manifest]
    BY <1>5 DEF Commit, At, Carries, Fetched
  <2> QED
    BY <1>4, <1>5, <2>1 DEF Commit
<1>6. CASE ImportBundled(r)
  <2>1. 0 \in 0..latest
    BY NoVersion
  <2> QED
    BY <1>4, <1>6, <2>1 DEF ImportBundled
<1>7. CASE local' /\ loaded' = loaded /\ cache' = cache
  BY <1>0, <1>7 DEF ClientInv, server
<1>8. \/ Commit(r) \/ ImportBundled(r) \/ PromotePayload(r) \/ PromoteLatest(r)
      \/ UNCHANGED client
      \/ local' /\ loaded' = loaded /\ cache' = cache
  BY DEF Step, Start, Lock, FetchManifest, FetchPayload, Fail, BundledFails, Bootstrap,
         IngestLocally, Recover, Mark, Crash
<1> QED
  BY <1>1, <1>2, <1>3, <1>5, <1>6, <1>7, <1>8

-------------------------------------------------------------------------------
(* The theorems.                                                           *)

LEMMA InitInv == Init => IInv
<1> SUFFICES ASSUME Init
             PROVE  IInv
  OBVIOUS
<1>1. Types /\ TypeOK
  BY InitTypes, TypeParts
<1>2. ClientInv
  BY DEF Init, ClientInv
<1>3. \A r \in Refresher : Carries(r)
  BY DEF Init, Resting, Carries, Fetched
<1> QED
  BY <1>1, <1>2, <1>3 DEF IInv

LEMMA StepInv == IInv /\ [Next]_vars => IInv'
<1> SUFFICES ASSUME IInv, [Next]_vars
             PROVE  Types' /\ LockInv' /\ ClientInv'
                    /\ \A r \in Refresher : Carries(r)'
  BY DEF IInv, TypeOK, Types, LockInv, Client, Cache, RunRow, Phase
<1>1. Types /\ LockInv /\ ClientInv /\ \A r \in Refresher : Carries(r)
  BY TypeParts DEF IInv
<1>2. ASSUME NEW r \in Refresher, Start(r) \/ Step(r) \/ Crash(r)
      PROVE  Types' /\ LockInv' /\ ClientInv'
             /\ \A s \in Refresher : Carries(s)'
  <2>1. Types' /\ LockInv'
    BY <1>1, <1>2, RefreshTypes, RefreshLock
  <2>2. ClientInv'
    BY <1>1, <1>2, StepClient
  <2>3. \A s \in Refresher : Carries(s)'
    BY <1>1, <1>2, StepCarries, OthersCarry
  <2> QED
    BY <2>1, <2>2, <2>3
<1>3. CASE Center
  <2>1. Types'
    BY <1>1, <1>3, CenterTypes
  <2>2. LockInv'
    BY <1>1, <1>3, CenterExtends DEF LockInv
  <2>3. ClientInv' /\ \A r \in Refresher : Carries(r)'
    BY <1>1, <1>3, CenterKeepsClient
  <2> QED
    BY <2>1, <2>2, <2>3
<1>4. CASE UNCHANGED vars
  BY <1>1, <1>4 DEF vars, Types, LockInv, ClientInv, Carries, Shows
<1> QED
  BY <1>2, <1>3, <1>4 DEF Next

\* The inductive invariant: whatever refreshes fail, die or overlap, what each
\* of them, the cache and the database hold is what was published.
THEOREM CatalogInvariant == Spec => []IInv
BY InitInv, StepInv, PTL DEF Spec

\* A crash between the two promotions leaves a whole cache: latest.json never
\* names a payload other than the one published under that version.
THEOREM CacheWhole == Spec => []CacheValid
<1>1. IInv => CacheValid
  BY DEF IInv, ClientInv, CacheValid
<1> QED
  BY <1>1, CatalogInvariant, PTL

\* Of every board that the loaded catalog is authoritative about, the client
\* shows what the catalog lists, however many versions it has skipped.
THEOREM ClientExact == Spec => []ExactlyPublished
<1>1. IInv => ExactlyPublished
  BY DEF IInv, ClientInv, Shows, ExactlyPublished
<1> QED
  BY <1>1, CatalogInvariant, PTL

\* A client loses a job only to a catalog with authority over its board.
THEOREM PartialKept == Spec => PartialKeepsJobs
<1> DEFINE Closing ==
      ~local' =>
        \A j \in db.open \ db'.open :
          LET listing == published[loaded'].board[BoardOf[j]] IN
          IF listing.known THEN listing.complete \/ ~listing.enabled
                           ELSE BoardOf[j] \in db.managed
<1>1. IInv /\ [Next]_vars => [Closing]_vars
  <2> SUFFICES ASSUME IInv, [Next]_vars
               PROVE  Closing
    OBVIOUS
  <2>1. Types /\ \A r \in Refresher : Carries(r)
    BY TypeParts DEF IInv
  <2>2. ASSUME NEW v \in 0..latest, db' = Import(published[v]), loaded' = v
        PROVE  Closing
    <3>1. published[v] \in Database /\ db \in Client
      BY <2>1, NoVersion DEF Types
    <3> QED
      BY <2>2, <3>1, ImportCloses DEF Authoritative
  <2>3. ASSUME NEW r \in Refresher, Commit(r)
        PROVE  Closing
    <3>1. run[r].manifest \in 0..latest /\ run[r].payload = published[run[r].manifest]
      BY <2>1, <2>3 DEF Commit, At, Carries, Fetched
    <3> QED
      BY <2>2, <2>3, <3>1 DEF Commit
  <2>4. ASSUME NEW r \in Refresher, ImportBundled(r)
        PROVE  Closing
    <3>1. 0 \in 0..latest
      BY <2>1, NoVersion
    <3> QED
      BY <2>2, <2>4, <3>1 DEF ImportBundled
  <2>5. CASE db' = db \/ local'
    BY <2>5
  <2>6. \/ \E r \in Refresher : Commit(r) \/ ImportBundled(r)
        \/ db' = db \/ local'
    BY <2>1, CenterExtends
       DEF Next, Step, Start, Lock, FetchManifest, FetchPayload, PromotePayload,
           PromoteLatest, Fail, BundledFails, Bootstrap, IngestLocally, Recover, Mark,
           Crash, client, vars
  <2> QED
    BY <2>3, <2>4, <2>5, <2>6
<1>2. Spec => [][Closing]_vars
  BY <1>1, CatalogInvariant, PTL DEF Spec
<1> QED
  BY <1>2 DEF PartialKeepsJobs

\* Two processes that synchronise at once never set the client back.
THEOREM SyncForward == Spec => SyncNeverRegresses
<1> DEFINE Forward ==
      \A r \in Refresher : run[r].phase = "commit" /\ loaded' # loaded =>
        loaded' >= loaded
<1>1. IInv /\ [Next]_vars => [Forward]_vars
  <2> SUFFICES ASSUME IInv, [Next]_vars,
                      NEW r \in Refresher, run[r].phase = "commit", loaded' # loaded
               PROVE  loaded' >= loaded
    OBVIOUS
  <2>1. Types /\ LockInv /\ Carries(r)
    BY TypeParts DEF IInv
  <2>2. lock = r /\ lock # None
    BY <2>1, Constants DEF LockInv, Syncing
  <2>3. \A s \in Refresher : ~ImportBundled(s)
    BY <2>2 DEF ImportBundled
  <2>4. \A s \in Refresher : Commit(s) => s = r
    BY <2>1, <2>2 DEF Commit, At, LockInv, Syncing
  <2>5. Commit(r)
    BY <2>1, <2>3, <2>4, CenterExtends
       DEF Next, Step, Start, Lock, FetchManifest, FetchPayload, PromotePayload,
           PromoteLatest, Fail, BundledFails, Bootstrap, IngestLocally, Recover, Mark,
           Crash, client, vars
  <2> QED
    BY <2>1, <2>5 DEF Commit, At, Carries, Fetched
<1>2. Spec => [][Forward]_vars
  BY <1>1, CatalogInvariant, PTL DEF Spec
<1> QED
  BY <1>2 DEF SyncNeverRegresses
==============================================================================
