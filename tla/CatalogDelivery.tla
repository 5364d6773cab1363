--------------------------- MODULE CatalogDelivery ---------------------------
(***************************************************************************)
(* How jobs reach an installed client: the central database is published   *)
(* as numbered catalog snapshots on the market-data branch, and a desktop  *)
(* refresh (packaging/windows/launcher.py, refresh_jobs) downloads the     *)
(* newest one, imports it and promotes it into a cache, or falls back to   *)
(* the catalog the release was packaged with (catalog/delivery.py), or to  *)
(* the providers themselves.                                               *)
(*                                                                         *)
(* A snapshot says of each board whether it is enabled and whether its     *)
(* last enumeration was complete, and which of its jobs are open.  Of a    *)
(* client's boards only what an import reads is kept: which of them came   *)
(* with a catalog.  A file's SHA-256 is modelled by its content.           *)
(***************************************************************************)
EXTENDS Integers

CONSTANTS Board, Job,
          BoardOf,      \* the board that lists a job
          Refresher,    \* processes that refresh one installed client
          Keep,         \* payloads retained on the branch (14)
          MaxVersion    \* bound of the exploration: versions published

None == -1
Absent == [known |-> FALSE, enabled |-> FALSE, complete |-> FALSE]
Empty == [board |-> [b \in Board |-> Absent], open |-> {}]

ASSUME CatalogAssumption ==
  /\ BoardOf \in [Job -> Board]
  /\ None \notin Refresher
  /\ Keep \in Nat \ {0}
  /\ MaxVersion \in Nat

VARIABLES
  central,    \* the central database
  published,  \* the snapshot of every version
  latest,     \* the version latest.json names; version 0 is the packaged one
  db,         \* the client's committed database
  loaded,     \* history: the version the client imported last
  local,      \* history: it has asked providers itself since then
  cache,      \* the client's catalog-cache directory
  lock,       \* who holds database_write_lock
  run         \* the refreshes in progress

vars == <<central, published, latest, db, loaded, local, cache, lock, run>>
server == <<central, published, latest>>
client == <<db, loaded, local, cache>>

Known(snapshot) == {b \in Board : snapshot.board[b].known}
JobsOf(b) == {j \in Job : BoardOf[j] = b}
Resting == [phase |-> "idle", manifest |-> None, payload |-> Empty, outcome |-> "none"]

Init ==
  /\ central \in [board : [Board -> {Absent, [known |-> TRUE, enabled |-> TRUE, complete |-> TRUE]}],
                  open : SUBSET Job]
  /\ \A j \in central.open : BoardOf[j] \in Known(central)
  /\ published = [v \in 0..MaxVersion |-> IF v = 0 THEN central ELSE Empty]
  /\ latest = 0
  /\ db = [managed |-> {}, open |-> {}] /\ loaded = None /\ local = FALSE
  /\ cache = [latest |-> None, payload |-> [v \in 0..MaxVersion |-> Empty]]
  /\ lock = None
  /\ run = [r \in Refresher |-> Resting]

-------------------------------------------------------------------------------
(* The centre.  What it learns after the last version would never be       *)
(* published: the exploration stops it there (Publishing).                 *)

Publishing == latest < MaxVersion

\* A board is added: its metadata says nothing yet of an enumeration.
Discover(b, enabled) ==
  /\ Publishing /\ b \notin Known(central)
  /\ central' = [central EXCEPT
       !.board[b] = [known |-> TRUE, enabled |-> enabled, complete |-> TRUE]]
  /\ UNCHANGED <<published, latest, client, lock, run>>

\* The jobs of an open set after board b has listed some of its jobs; a partial
\* listing closes nothing.
Listed(open, b, listed, complete) ==
  (IF complete THEN open \ JobsOf(b) ELSE open) \cup listed

\* A successful refresh of a board.
Refresh(b, listed, complete) ==
  /\ Publishing
  /\ central' =
       [board |-> [central.board EXCEPT
                     ![b] = [known |-> TRUE, enabled |-> TRUE, complete |-> complete]],
        open |-> Listed(central.open, b, listed, complete)]
  /\ UNCHANGED <<published, latest, client, lock, run>>

\* A third failure in a row, or a 404, disables a board; a valid probe enables
\* it.  Its jobs stay as they are.
Validate(b, enabled) ==
  /\ Publishing /\ b \in Known(central)
  /\ central' = [central EXCEPT !.board[b].enabled = enabled]
  /\ UNCHANGED <<published, latest, client, lock, run>>

\* publish_catalog: the active jobs of enabled boards.
Snapshot ==
  [central EXCEPT !.open = {j \in @ : central.board[BoardOf[j]].enabled}]

\* One commit replaces the branch: the new payload, latest.json, the newest
\* Keep payloads.
Publish ==
  /\ Publishing
  /\ latest' = latest + 1
  /\ published' = [published EXCEPT ![latest + 1] = Snapshot]
  /\ UNCHANGED <<central, client, lock, run>>

Retained(v) == v \in 0..latest /\ latest - v < Keep

-------------------------------------------------------------------------------
(* import_catalog.                                                         *)

\* Mutant: boards that a later catalog has dropped are left alone.
AuthoritativeIfListed(b, snapshot) ==
  /\ snapshot.board[b].known
  /\ ~snapshot.board[b].enabled \/ snapshot.board[b].complete

\* Mutant: whatever a catalog lists, it lists completely.
AuthoritativeAlways(b, snapshot) ==
  snapshot.board[b].known \/ b \in db.managed

\* What a snapshot does not list of such a board is closed.
Authoritative(b, snapshot) ==
  IF snapshot.board[b].known
  THEN ~snapshot.board[b].enabled \/ snapshot.board[b].complete
  ELSE b \in db.managed

Import(snapshot) ==
  [managed |-> db.managed \cup Known(snapshot),
   open |-> snapshot.open \cup {j \in db.open : ~Authoritative(BoardOf[j], snapshot)}]

-------------------------------------------------------------------------------
(* refresh_jobs.                                                           *)

At(r, phase) == run[r].phase = phase
Syncing == {"manifest", "payload", "import", "point", "commit"}
Released(r) == IF lock = r THEN None ELSE lock

Start(r) ==
  /\ At(r, "idle")
  /\ run' = [run EXCEPT ![r].phase = "sync"]
  /\ UNCHANGED <<server, client, lock>>

\* Mutant: the lock is not taken for the download.
LockLater(r) ==
  /\ At(r, "sync") /\ lock = None
  /\ run' = [run EXCEPT ![r].phase = "manifest"]
  /\ UNCHANGED <<server, client, lock>>

Lock(r) ==
  /\ At(r, "sync") /\ lock = None
  /\ lock' = r
  /\ run' = [run EXCEPT ![r].phase = "manifest"]
  /\ UNCHANGED <<server, client>>

FetchManifest(r) ==
  /\ At(r, "manifest")
  /\ run' = [run EXCEPT ![r].phase = "payload", ![r].manifest = latest]
  /\ UNCHANGED <<server, client, lock>>

\* Size and SHA-256 of the manifest: content is what it describes.
Verified(r, content) == content = published[run[r].manifest]

\* The payload is requested by name, after the manifest: it may have been
\* pruned meanwhile.  Empty stands for any other answer: a truncated file, an
\* error page.
FetchPayload(r) ==
  /\ At(r, "payload")
  /\ Retained(run[r].manifest)
  /\ \E content \in {published[run[r].manifest], Empty} :
       /\ Verified(r, content)
       /\ run' = [run EXCEPT ![r].phase = "import", ![r].payload = content]
  /\ UNCHANGED <<server, client, lock>>

\* Mutant: the pointer is promoted with the payload still in the stage.
PromoteLatestFirst(r) ==
  /\ At(r, "import")
  /\ cache' = [cache EXCEPT !.latest = run[r].manifest]
  /\ run' = [run EXCEPT ![r].phase = "point"]
  /\ UNCHANGED <<server, db, loaded, local, lock>>

\* import_catalog has flushed, not committed; the payload is promoted.
PromotePayload(r) ==
  /\ At(r, "import")
  /\ cache' = [cache EXCEPT !.payload[run[r].manifest] = run[r].payload]
  /\ run' = [run EXCEPT ![r].phase = "point"]
  /\ UNCHANGED <<server, db, loaded, local, lock>>

PromoteLatest(r) ==
  /\ At(r, "point")
  /\ cache' = [cache EXCEPT !.latest = run[r].manifest]
  /\ run' = [run EXCEPT ![r].phase = "commit"]
  /\ UNCHANGED <<server, db, loaded, local, lock>>

\* Mutant: the lock file stays behind.
CommitHolding(r) ==
  /\ At(r, "commit")
  /\ db' = Import(run[r].payload)
  /\ loaded' = run[r].manifest /\ local' = FALSE
  /\ run' = [run EXCEPT ![r].phase = "mark", ![r].outcome = "success"]
  /\ UNCHANGED <<server, cache, lock>>

\* The sponsor evidence is reconciled and the session committed.
Commit(r) ==
  /\ At(r, "commit")
  /\ db' = Import(run[r].payload)
  /\ loaded' = run[r].manifest /\ local' = FALSE
  /\ lock' = Released(r)
  /\ run' = [run EXCEPT ![r].phase = "mark", ![r].outcome = "success"]
  /\ UNCHANGED <<server, cache>>

\* Anything that raises on the way, a lock held by another process included,
\* and also once the session is committed.  Before, it is rolled back; the cache
\* is not.
Fail(r) ==
  /\ \/ run[r].phase \in Syncing
     \/ At(r, "sync") /\ lock # None
     \/ At(r, "mark") /\ run[r].outcome = "success"
  /\ lock' = Released(r)
  /\ run' = [run EXCEPT ![r] = [Resting EXCEPT !.phase = "bundled"]]
  /\ UNCHANGED <<server, client>>

\* The packaged catalog is imported and committed under the lock.
ImportBundled(r) ==
  /\ At(r, "bundled") /\ lock = None
  /\ db' = Import(published[0])
  /\ loaded' = 0 /\ local' = FALSE
  /\ run' = [run EXCEPT ![r].phase = "mark", ![r].outcome = "stale_fallback"]
  /\ UNCHANGED <<server, cache, lock>>

\* There is none, or that fails too, in the import or after it.
BundledFails(r) ==
  /\ At(r, "bundled") \/ (At(r, "mark") /\ run[r].outcome = "stale_fallback")
  /\ run' = [run EXCEPT ![r] = [Resting EXCEPT !.phase = "bootstrap"]]
  /\ UNCHANGED <<server, client, lock>>

\* A first run registers the packaged boards, which no catalog manages.  The
\* lock is held for that transaction only.
Bootstrap(r) ==
  /\ At(r, "bootstrap") /\ lock = None
  /\ run' = [run EXCEPT ![r].phase = "ingest"]
  /\ UNCHANGED <<server, client, lock>>

\* One board is asked and stored (SourceRegistry, BoardRefresh), without the lock.
IngestLocally(r, b, listed, complete) ==
  /\ At(r, "ingest")
  /\ db' = [db EXCEPT !.open = Listed(@, b, listed, complete)]
  /\ local' = TRUE
  /\ UNCHANGED <<server, loaded, cache, lock, run>>

\* The last rung ends: without the lock, or when it has asked enough boards.
Recover(r) ==
  /\ At(r, "bootstrap") \/ At(r, "ingest")
  /\ run' = [run EXCEPT ![r] = Resting]
  /\ UNCHANGED <<server, client, lock>>

\* mark_refreshed, mark_stale_fallback: the refresh has ended.
Mark(r) ==
  /\ At(r, "mark")
  /\ run' = [run EXCEPT ![r] = Resting]
  /\ UNCHANGED <<server, client, lock>>

\* The process ends; its lock is recovered by the next caller (WriterLock).
Crash(r) ==
  /\ ~At(r, "idle")
  /\ run' = [run EXCEPT ![r] = Resting]
  /\ lock' = Released(r)
  /\ UNCHANGED <<server, client>>

Step(r) ==
  \/ Lock(r) \/ FetchManifest(r) \/ FetchPayload(r)
  \/ PromotePayload(r) \/ PromoteLatest(r) \/ Commit(r)
  \/ Fail(r) \/ ImportBundled(r) \/ BundledFails(r) \/ Bootstrap(r)
  \/ \E b \in Board, complete \in BOOLEAN :
       \E listed \in SUBSET JobsOf(b) : IngestLocally(r, b, listed, complete)
  \/ Recover(r) \/ Mark(r)

Center ==
  \/ \E b \in Board, enabled \in BOOLEAN : Discover(b, enabled) \/ Validate(b, enabled)
  \/ \E b \in Board, complete \in BOOLEAN :
       \E listed \in SUBSET JobsOf(b) : Refresh(b, listed, complete)
  \/ Publish

Next ==
  \/ Center
  \/ \E r \in Refresher : Start(r) \/ Step(r) \/ Crash(r)

Spec == Init /\ [][Next]_vars

-------------------------------------------------------------------------------

Entry == [known : BOOLEAN, enabled : BOOLEAN, complete : BOOLEAN]
Database == [board : [Board -> Entry], open : SUBSET Job]
Version == 0..MaxVersion

\* Type correctness, and the lock is held by exactly the synchronising refresh.
TypeOK ==
  /\ central \in Database
  /\ db \in [managed : SUBSET Board, open : SUBSET Job] /\ local \in BOOLEAN
  /\ published \in [Version -> Database]
  /\ latest \in Version /\ loaded \in Version \cup {None}
  /\ cache \in [latest : Version \cup {None}, payload : [Version -> Database]]
  /\ run \in [Refresher ->
       [phase : Syncing \cup {"idle", "sync", "bundled", "bootstrap", "ingest", "mark"},
        manifest : Version \cup {None}, payload : Database,
        outcome : {"none", "success", "stale_fallback"}]]
  /\ \A r \in Refresher : lock = r <=> run[r].phase \in Syncing

\* "A versioned payload is promoted first and latest.json is replaced last": at
\* every instant, also after a crash, the cached pointer names a payload in the
\* cache that is the one published under that version.
CacheValid ==
  cache.latest # None => cache.payload[cache.latest] = published[cache.latest]

\* "A complete enumeration is authoritative even when it contains zero jobs": of
\* a board that the imported catalog lists completely, has disabled or has
\* dropped, the client shows just the jobs the catalog lists, whatever the
\* database held, from another catalog or from a provider, and whatever failed
\* before.
ExactlyPublished ==
  loaded # None /\ ~local =>
    LET snapshot == published[loaded] IN
    \A b \in Board :
      (IF snapshot.board[b].known
       THEN ~snapshot.board[b].enabled \/ snapshot.board[b].complete
       ELSE b \in db.managed)
        => db.open \cap JobsOf(b) = snapshot.open \cap JobsOf(b)

\* "Partial omissions do not cause false deactivation": a job that the client
\* shows stays until the provider, or a catalog that lists its board completely,
\* has disabled it or has dropped it, closes it.
PartialKeepsJobs ==
  [][~local' =>
       \A j \in db.open \ db'.open :
         LET listing == published[loaded'].board[BoardOf[j]] IN
         IF listing.known THEN listing.complete \/ ~listing.enabled
                          ELSE BoardOf[j] \in db.managed]_vars

\* Two processes that synchronise at once do not set the client back: what a
\* synchronisation commits is never older than what it replaces.
SyncNeverRegresses ==
  [][\A r \in Refresher : run[r].phase = "commit" /\ loaded' # loaded =>
       loaded' >= loaded]_vars

\* "A failed update preserves the previous valid local catalog": when the
\* download fails and the client shows a catalog it has imported, the data stay.
FailedUpdatePreserves ==
  [][\A r \in Refresher : ImportBundled(r) /\ loaded # None /\ ~local => db' = db]_vars
==============================================================================
