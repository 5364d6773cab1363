-------------------------- MODULE MarketDataBranch ---------------------------
(***************************************************************************)
(* Runs of the three workflows over one branch: each asks whether the      *)
(* branch exists, fetches it, works for up to an hour on what it fetched,  *)
(* and pushes an orphan commit that replaces the branch if it still is the *)
(* one fetched (--force-with-lease).  A maintainer may push or delete in   *)
(* between, and a run may fail, be cancelled or run out of time anywhere.  *)
(*                                                                         *)
(* That one run of the concurrency group proceeds at a time, and that git  *)
(* replaces a branch atomically, is GitHub's.                              *)
(***************************************************************************)
EXTENDS MarketDataFiles

CONSTANTS Runner,     \* runs that may be in progress
          KindOf,     \* the workflow of each
          Grouped,    \* the concurrency group holds
          Reruns,     \* earlier ingestion runs are run again, under their ids
          MaxCommits  \* bound of the exploration: commits

ASSUME BranchAssumption ==
  /\ KindOf \in [Runner -> Workflow]
  /\ Grouped \in BOOLEAN /\ Reruns \in BOOLEAN
  /\ MaxCommits \in Nat

VARIABLES
  branch,   \* the commit it points to, 0 if it does not exist, and its content
  commits,  \* commits made so far
  issued,   \* the id of the last ingestion run
  run       \* the runs in progress

vars == <<branch, commits, issued, run>>

Branch == [sha : Nat, content : Content]
Absent == [sha |-> 0, content |-> Nothing]

Idle == [phase |-> "idle", id |-> 0, base |-> Absent, rows |-> Fresh]

\* Branches earlier versions may have left: none, or one with the database in
\* one file, with or without the registry their hourly writer used to drop.
Legacy ==
  {Absent} \cup
  {[sha |-> 1,
    content |-> [Nothing EXCEPT
      !.registry = registry, !.discovery = [live |-> Bundled, failed |-> {}],
      !.state.blob = [live |-> Bundled, failed |-> {}]]] :
     registry \in {{}, Bundled}}

Init ==
  /\ branch \in Legacy /\ commits = branch.sha
  /\ issued = 0
  /\ run = [r \in Runner |-> Idle]

At(r, phase) == run[r].phase = phase

-------------------------------------------------------------------------------
(* A run.                                                                  *)

\* A new run has the next id; running a run again gives it the id it had.
Issued(id) == id = issued + 1 \/ (Reruns /\ id <= issued)

Begin(r) ==
  /\ At(r, "idle")
  /\ Grouped => \A other \in Runner : At(other, "idle")
  /\ IF KindOf[r] = "ingest"
       THEN \E id \in RunId :
              /\ Issued(id)
              /\ issued' = IF id > issued THEN id ELSE issued
              /\ run' = [run EXCEPT ![r] = [Idle EXCEPT !.phase = "listing", !.id = id]]
       ELSE /\ run' = [run EXCEPT ![r] = [Idle EXCEPT !.phase = "listing"]]
            /\ UNCHANGED issued
  /\ UNCHANGED <<branch, commits>>

\* git ls-remote: without a branch the run starts cold.
List(r) ==
  /\ At(r, "listing")
  /\ run' = [run EXCEPT ![r].phase = IF branch.sha = 0 THEN "restored" ELSE "fetching"]
  /\ UNCHANGED <<branch, commits, issued>>

\* git fetch, and MARKET_DATA_BASE_SHA; a branch deleted by now fails the run.
Fetch(r) ==
  /\ At(r, "fetching") /\ branch.sha # 0
  /\ run' = [run EXCEPT ![r].phase = "restored", ![r].base = branch]
  /\ UNCHANGED <<branch, commits, issued>>

Ingest(r) ==
  /\ At(r, "restored") /\ KindOf[r] = "ingest"
  /\ \E rows \in Ingestions(run[r].base.content) :
       run' = [run EXCEPT ![r].phase = "worked", ![r].rows = rows]
  /\ UNCHANGED <<branch, commits, issued>>

Discover(r) ==
  /\ At(r, "restored") /\ KindOf[r] # "ingest"
  /\ \E rows \in Probes(run[r].base.content) :
       run' = [run EXCEPT ![r].phase = "worked", ![r].rows = rows]
  /\ UNCHANGED <<branch, commits, issued>>

\* Mutant: git push --force.
Forced(r) == TRUE

\* --force-with-lease=refs/heads/market-data:$MARKET_DATA_BASE_SHA
Leased(r) == branch.sha = run[r].base.sha

\* The commit is made of what was fetched; a refused push fails the run.
Push(r) ==
  /\ At(r, "worked") /\ commits < MaxCommits
  /\ run' = [run EXCEPT ![r] = Idle]
  /\ IF Leased(r)
       THEN /\ \E n \in 1..MaxChunks :
                 branch' = [sha |-> commits + 1,
                            content |->
                              IF KindOf[r] = "ingest"
                                THEN PublishIngestion(run[r].base.content, run[r].id, run[r].rows, n)
                                ELSE PublishDiscovery(run[r].base.content, run[r].rows)]
            /\ commits' = commits + 1
       ELSE UNCHANGED <<branch, commits>>
  /\ UNCHANGED issued

\* A step fails, the run is cancelled or its time is over.
Fail(r) ==
  /\ ~At(r, "idle")
  /\ run' = [run EXCEPT ![r] = Idle]
  /\ UNCHANGED <<branch, commits, issued>>

-------------------------------------------------------------------------------
(* A maintainer.                                                           *)

Amend ==
  /\ branch.sha # 0 /\ commits < MaxCommits
  /\ \E registry \in SUBSET Board :
       /\ registry # branch.content.registry
       /\ branch' = [sha |-> commits + 1,
                     content |-> [branch.content EXCEPT !.registry = registry]]
  /\ commits' = commits + 1
  /\ UNCHANGED <<issued, run>>

Delete ==
  /\ branch.sha # 0
  /\ branch' = Absent
  /\ UNCHANGED <<commits, issued, run>>

Next ==
  \/ \E r \in Runner : \/ Begin(r) \/ List(r) \/ Fetch(r) \/ Ingest(r) \/ Discover(r)
                       \/ Push(r) \/ Fail(r)
  \/ Amend
  \/ Delete

Spec == Init /\ [][Next]_vars

-------------------------------------------------------------------------------
(* Properties.                                                             *)

TypeOK ==
  /\ branch \in Branch /\ commits \in Nat /\ issued \in {0} \cup RunId
  /\ run \in [Runner -> [phase : {"idle", "listing", "fetching", "restored", "worked"},
                         id : {0} \cup RunId, base : Branch, rows : Database]]

\* Whatever runs, fails or is pushed by hand while a run works on what it has
\* fetched, the branch changes as if the run had been made at once, when it is
\* pushed: nothing that others published in the meantime is lost.
Serial == INSTANCE MarketData WITH branch <- branch.content

OneAtATime == Serial!Spec

Publishes == \E r \in Runner : At(r, "worked") /\ commits' # commits /\ run' # run

\* A board leaves the published registry only by a publication whose discovery
\* has seen it fail, and the ingestion's state only by one whose ingestion has.
BoardsKept ==
  [][Publishes =>
       /\ branch.content.registry \ branch'.content.registry
            \subseteq branch'.content.discovery.failed
       /\ Restored(branch.content.state).live \ Restored(branch'.content.state).live
            \subseteq Restored(branch'.content.state).failed]_vars

\* The parts of the packed database are those its manifest lists, each whole, and
\* the single file of earlier versions is gone: what the next run restores is what
\* the last one stored.
StateIsWhole ==
  LET state == branch.content.state
  IN  /\ Restorable(state)
      /\ state.manifest.chunks > 0 =>
           /\ state.blob = Fresh
           /\ \A p \in state.parts : p.index <= state.manifest.chunks

\* latest.json names a payload that is there, and it shows the boards that are
\* live in the database stored beside it.
LatestIsThere ==
  LET content == branch.content
      latest == content.catalog.latest
  IN  latest # 0 => \E p \in content.catalog.payloads :
                      p.id = latest /\ p.boards = Restored(content.state).live

\* A payload that has been published is never replaced by another of its name,
\* which a client may be downloading.
PayloadsImmutable ==
  [][\A p \in branch.content.catalog.payloads, q \in branch'.content.catalog.payloads :
       p.id = q.id => p = q]_vars
==============================================================================
