-------------------------- MODULE MarketDataProofs ---------------------------
(***************************************************************************)
(* Proofs about the market-data branch, for any runs, boards and bounds.   *)
(* That a push is refused unless the branch is the one fetched makes each  *)
(* run one step (OneAtATime), whether or not the concurrency group holds;  *)
(* what the catalog promises its readers needs the group, and ids that are *)
(* not used twice.                                                         *)
(***************************************************************************)
EXTENDS MarketDataBranch, FiniteSetTheorems, TLAPS

\* What a run that has come so far may commit.
Results(r) ==
  IF KindOf[r] = "ingest" THEN Ingestions(run[r].base.content)
  ELSE Probes(run[r].base.content)

\* What a run has fetched is the branch as some commit made it, and the branch as
\* it is if it still points to that commit.
WellBased(r) ==
  /\ run[r].base.sha <= commits
  /\ run[r].base.sha = 0 => run[r].base = Absent
  /\ run[r].base.sha = branch.sha => run[r].base = branch
  /\ At(r, "worked") => run[r].rows \in Results(r)
  /\ KindOf[r] = "ingest" /\ ~At(r, "idle") => run[r].id \in RunId

IInv ==
  /\ TypeOK
  /\ branch.sha <= commits
  /\ branch.sha = 0 => branch = Absent
  /\ \A r \in Runner : WellBased(r)

-------------------------------------------------------------------------------
(* Types.                                                                  *)

LEMMA FreshTyped == Fresh \in Database /\ NoState \in Archive /\ Nothing \in Content
  BY FilesAssumption DEF Fresh, NoState, Nothing, Database, Archive, Content, Catalog

LEMMA RestoredTyped ==
  ASSUME NEW state \in Archive
  PROVE  Restored(state) \in Database
  BY DEF Restored, Archive

LEMMA PackedTyped ==
  ASSUME NEW rows \in Database, NEW n \in 1..MaxChunks
  PROVE  /\ Packed(rows, n).manifest \in [of : Database, chunks : 0..MaxChunks]
         /\ Packed(rows, n).parts \subseteq [index : 1..MaxChunks, of : Database]
  BY FilesAssumption DEF Packed

LEMMA IngestionTyped ==
  ASSUME NEW content \in Content, NEW id \in RunId, NEW rows \in Database,
         NEW n \in 1..MaxChunks
  PROVE  PublishIngestion(content, id, rows, n) \in Content
<1>1. Resolved(content) \in SUBSET Board
  BY FilesAssumption DEF Resolved, Content
<1>2. Catalogued(content.catalog, id, rows.live) \in Catalog
  <2>1. Newest({p \in content.catalog.payloads : p.id # id} \cup {[id |-> id, boards |-> rows.live]})
          \subseteq [id : RunId, boards : SUBSET Board]
    BY DEF Newest, Content, Catalog, Database
  <2> QED
    BY <2>1 DEF Catalogued, Catalog
<1>3. Replaced(content.state, Packed(rows, n)) \in Archive
  BY PackedTyped, FreshTyped DEF Replaced, Archive
<1> QED
  BY <1>1, <1>2, <1>3 DEF PublishIngestion, Content

LEMMA DiscoveryTyped ==
  ASSUME NEW content \in Content, NEW rows \in Database
  PROVE  PublishDiscovery(content, rows) \in Content
  BY DEF PublishDiscovery, Content, Database

LEMMA ResultsTyped ==
  ASSUME NEW content
  PROVE  Ingestions(content) \subseteq Database /\ Probes(content) \subseteq Database
  BY DEF Ingestions, Probes

LEMMA LegacyTyped == Legacy \subseteq Branch /\ Absent \in Branch
<1>1. ASSUME NEW registry \in {{}, Bundled}
      PROVE  [Nothing EXCEPT
                !.registry = registry, !.discovery = [live |-> Bundled, failed |-> {}],
                !.state.blob = [live |-> Bundled, failed |-> {}]] \in Content
  <2>1. registry \in SUBSET Board /\ [live |-> Bundled, failed |-> {}] \in Database
    BY FilesAssumption DEF Database
  <2>2. [NoState EXCEPT !.blob = [live |-> Bundled, failed |-> {}]] \in Archive
    BY <2>1, FreshTyped DEF Archive, NoState
  <2> QED
    BY <2>1, <2>2, FreshTyped DEF Content, Nothing
<1> QED
  BY <1>1, FreshTyped DEF Legacy, Absent, Branch

-------------------------------------------------------------------------------
(* The inductive invariant.                                                *)

LEMMA InitInv == Init => IInv
<1> SUFFICES ASSUME Init PROVE IInv
  OBVIOUS
<1>1. branch \in Branch /\ commits = branch.sha /\ (branch.sha = 0 => branch = Absent)
  BY LegacyTyped DEF Init, Legacy, Absent
<1>2. \A r \in Runner : run[r] = Idle
  BY DEF Init
<1>3. TypeOK
  BY <1>1, FreshTyped, LegacyTyped DEF Init, TypeOK, Idle, Branch
<1> QED
  BY <1>1, <1>2, <1>3 DEF IInv, WellBased, Idle, Absent, At, Branch

\* What a push may do to the branch.
LEMMA PushCommits ==
  ASSUME IInv, NEW r \in Runner, Push(r), Leased(r)
  PROVE  /\ branch = run[r].base
         /\ commits' = commits + 1 /\ branch'.sha = commits + 1 /\ branch' \in Branch
         /\ \/ KindOf[r] = "ingest" /\ \E n \in 1..MaxChunks :
                 branch'.content = PublishIngestion(branch.content, run[r].id, run[r].rows, n)
            \/ KindOf[r] # "ingest" /\ branch'.content = PublishDiscovery(branch.content, run[r].rows)
<1>1. branch = run[r].base /\ branch.content \in Content
  BY DEF IInv, WellBased, Leased, TypeOK, Branch
<1>2. run[r].rows \in Database /\ (KindOf[r] = "ingest" => run[r].id \in RunId)
  BY DEF IInv, WellBased, TypeOK, Push, At
<1>3. commits \in Nat
  BY DEF IInv, TypeOK
<1> QED
  BY <1>1, <1>2, <1>3, IngestionTyped, DiscoveryTyped DEF Push, Branch

LEMMA InductiveStep == IInv /\ [Next]_vars => IInv'
<1> SUFFICES ASSUME IInv, [Next]_vars PROVE IInv'
  OBVIOUS
<1> USE DEF IInv
<1>1. ASSUME NEW r \in Runner, Begin(r)
      PROVE  IInv'
  <2>1. run' = [run EXCEPT ![r] = [Idle EXCEPT !.phase = "listing", !.id = run'[r].id]]
        /\ run'[r].id \in {0} \cup RunId /\ (KindOf[r] = "ingest" => run'[r].id \in RunId)
    BY <1>1 DEF Begin, TypeOK, Idle
  <2>2. TypeOK'
    BY <1>1, <2>1, FreshTyped, LegacyTyped DEF Begin, TypeOK, Idle
  <2>3. ASSUME NEW s \in Runner PROVE WellBased(s)'
    <3>1. CASE s = r
      <4>1. run'[s].base = Absent /\ run'[s].phase = "listing"
        BY <2>1, <3>1 DEF TypeOK, Idle
      <4>2. run'[s].base.sha = 0 /\ UNCHANGED <<branch, commits>> /\ commits \in Nat
        <5>1. UNCHANGED <<branch, commits>>
          BY <1>1 DEF Begin
        <5>2. commits \in Nat
          BY DEF TypeOK
        <5> QED
          BY <4>1, <5>1, <5>2 DEF Absent
      <4>3. KindOf[s] = "ingest" => run'[s].id \in RunId
        BY <2>1, <3>1
      <4> QED
        BY <4>1, <4>2, <4>3 DEF WellBased, At
    <3>2. CASE s # r
      <4>1. run'[s] = run[s] /\ UNCHANGED <<branch, commits>>
        BY <1>1, <2>1, <3>2 DEF Begin, TypeOK
      <4> QED
        BY <4>1 DEF WellBased, Results, At
    <3> QED
      BY <3>1, <3>2
  <2> QED
    BY <1>1, <2>2, <2>3 DEF Begin
<1>2. ASSUME NEW r \in Runner, List(r)
      PROVE  IInv'
  <2>1. TypeOK'
    BY <1>2 DEF List, TypeOK
  <2>2. ASSUME NEW s \in Runner PROVE WellBased(s)'
    BY <1>2 DEF List, TypeOK, WellBased, Results, At
  <2> QED
    BY <1>2, <2>1, <2>2 DEF List
<1>3. ASSUME NEW r \in Runner, Fetch(r)
      PROVE  IInv'
  <2>1. TypeOK'
    BY <1>3 DEF Fetch, TypeOK
  <2>2. ASSUME NEW s \in Runner PROVE WellBased(s)'
    BY <1>3 DEF Fetch, TypeOK, WellBased, Results, At
  <2> QED
    BY <1>3, <2>1, <2>2 DEF Fetch
<1>4. ASSUME NEW r \in Runner, Ingest(r)
      PROVE  IInv'
  <2>1. PICK rows \in Ingestions(run[r].base.content) :
          run' = [run EXCEPT ![r].phase = "worked", ![r].rows = rows]
    BY <1>4 DEF Ingest
  <2>2. TypeOK'
    <3>1. rows \in Database
      BY <2>1, ResultsTyped
    <3> QED
      BY <1>4, <2>1, <3>1 DEF Ingest, TypeOK
  <2>3. ASSUME NEW s \in Runner PROVE WellBased(s)'
    BY <1>4, <2>1 DEF Ingest, TypeOK, WellBased, Results, At
  <2> QED
    BY <1>4, <2>2, <2>3 DEF Ingest
<1>5. ASSUME NEW r \in Runner, Discover(r)
      PROVE  IInv'
  <2>1. PICK rows \in Probes(run[r].base.content) :
          run' = [run EXCEPT ![r].phase = "worked", ![r].rows = rows]
    BY <1>5 DEF Discover
  <2>2. TypeOK'
    <3>1. rows \in Database
      BY <2>1, ResultsTyped
    <3>2. run[r] \in [phase : {"idle", "listing", "fetching", "restored", "worked"},
                      id : {0} \cup RunId, base : Branch, rows : Database]
      BY DEF TypeOK
    <3> QED
      BY <1>5, <2>1, <3>1, <3>2 DEF Discover, TypeOK
  <2>3. ASSUME NEW s \in Runner PROVE WellBased(s)'
    BY <1>5, <2>1 DEF Discover, TypeOK, WellBased, Results, At
  <2> QED
    BY <1>5, <2>2, <2>3 DEF Discover
<1>6. ASSUME NEW r \in Runner, Push(r)
      PROVE  IInv'
  <2>1. run' = [run EXCEPT ![r] = Idle] /\ UNCHANGED issued
    BY <1>6 DEF Push
  <2>2. \/ UNCHANGED <<branch, commits>>
        \/ branch' \in Branch /\ commits' = commits + 1 /\ branch'.sha = commits + 1
    BY <1>6, PushCommits DEF Push
  <2>3. TypeOK'
    BY <2>1, <2>2, FreshTyped, LegacyTyped DEF TypeOK, Idle
  <2>4. ASSUME NEW s \in Runner PROVE WellBased(s)'
    BY <2>1, <2>2 DEF TypeOK, Idle, WellBased, Results, At, Absent, Branch
  <2> QED
    BY <2>2, <2>3, <2>4 DEF TypeOK, Branch
<1>7. ASSUME NEW r \in Runner, Fail(r)
      PROVE  IInv'
  <2>1. TypeOK'
    BY <1>7, FreshTyped, LegacyTyped DEF Fail, TypeOK, Idle
  <2>2. ASSUME NEW s \in Runner PROVE WellBased(s)'
    BY <1>7 DEF Fail, TypeOK, Idle, WellBased, Results, At, Absent
  <2> QED
    BY <1>7, <2>1, <2>2 DEF Fail
<1>8. CASE Amend
  <2>1. branch' \in Branch /\ branch'.sha = commits + 1 /\ commits' = commits + 1
        /\ UNCHANGED <<issued, run>>
    BY <1>8 DEF Amend, TypeOK, Branch, Content
  <2>2. TypeOK'
    BY <2>1 DEF TypeOK
  <2>3. ASSUME NEW s \in Runner PROVE WellBased(s)'
    BY <2>1 DEF TypeOK, WellBased, Results, At, Branch
  <2> QED
    BY <2>1, <2>2, <2>3 DEF TypeOK
<1>9. CASE Delete
  <2>1. TypeOK'
    BY <1>9, LegacyTyped DEF Delete, TypeOK
  <2>2. ASSUME NEW s \in Runner PROVE WellBased(s)'
    BY <1>9 DEF Delete, TypeOK, WellBased, Results, At, Absent
  <2> QED
    BY <1>9, <2>1, <2>2 DEF Delete, Absent, TypeOK
<1>10. CASE UNCHANGED vars
  BY <1>10 DEF vars, TypeOK, WellBased, Results, At
<1> QED
  BY <1>1, <1>2, <1>3, <1>4, <1>5, <1>6, <1>7, <1>8, <1>9, <1>10 DEF Next

\* What a run has fetched is the branch if nobody has changed it since.
THEOREM BranchInvariant == Spec => []IInv
  BY InitInv, InductiveStep, PTL DEF Spec

\* Types.
THEOREM BranchTypeCorrect == Spec => []TypeOK
<1>1. IInv => TypeOK
  BY DEF IInv
<1> QED
  BY <1>1, BranchInvariant, PTL

\* Nothing else touches the branch.
LEMMA BranchSteps ==
  ASSUME [Next]_vars
  PROVE  UNCHANGED branch \/ Amend \/ Delete \/ \E r \in Runner : Push(r) /\ Leased(r)
<1>1. ASSUME NEW r \in Runner,
             \/ Begin(r) \/ List(r) \/ Fetch(r) \/ Ingest(r) \/ Discover(r) \/ Fail(r)
             \/ Push(r) /\ ~Leased(r)
      PROVE  UNCHANGED branch
  BY <1>1 DEF Begin, List, Fetch, Ingest, Discover, Fail, Push
<1>2. CASE UNCHANGED vars
  BY <1>2 DEF vars
<1> QED
  BY <1>1, <1>2 DEF Next

-------------------------------------------------------------------------------
(* One run at a time.                                                      *)

\* A push is a run made at once, whatever happened since its branch was fetched,
\* and whether or not the concurrency group holds.
THEOREM RunsAreSerial == Spec => OneAtATime
<1>1. Init => Serial!Init
  BY LegacyTyped DEF Init, Branch, Serial!Init
<1>2. IInv /\ [Next]_vars => [Serial!Next]_(branch.content)
  <2> SUFFICES ASSUME IInv, [Next]_vars PROVE [Serial!Next]_(branch.content)
    OBVIOUS
  <2>1. ASSUME NEW r \in Runner, Push(r), Leased(r)
        PROVE  Serial!Next
    <3>1. At(r, "worked") /\ run[r].rows \in Results(r) /\ run[r].base = branch
      BY <2>1, PushCommits DEF IInv, WellBased, Push
    <3>2. CASE KindOf[r] = "ingest"
      <4>1. run[r].rows \in Ingestions(branch.content) /\ run[r].id \in RunId
        BY <3>1, <3>2 DEF Results, IInv, WellBased, At
      <4>2. \E n \in 1..MaxChunks :
              branch'.content = PublishIngestion(branch.content, run[r].id, run[r].rows, n)
        BY <2>1, <3>2, PushCommits
      <4> QED
        BY <4>1, <4>2 DEF Published, Serial!Next, Serial!Publish
    <3>3. CASE KindOf[r] # "ingest"
      <4>1. run[r].rows \in Probes(branch.content)
        BY <3>1, <3>3 DEF Results
      <4>2. branch'.content = PublishDiscovery(branch.content, run[r].rows)
        BY <2>1, <3>3, PushCommits
      <4> QED
        BY <4>1, <4>2 DEF Published, Serial!Next, Serial!Publish
    <3> QED
      BY <3>2, <3>3
  <2>2. CASE Amend
    <3>1. PICK registry \in SUBSET Board :
            branch' = [sha |-> commits + 1,
                       content |-> [branch.content EXCEPT !.registry = registry]]
      BY <2>2 DEF Amend
    <3>2. branch'.content = [branch.content EXCEPT !.registry = registry]
      BY <3>1
    <3> QED
      BY <3>2 DEF ByHand, Serial!Next, Serial!Edit
  <2>3. CASE Delete
    <3>1. branch'.content = Nothing
      BY <2>3 DEF Delete, Absent
    <3> QED
      BY <3>1 DEF ByHand, Serial!Next, Serial!Edit
  <2>4. CASE UNCHANGED branch
    BY <2>4
  <2> QED
    BY <2>1, <2>2, <2>3, <2>4, BranchSteps
<1> QED
  BY <1>1, <1>2, BranchInvariant, PTL DEF Spec, OneAtATime, Serial!Spec

\* What a step that publishes is, as one run.
LEMMA Publishing ==
  ASSUME IInv, [Next]_vars, Publishes
  PROVE  \E r \in Runner : Push(r) /\ Leased(r)
<1>1. commits' # commits /\ run' # run
  BY DEF Publishes
<1>2. ~Amend /\ ~Delete /\ ~UNCHANGED vars
  BY <1>1 DEF Amend, Delete, vars
<1>3. PICK r \in Runner : \/ Begin(r) \/ List(r) \/ Fetch(r) \/ Ingest(r) \/ Discover(r)
                          \/ Push(r) \/ Fail(r)
  BY <1>2 DEF Next
<1>4. Push(r) /\ Leased(r)
  BY <1>1, <1>3 DEF Begin, List, Fetch, Ingest, Discover, Fail, Push
<1> QED
  BY <1>4

\* What is stored can be restored, and is what the run had in its database.
LEMMA PackedWhole ==
  ASSUME NEW state \in Archive, NEW rows \in Database, NEW n \in 1..MaxChunks
  PROVE  LET next == Replaced(state, Packed(rows, n))
         IN  /\ Restored(next) = rows /\ Restorable(next)
             /\ next.blob = Fresh /\ \A p \in next.parts : p.index <= next.manifest.chunks
<1> DEFINE next == Replaced(state, Packed(rows, n))
<1>1. /\ next.manifest.of = rows /\ next.manifest.chunks = n
      /\ next.parts = [index : 1..n, of : {rows}] /\ next.blob = Fresh
  BY DEF Replaced, Packed
<1>2. ASSUME NEW i \in 1..n
      PROVE  {p.of : p \in {q \in next.parts : q.index = i}} = {rows}
  <2>1. [index |-> i, of |-> rows] \in next.parts
    BY <1>1
  <2>2. \A q \in next.parts : q.of = rows
    BY <1>1
  <2> QED
    BY <2>1, <2>2
<1>3. n > 0
  BY FilesAssumption
<1> HIDE DEF next
<1>4. Restorable(next)
  BY <1>1, <1>2 DEF Restorable
<1>5. Restored(next) = rows
  BY <1>1, <1>3 DEF Restored
<1>6. \A p \in next.parts : p.index <= n
  BY <1>1
<1> QED
  BY <1>1, <1>4, <1>5, <1>6 DEF next

\* A verified board leaves the registry, and an ingested one the catalog, only when
\* it has failed the run that publishes: no push loses what another has found.
THEOREM NoBoardIsLost == Spec => BoardsKept
<1>1. ASSUME IInv, [Next]_vars, Publishes
      PROVE  /\ branch.content.registry \ branch'.content.registry
                  \subseteq branch'.content.discovery.failed
             /\ Restored(branch.content.state).live \ Restored(branch'.content.state).live
                  \subseteq Restored(branch'.content.state).failed
  <2>1. PICK r \in Runner : Push(r) /\ Leased(r)
    BY <1>1, Publishing
  <2>2. At(r, "worked") /\ run[r].rows \in Results(r) /\ run[r].base = branch
    BY <1>1, <2>1, PushCommits DEF IInv, WellBased, Push
  <2>3. branch.content \in Content
    BY <1>1 DEF IInv, TypeOK, Branch
  <2>4. CASE KindOf[r] = "ingest"
    <3>1. PICK n \in 1..MaxChunks :
            branch'.content = PublishIngestion(branch.content, run[r].id, run[r].rows, n)
      BY <1>1, <2>1, <2>4, PushCommits
    <3>2. run[r].rows \in Ingestions(branch.content)
      BY <2>2, <2>4 DEF Results
    <3>3. run[r].rows \in Database /\ branch.content.state \in Archive
      BY <2>3, <3>2, ResultsTyped DEF Content
    <3>4. Restored(branch'.content.state) = run[r].rows
      BY <3>1, <3>3, PackedWhole DEF PublishIngestion
    <3>5. Restored(branch.content.state).live \subseteq run[r].rows.live \cup run[r].rows.failed
      BY <3>2 DEF Ingestions, Seen
    <3>6. branch.content.registry \subseteq branch'.content.registry
      BY <3>1 DEF PublishIngestion, Resolved
    <3> QED
      BY <3>4, <3>5, <3>6
  <2>5. CASE KindOf[r] # "ingest"
    <3>1. branch'.content = PublishDiscovery(branch.content, run[r].rows)
      BY <1>1, <2>1, <2>5, PushCommits
    <3>2. run[r].rows \in Probes(branch.content)
      BY <2>2, <2>5 DEF Results
    <3>3. branch.content.registry \subseteq run[r].rows.live \cup run[r].rows.failed
      BY <3>2 DEF Probes, Seen, Resolved
    <3>4. /\ branch'.content.registry = run[r].rows.live
          /\ branch'.content.discovery = run[r].rows
          /\ branch'.content.state = branch.content.state
      BY <2>3, <3>1 DEF PublishDiscovery, Content
    <3> QED
      BY <3>3, <3>4
  <2> QED
    BY <2>4, <2>5
<1>2. IInv /\ [Next]_vars =>
        [Publishes =>
           /\ branch.content.registry \ branch'.content.registry
                \subseteq branch'.content.discovery.failed
           /\ Restored(branch.content.state).live \ Restored(branch'.content.state).live
                \subseteq Restored(branch'.content.state).failed]_vars
  BY <1>1
<1> QED
  BY <1>2, BranchInvariant, PTL DEF Spec, BoardsKept

\* The database stored on the branch is whole, and what a run restores is what the
\* last one stored.
THEOREM StoredWhole == Spec => []StateIsWhole
<1> DEFINE Whole(state) ==
             /\ Restorable(state)
             /\ state.manifest.chunks > 0 =>
                  /\ state.blob = Fresh
                  /\ \A p \in state.parts : p.index <= state.manifest.chunks
<1>1. StateIsWhole <=> Whole(branch.content.state)
  BY DEF StateIsWhole
<1>2. \A state : state.manifest.chunks = 0 => Whole(state)
  BY DEF Restorable
<1>3. Init => StateIsWhole
  <2> SUFFICES ASSUME Init PROVE branch.content.state.manifest.chunks = 0
    BY <1>1, <1>2
  <2>1. CASE branch = Absent
    BY <2>1 DEF Absent, Nothing, NoState
  <2>2. ASSUME NEW registry,
               branch = [sha |-> 1,
                 content |-> [Nothing EXCEPT
                   !.registry = registry, !.discovery = [live |-> Bundled, failed |-> {}],
                   !.state.blob = [live |-> Bundled, failed |-> {}]]]
        PROVE  branch.content.state.manifest.chunks = 0
    <3>1. branch.content.state = [NoState EXCEPT !.blob = [live |-> Bundled, failed |-> {}]]
      BY <2>2 DEF Nothing
    <3> QED
      BY <3>1 DEF NoState
  <2> QED
    BY <2>1, <2>2 DEF Init, Legacy
<1>4. IInv /\ StateIsWhole /\ [Next]_vars => StateIsWhole'
  <2> SUFFICES ASSUME IInv, StateIsWhole, [Next]_vars PROVE StateIsWhole'
    OBVIOUS
  <2>1. ASSUME NEW r \in Runner, Push(r), Leased(r)
        PROVE  StateIsWhole'
    <3>1. branch.content \in Content /\ run[r].rows \in Database
      BY DEF IInv, TypeOK, Branch
    <3>2. CASE KindOf[r] = "ingest"
      <4>1. PICK n \in 1..MaxChunks :
              branch'.content = PublishIngestion(branch.content, run[r].id, run[r].rows, n)
        BY <2>1, <3>2, PushCommits
      <4>2. branch'.content.state = Replaced(branch.content.state, Packed(run[r].rows, n))
        BY <4>1 DEF PublishIngestion
      <4>3. branch.content.state \in Archive
        BY <3>1 DEF Content
      <4>4. Whole(branch'.content.state)
        BY <3>1, <4>2, <4>3, PackedWhole
      <4> QED
        BY <4>4 DEF StateIsWhole
    <3>3. CASE KindOf[r] # "ingest"
      <4>1. branch'.content = PublishDiscovery(branch.content, run[r].rows)
        BY <2>1, <3>3, PushCommits
      <4>2. branch'.content.state = branch.content.state
        BY <3>1, <4>1 DEF PublishDiscovery, Content
      <4> QED
        BY <4>2 DEF StateIsWhole
    <3> QED
      BY <3>2, <3>3
  <2>2. CASE Amend
    <3>1. branch'.content.state = branch.content.state
      BY <2>2 DEF Amend, IInv, TypeOK, Branch, Content
    <3> QED
      BY <3>1 DEF StateIsWhole
  <2>3. CASE Delete
    <3>1. branch'.content.state.manifest.chunks = 0
      BY <2>3 DEF Delete, Absent, Nothing, NoState
    <3>2. Whole(branch'.content.state)
      BY <1>2, <3>1
    <3> QED
      BY <3>2 DEF StateIsWhole
  <2>4. CASE UNCHANGED branch
    BY <2>4 DEF StateIsWhole
  <2>5. UNCHANGED branch \/ Amend \/ Delete \/ \E r \in Runner : Push(r) /\ Leased(r)
    BY BranchSteps
  <2> QED
    BY <2>1, <2>2, <2>3, <2>4, <2>5
<1> QED
  BY <1>3, <1>4, BranchInvariant, PTL DEF Spec

-------------------------------------------------------------------------------
(* What the catalog promises while the concurrency group holds and every   *)
(* ingestion has an id of its own.                                         *)

\* The run that ingests is the last that was issued, and no payload is as late.
Latest(r) ==
  KindOf[r] = "ingest" /\ ~At(r, "idle") =>
    run[r].id = issued /\ \A p \in branch.content.catalog.payloads : p.id < issued

Ordered ==
  /\ \A p \in branch.content.catalog.payloads : p.id <= issued
  /\ \A p, q \in branch.content.catalog.payloads : p.id = q.id => p = q
  /\ \A r, s \in Runner : ~At(r, "idle") /\ ~At(s, "idle") => r = s
  /\ \A r \in Runner : Latest(r)
  /\ LatestIsThere

\* The newest payload is retained, and no other than those there were.
LEMMA NewestKept ==
  ASSUME NEW catalog \in Catalog, NEW id \in RunId, NEW boards \in SUBSET Board,
         \A p \in catalog.payloads : p.id < id
  PROVE  LET next == Catalogued(catalog, id, boards)
         IN  /\ next.latest = id
             /\ [id |-> id, boards |-> boards] \in next.payloads
             /\ next.payloads \subseteq catalog.payloads \cup {[id |-> id, boards |-> boards]}
<1> DEFINE new == [id |-> id, boards |-> boards]
           all == {p \in catalog.payloads : p.id # id} \cup {new}
<1>1. id \in Int /\ \A p \in catalog.payloads : p.id \in Int
  BY DEF RunId, Catalog
<1>2. {q \in all : q.id > new.id} = {}
  BY <1>1
<1>3. Cardinality({q \in all : q.id > new.id}) < Keep
  BY <1>2, FS_EmptySet, FilesAssumption
<1>4. Newest(all) \subseteq all /\ new \in Newest(all)
  BY <1>3 DEF Newest
<1>5. Catalogued(catalog, id, boards) = [latest |-> id, payloads |-> Newest(all)]
  BY DEF Catalogued
<1> HIDE DEF all
<1>6. all \subseteq catalog.payloads \cup {new}
  BY DEF all
<1> QED
  BY <1>4, <1>5, <1>6

\* What an ingestion in its turn makes of the branch.
LEMMA IngestionInOrder ==
  ASSUME IInv, Ordered, NEW r \in Runner, Push(r), Leased(r), KindOf[r] = "ingest"
  PROVE  LET new == [id |-> issued, boards |-> run[r].rows.live]
         IN  /\ \A p \in branch.content.catalog.payloads : p.id < issued
             /\ branch'.content.catalog.latest = issued
             /\ new \in branch'.content.catalog.payloads
             /\ branch'.content.catalog.payloads \subseteq
                  branch.content.catalog.payloads \cup {new}
             /\ Restored(branch'.content.state) = run[r].rows
<1> DEFINE new == [id |-> issued, boards |-> run[r].rows.live]
<1>1. PICK n \in 1..MaxChunks :
        branch'.content = PublishIngestion(branch.content, run[r].id, run[r].rows, n)
  BY PushCommits
<1>2. branch.content \in Content /\ run[r].rows \in Database
  BY DEF IInv, TypeOK, Branch
<1>3. At(r, "worked") /\ ~At(r, "idle")
  BY DEF Push, At
<1>4. run[r].id = issued /\ issued \in RunId
      /\ \A p \in branch.content.catalog.payloads : p.id < issued
  BY <1>3 DEF Ordered, Latest, IInv, WellBased
<1>5. /\ branch'.content.catalog = Catalogued(branch.content.catalog, issued, run[r].rows.live)
      /\ branch'.content.state = Replaced(branch.content.state, Packed(run[r].rows, n))
  BY <1>1, <1>4 DEF PublishIngestion
<1>6. branch.content.catalog \in Catalog /\ branch.content.state \in Archive
      /\ run[r].rows.live \in SUBSET Board
  BY <1>2 DEF Content, Database
<1>7. Restored(branch'.content.state) = run[r].rows
  BY <1>2, <1>5, <1>6, PackedWhole
<1> QED
  BY <1>4, <1>5, <1>6, <1>7, NewestKept

LEMMA OrderedInit == Init => Ordered
<1> SUFFICES ASSUME Init PROVE Ordered
  OBVIOUS
<1>1. branch.content.catalog = Nothing.catalog
  <2>1. CASE branch = Absent
    BY <2>1 DEF Absent
  <2>2. ASSUME NEW registry,
               branch = [sha |-> 1,
                 content |-> [Nothing EXCEPT
                   !.registry = registry, !.discovery = [live |-> Bundled, failed |-> {}],
                   !.state.blob = [live |-> Bundled, failed |-> {}]]]
        PROVE  branch.content.catalog = Nothing.catalog
    BY <2>2 DEF Nothing
  <2> QED
    BY <2>1, <2>2 DEF Init, Legacy
<1>2. branch.content.catalog.payloads = {} /\ branch.content.catalog.latest = 0
  BY <1>1 DEF Nothing
<1>3. \A r \in Runner : At(r, "idle")
  BY DEF Init, At, Idle
<1> QED
  BY <1>2, <1>3 DEF Ordered, Latest, LatestIsThere

LEMMA OrderedStep ==
  ASSUME Grouped, ~Reruns, IInv, Ordered, [Next]_vars
  PROVE  Ordered'
<1>1. ASSUME NEW r \in Runner, Begin(r)
      PROVE  Ordered'
  <2>1. UNCHANGED branch /\ \A s \in Runner : At(s, "idle")
    BY <1>1 DEF Begin
  <2>2. \A s \in Runner \ {r} : run'[s] = run[s]
    BY <1>1 DEF Begin, IInv, TypeOK
  <2>3. \A s \in Runner \ {r} : At(s, "idle")'
    BY <2>1, <2>2 DEF At
  <2>4. issued \in Int /\ \A p \in branch.content.catalog.payloads : p.id \in Int
    BY DEF IInv, TypeOK, Branch, Content, Catalog, RunId
  <2>5. CASE KindOf[r] = "ingest"
    <3>1. PICK id \in RunId :
            /\ Issued(id) /\ issued' = IF id > issued THEN id ELSE issued
            /\ run' = [run EXCEPT ![r] = [Idle EXCEPT !.phase = "listing", !.id = id]]
      BY <1>1, <2>5 DEF Begin
    <3>2. id = issued + 1 /\ issued' = id
      BY <2>4, <3>1 DEF Issued
    <3>3. run'[r].id = id
      BY <3>1 DEF IInv, TypeOK, Idle
    <3>4. \A p \in branch.content.catalog.payloads : p.id < issued'
      BY <2>4, <3>2 DEF Ordered
    <3>5. Latest(r)'
      BY <2>1, <3>2, <3>3, <3>4 DEF Latest
    <3>6. \A p \in branch.content.catalog.payloads : p.id <= issued'
      BY <2>4, <3>4, <3>2
    <3> QED
      BY <2>1, <2>3, <3>5, <3>6 DEF Ordered, Latest, LatestIsThere
  <2>6. CASE KindOf[r] # "ingest"
    <3>1. UNCHANGED issued
      BY <1>1, <2>6 DEF Begin
    <3> QED
      BY <2>1, <2>3, <2>6, <3>1 DEF Ordered, Latest, LatestIsThere
  <2> QED
    BY <2>5, <2>6
<1>2. ASSUME NEW r \in Runner,
             \/ List(r) \/ Fetch(r) \/ Ingest(r) \/ Discover(r) \/ Fail(r)
             \/ Push(r) /\ ~Leased(r)
      PROVE  Ordered'
  <2>1. UNCHANGED <<branch, issued>>
    BY <1>2 DEF List, Fetch, Ingest, Discover, Fail, Push
  <2>2. ~At(r, "idle")
    BY <1>2 DEF List, Fetch, Ingest, Discover, Fail, Push, At
  <2>3. \A s \in Runner \ {r} : run'[s] = run[s]
    BY <1>2 DEF List, Fetch, Ingest, Discover, Fail, Push, IInv, TypeOK
  <2>4. run'[r].id = run[r].id \/ run'[r].phase = "idle"
    BY <1>2 DEF List, Fetch, Ingest, Discover, Fail, Push, IInv, TypeOK, Idle
  <2> QED
    BY <2>1, <2>2, <2>3, <2>4 DEF Ordered, Latest, LatestIsThere, At
<1>3. ASSUME NEW r \in Runner, Push(r), Leased(r)
      PROVE  Ordered'
  <2>1. run' = [run EXCEPT ![r] = Idle] /\ UNCHANGED issued /\ ~At(r, "idle")
    BY <1>3 DEF Push, At
  <2>2. \A s \in Runner : At(s, "idle")'
    BY <2>1 DEF At, Idle, IInv, TypeOK, Ordered
  <2>3. issued \in Int /\ \A p \in branch.content.catalog.payloads : p.id \in Int
    BY DEF IInv, TypeOK, Branch, Content, Catalog, RunId
  <2>4. CASE KindOf[r] = "ingest"
    <3> DEFINE new == [id |-> issued, boards |-> run[r].rows.live]
    <3>4. /\ \A p \in branch.content.catalog.payloads : p.id < issued
          /\ branch'.content.catalog.payloads \subseteq branch.content.catalog.payloads \cup {new}
          /\ branch'.content.catalog.latest = issued
          /\ new \in branch'.content.catalog.payloads
          /\ Restored(branch'.content.state) = run[r].rows
      BY <1>3, <2>4, IngestionInOrder
    <3>5. new.id = issued /\ new.boards = run[r].rows.live
      OBVIOUS
    <3> HIDE DEF new
    <3>1. \A p \in branch'.content.catalog.payloads : p.id <= issued
      BY <2>3, <3>4, <3>5
    <3>2. \A p, q \in branch'.content.catalog.payloads : p.id = q.id => p = q
      BY <2>3, <3>4, <3>5 DEF Ordered
    <3>3. LatestIsThere'
      BY <3>4, <3>5 DEF LatestIsThere
    <3> QED
      BY <2>1, <2>2, <3>1, <3>2, <3>3 DEF Ordered, Latest
  <2>5. CASE KindOf[r] # "ingest"
    <3>1. branch'.content = PublishDiscovery(branch.content, run[r].rows)
      BY <1>3, <2>5, PushCommits
    <3>2. branch.content \in Content
      BY DEF IInv, TypeOK, Branch
    <3>3. /\ branch'.content.catalog = branch.content.catalog
          /\ branch'.content.state = branch.content.state
      BY <3>1, <3>2 DEF PublishDiscovery, Content
    <3> QED
      BY <2>1, <2>2, <3>3 DEF Ordered, Latest, LatestIsThere
  <2> QED
    BY <2>4, <2>5
<1>4. CASE Amend
  <2>1. /\ branch'.content.catalog = branch.content.catalog
        /\ branch'.content.state = branch.content.state
        /\ UNCHANGED <<issued, run>>
    BY <1>4 DEF Amend, IInv, TypeOK, Branch, Content
  <2> QED
    BY <2>1 DEF Ordered, Latest, LatestIsThere, At
<1>5. CASE Delete
  <2>1. /\ branch'.content.catalog = [payloads |-> {}, latest |-> 0]
        /\ UNCHANGED <<issued, run>>
    BY <1>5 DEF Delete, Absent, Nothing
  <2> QED
    BY <2>1 DEF Ordered, Latest, LatestIsThere, At
<1>6. CASE UNCHANGED vars
  BY <1>6 DEF vars, Ordered, Latest, LatestIsThere, At
<1> QED
  BY <1>1, <1>2, <1>3, <1>4, <1>5, <1>6 DEF Next

\* While the concurrency group holds and no earlier run is run again, the payload
\* that latest.json names is there, with the boards of the database stored beside it.
THEOREM CatalogIsThere ==
  ASSUME Grouped, ~Reruns
  PROVE  Spec => []LatestIsThere
<1>1. IInv /\ Ordered /\ [Next]_vars => Ordered'
  BY OrderedStep
<1>2. Ordered => LatestIsThere
  BY DEF Ordered
<1> QED
  BY <1>1, <1>2, OrderedInit, BranchInvariant, PTL DEF Spec

\* Then a published payload keeps its content for as long as it is there.
THEOREM PayloadsKeepContent ==
  ASSUME Grouped, ~Reruns
  PROVE  Spec => PayloadsImmutable
<1>1. IInv /\ Ordered /\ [Next]_vars => Ordered'
  BY OrderedStep
<1>2. ASSUME IInv, Ordered, [Next]_vars
      PROVE  \A p \in branch.content.catalog.payloads, q \in branch'.content.catalog.payloads :
               p.id = q.id => p = q
  <2> DEFINE Same == \A p \in branch.content.catalog.payloads,
                         q \in branch'.content.catalog.payloads : p.id = q.id => p = q
  <2>1. CASE branch'.content.catalog = branch.content.catalog
    BY <1>2, <2>1 DEF Ordered
  <2>2. ASSUME NEW r \in Runner, Push(r), Leased(r), KindOf[r] = "ingest"
        PROVE  Same
    <3>1. issued \in Int /\ \A p \in branch.content.catalog.payloads : p.id \in Int
      BY <1>2 DEF IInv, TypeOK, Branch, Content, Catalog, RunId
    <3> DEFINE new == [id |-> issued, boards |-> run[r].rows.live]
    <3>2. /\ \A p \in branch.content.catalog.payloads : p.id < issued
          /\ branch'.content.catalog.payloads \subseteq branch.content.catalog.payloads \cup {new}
      BY <1>2, <2>2, IngestionInOrder
    <3>3. new.id = issued
      OBVIOUS
    <3> HIDE DEF new
    <3> QED
      BY <1>2, <3>1, <3>2, <3>3 DEF Ordered
  <2>3. ASSUME NEW r \in Runner, Push(r), Leased(r), KindOf[r] # "ingest"
        PROVE  branch'.content.catalog = branch.content.catalog
    <3>1. branch'.content = PublishDiscovery(branch.content, run[r].rows)
      BY <1>2, <2>3, PushCommits
    <3>2. branch.content \in Content
      BY <1>2 DEF IInv, TypeOK, Branch
    <3> QED
      BY <3>1, <3>2 DEF PublishDiscovery, Content
  <2>4. CASE Amend
    <3>1. branch'.content.catalog = branch.content.catalog
      BY <1>2, <2>4 DEF Amend, IInv, TypeOK, Branch, Content
    <3> QED
      BY <2>1, <3>1
  <2>5. CASE Delete
    <3>1. branch'.content.catalog.payloads = {}
      BY <2>5 DEF Delete, Absent, Nothing
    <3> QED
      BY <3>1
  <2>6. CASE UNCHANGED branch
    BY <2>1, <2>6
  <2> QED
    BY <1>2, <2>1, <2>2, <2>3, <2>4, <2>5, <2>6, BranchSteps
<1>3. IInv /\ Ordered /\ [Next]_vars =>
        [\A p \in branch.content.catalog.payloads, q \in branch'.content.catalog.payloads :
           p.id = q.id => p = q]_vars
  BY <1>2
<1> QED
  BY <1>1, <1>3, OrderedInit, BranchInvariant, PTL DEF Spec, PayloadsImmutable
===============================================================================
