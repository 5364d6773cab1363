--------------------------- MODULE MarketDataFiles ---------------------------
(***************************************************************************)
(* What the market-data branch holds, and what a run of one of the three   *)
(* workflows that write it makes of it (.github/workflows: daily-ingest,   *)
(* source-discovery and source-health, without the secrets that would move *)
(* their databases elsewhere).                                             *)
(*                                                                         *)
(* Every commit is an orphan that lists the whole branch.  Of a database   *)
(* only the boards are kept: those that are live in it (whose vacancies    *)
(* the catalog shows, or that the registry lists as verified) and those    *)
(* that have failed.  What is absent from the branch is modelled by an     *)
(* empty database, registry or set of payloads.                            *)
(***************************************************************************)
EXTENDS Integers, FiniteSets

CONSTANTS Board,
          Bundled,   \* config/source-registry.snapshot.json
          Minimum,   \* boards a registry must have to be used or published (500)
          Keep,      \* payloads retained (14)
          MaxRuns,   \* bound of the exploration: ingestion runs
          MaxChunks  \* bound of the exploration: parts of a packed database

ASSUME FilesAssumption ==
  /\ IsFiniteSet(Board) /\ Bundled \subseteq Board
  /\ Minimum \in Nat \ {0} /\ Keep \in Nat \ {0}
  /\ MaxRuns \in Nat /\ MaxChunks \in Nat \ {0}

RunId == 1..MaxRuns   \* GITHUB_RUN_ID of ingestion runs
Workflow == {"ingest", "discover", "health"}

Database == [live : SUBSET Board, failed : SUBSET Board]
Fresh == [live |-> {}, failed |-> {}]

Seen(rows) == rows.live \cup rows.failed

\* data/state: the database as one file, as early versions stored it, or as the
\* numbered parts a manifest lists.
Archive == [blob : Database,
            manifest : [of : Database, chunks : 0..MaxChunks],
            parts : SUBSET [index : 1..MaxChunks, of : Database]]

\* data/catalog: payloads by the id of the run that made them, and the id that
\* latest.json names.
Catalog == [payloads : SUBSET [id : RunId, boards : SUBSET Board], latest : {0} \cup RunId]

Content == [registry : SUBSET Board, catalog : Catalog, state : Archive,
            discovery : Database]

NoState == [blob |-> Fresh, manifest |-> [of |-> Fresh, chunks |-> 0], parts |-> {}]

Nothing == [registry |-> {}, catalog |-> [payloads |-> {}, latest |-> 0],
            state |-> NoState, discovery |-> Fresh]

-------------------------------------------------------------------------------
(* branch_state_archive.py.                                                *)

\* pack_archive
Packed(rows, n) ==
  [manifest |-> [of |-> rows, chunks |-> n],
   parts |-> [index : 1..n, of : {rows}]]

\* restore_archive: every part the manifest lists is there, alone under its
\* name, with the content the manifest vouches for.
Restorable(state) ==
  \A i \in 1..state.manifest.chunks :
    {p.of : p \in {q \in state.parts : q.index = i}} = {state.manifest.of}

Restored(state) ==
  IF state.manifest.chunks > 0 THEN state.manifest.of ELSE state.blob

-------------------------------------------------------------------------------
(* What a run computes from the content it has fetched.                    *)

\* The published registry, or the one of the checkout where none is published.
Resolved(content) == IF content.registry # {} THEN content.registry ELSE Bundled

LargeEnough(registry) == Cardinality(registry) >= Minimum

\* The databases an ingestion run may end with: a board it restored is still live
\* or has failed, of all others, its registry's, its seeds and those of earlier
\* registries, it ingests what its time allows.  With nothing to show it gives up.
Ingestions(content) ==
  {rows \in Database :
     /\ Restorable(content.state) /\ LargeEnough(Resolved(content))
     /\ rows.live \cap rows.failed = {} /\ rows.live # {}
     /\ Seen(Restored(content.state)) \subseteq Seen(rows)}

\* The databases a discovery or a health run may end with: a board it restored,
\* or was given by the registry, is still verified or has failed; any other may
\* have been found.  Too few verified boards are not published.
Probes(content) ==
  {rows \in Database :
     /\ LargeEnough(Resolved(content)) /\ LargeEnough(rows.live)
     /\ rows.live \cap rows.failed = {}
     /\ Seen(content.discovery) \cup Resolved(content) \subseteq Seen(rows)}

-------------------------------------------------------------------------------
(* What a run commits, on top of the content it has fetched.               *)

\* sorted(payloads, reverse=True)[:Keep]; the names of runs sort as their ids.
Newest(payloads) ==
  {p \in payloads : Cardinality({q \in payloads : q.id > p.id}) < Keep}

\* A payload replaces one of the same name.
Catalogued(catalog, id, boards) ==
  [latest |-> id,
   payloads |-> Newest({p \in catalog.payloads : p.id # id}
                         \cup {[id |-> id, boards |-> boards]})]

\* Mutant: new parts are copied over old ones, and the single file is left.
ReplacedInPlace(state, packed) ==
  [blob |-> state.blob, manifest |-> packed.manifest,
   parts |-> {p \in state.parts : \A q \in packed.parts : q.index # p.index}
               \cup packed.parts]

\* The files of the last run are removed before those of this one are copied.
Replaced(state, packed) ==
  [blob |-> Fresh, manifest |-> packed.manifest, parts |-> packed.parts]

\* Mutant: the hourly writer commits catalog and state only.
PublishCatalogOnly(content, id, rows, n) ==
  [registry |-> {},
   catalog |-> Catalogued(content.catalog, id, rows.live),
   state |-> Replaced(content.state, Packed(rows, n)),
   discovery |-> content.discovery]

PublishIngestion(content, id, rows, n) ==
  [registry |-> Resolved(content),
   catalog |-> Catalogued(content.catalog, id, rows.live),
   state |-> Replaced(content.state, Packed(rows, n)),
   discovery |-> content.discovery]

PublishDiscovery(content, rows) ==
  [content EXCEPT !.registry = rows.live, !.discovery = rows]

\* What whole runs may make of a content.
Published(content) ==
  {PublishIngestion(content, id, rows, n) :
     id \in RunId, rows \in Ingestions(content), n \in 1..MaxChunks}
  \cup {PublishDiscovery(content, rows) : rows \in Probes(content)}

\* A maintainer corrects the registry or deletes the branch.
ByHand(content) ==
  {[content EXCEPT !.registry = registry] : registry \in SUBSET Board} \cup {Nothing}
==============================================================================
