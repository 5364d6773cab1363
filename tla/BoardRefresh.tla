----------------------------- MODULE BoardRefresh -----------------------------
(***************************************************************************)
(* The refresh of one board (ingestion/pipeline.py, ingest_source, with    *)
(* the connectors that page through a provider's public listing).          *)
(*                                                                         *)
(* The provider changes the listing whenever it likes, also between two    *)
(* requests of one fetch.  Every request is conditional: it carries the    *)
(* validator (ETag) the registry stored last, and a connector that is      *)
(* answered 304 reports that the board was not modified.  An ETag stands   *)
(* for exactly what the response says, so it is modelled by the content.   *)
(***************************************************************************)
EXTENDS Integers, FiniteSets

CONSTANTS Job,        \* jobs the board may list
          Order,        \* the order in which it lists them
          PageSize,     \* jobs per page (100 in the connectors)
          Revision,     \* texts a job may have
          Kinds         \* the kinds of connector, see kind

NoText == 0
None == <<>>

ASSUME RefreshAssumption ==
  /\ IsFiniteSet(Job) /\ Job # {}
  /\ Order \in [Job -> Nat]
  /\ \A i, j \in Job : Order[i] = Order[j] => i = j
  /\ PageSize \in Nat \ {0}
  /\ Revision \subseteq Nat \ {NoText}
  /\ Kinds \subseteq {"single", "partial", "paged", "detail"}

VARIABLES
  posted,     \* what the provider lists: each job's text, NoText if unlisted
  kind,       \* the connector: "single" reads all jobs in one response;
              \* "partial" too, but knows that some may be missing;
              \* "paged" reads page after page; "detail" reads pages of
              \* summaries and then the text of every job
  stored,     \* the jobs table: active, and the text
  validator,  \* the etag of the sources row
  ingested,   \* last_ingested_at is set
  fetch       \* the connector's run

vars == <<posted, kind, stored, validator, ingested, fetch>>

Listed == {j \in Job : posted[j] # NoText}

\* The pages of the listing, from 1; a board without pages has all on page 1.
Paged == kind \in {"paged", "detail"}
PageOf(j) ==
  IF Paged THEN 1 + Cardinality({i \in Listed : Order[i] < Order[j]}) \div PageSize
           ELSE 1
OnPage(p) == {j \in Listed : PageOf(j) = p}

\* The responses: a page with the total it reports, the text of one job, and
\* what a discovery probe sees.  Only boards of kind "partial" are probed at
\* the very resource that is fetched; elsewhere the query parameters differ.
Listing(p) ==
  <<p, [j \in OnPage(p) |-> IF kind = "detail" THEN NoText ELSE posted[j]],
    Cardinality(Listed)>>
Detail(j) == <<j, posted[j]>>
Probed == IF kind = "partial" THEN Listing(1) ELSE <<kind>>

Idle == [phase |-> "idle", page |-> 0, cache |-> None, rows |-> {},
         text |-> [j \in Job |-> NoText], pending |-> {}, complete |-> FALSE,
         last |-> None, start |-> {}, withdrawn |-> {}, unmodified |-> {}]

Init ==
  /\ posted \in [Job -> Revision \cup {NoText}]
  /\ kind \in Kinds
  /\ stored = [j \in Job |-> [active |-> FALSE, text |-> NoText]]
  /\ validator = None
  /\ ingested = FALSE
  /\ fetch = Idle

\* The provider opens, edits or withdraws a job.
Change(j) ==
  \E r \in (Revision \cup {NoText}) \ {posted[j]} :
    /\ posted' = [posted EXCEPT ![j] = r]
    /\ fetch' = IF fetch.phase # "idle" /\ r = NoText
                THEN [fetch EXCEPT !.withdrawn = @ \cup {j}] ELSE fetch
    /\ UNCHANGED <<kind, stored, validator, ingested>>

\* validate_candidate succeeds and record_validation stores its validator.
Probe ==
  /\ fetch.phase = "idle"
  /\ validator' = Probed
  /\ UNCHANGED <<posted, kind, stored, ingested, fetch>>

\* Mutant: the validator is sent whether or not the board was ever ingested.
StartConditional ==
  /\ fetch.phase = "idle"
  /\ fetch' = [Idle EXCEPT !.phase = "listing", !.page = 1, !.cache = validator,
                           !.complete = kind # "partial", !.start = Listed]
  /\ UNCHANGED <<posted, kind, stored, validator, ingested>>

\* ingest_source of the configuration to_config returned: the validator is
\* read once, before the first request.
Start ==
  /\ fetch.phase = "idle"
  /\ fetch' = [Idle EXCEPT !.phase = "listing", !.page = 1,
                           !.cache = IF ingested THEN validator ELSE None,
                           !.complete = kind # "partial", !.start = Listed]
  /\ UNCHANGED <<posted, kind, stored, validator, ingested>>

\* ConnectorNotModified leaves fetch_jobs, whichever page it was: the refresh
\* counts as a success and stores no job.
NotModified ==
  /\ fetch.phase = "listing"
  /\ fetch.cache = Listing(fetch.page)
  /\ validator' = fetch.cache
  /\ ingested' = TRUE
  /\ fetch' = Idle
  /\ UNCHANGED <<posted, kind, stored>>

\* Mutant: a listing that is cut short is taken for complete.
CutShortNever(batch, total_known) == FALSE

\* A full page without a total: the connector stops, and says "partial".
CutShort(batch, total_known) ==
  Paged /\ Cardinality(batch) = PageSize /\ ~total_known

\* Mutant: the page that reaches the total is not taken for the last.
MorePagesOnce(batch, total_known) ==
  /\ Paged /\ Cardinality(batch) = PageSize /\ total_known
  /\ PageSize * fetch.page <= Cardinality(Listed)

\* A full page that does not reach the reported total is not the last.  The
\* rows are counted as they arrive, a job seen on two pages twice.
MorePages(batch, total_known) ==
  /\ Paged /\ Cardinality(batch) = PageSize /\ total_known
  /\ PageSize * fetch.page < Cardinality(Listed)

ReadPage(total_known) ==
  LET batch == OnPage(fetch.page)
      rows == fetch.rows \cup batch
      more == MorePages(batch, total_known)
  IN  /\ fetch.phase = "listing"
      /\ fetch.cache # Listing(fetch.page)
      /\ fetch' = [fetch EXCEPT
           !.rows = rows, !.last = Listing(fetch.page),
           !.text = [j \in Job |-> IF j \in batch /\ kind # "detail"
                                   THEN posted[j] ELSE @[j]],
           !.phase = IF more THEN "listing" ELSE "details",
           !.page = IF more THEN @ + 1 ELSE @,
           !.pending = IF kind = "detail" /\ ~more THEN rows ELSE {},
           !.complete = @ /\ ~CutShort(batch, total_known)]
      /\ UNCHANGED <<posted, kind, stored, validator, ingested>>

\* enrich: the texts are requested concurrently and answered in any order.  Any
\* answer but a 200 leaves the job without a text, a 304 included.
ReadDetail(j) ==
  /\ fetch.phase = "details"
  /\ j \in fetch.pending
  /\ fetch' = [fetch EXCEPT
       !.pending = @ \ {j},
       !.text[j] = IF fetch.cache = Detail(j) THEN NoText ELSE posted[j],
       !.last = IF j \in Listed THEN Detail(j) ELSE None,
       !.unmodified = IF fetch.cache = Detail(j) THEN @ \cup {j} ELSE @]
  /\ UNCHANGED <<posted, kind, stored, validator, ingested>>

\* No answer, or after the retries an error page, which has no ETag.
DetailFails(j) ==
  /\ fetch.phase = "details"
  /\ j \in fetch.pending
  /\ \E last \in {fetch.last, None} :
       fetch' = [fetch EXCEPT !.pending = @ \ {j}, !.last = last]
  /\ UNCHANGED <<posted, kind, stored, validator, ingested>>

\* Mutant: the response headers are saved although nothing else is.
FailSaving ==
  /\ fetch.phase # "idle"
  /\ fetch' = Idle
  /\ validator' = IF fetch.last # None THEN fetch.last ELSE validator
  /\ UNCHANGED <<posted, kind, stored, ingested>>

\* An exception, an interruption or the end of the process: what the session
\* wrote is rolled back (the failure itself is SourceRegistry's IngestFailed).
Fail ==
  /\ fetch.phase # "idle"
  /\ fetch' = Idle
  /\ UNCHANGED <<posted, kind, stored, validator, ingested>>

\* Mutant: jobs that are listed again are updated but stay closed.
StoreJobsOnce ==
  [j \in Job |->
     IF j \in fetch.rows
     THEN [active |-> stored[j].active \/ stored[j].text = NoText, text |-> fetch.text[j]]
     ELSE [stored[j] EXCEPT !.active = @ /\ ~fetch.complete]]

\* upsert_job of every row, then mark_source_jobs_inactive_except.
StoreJobs ==
  [j \in Job |->
     IF j \in fetch.rows THEN [active |-> TRUE, text |-> fetch.text[j]]
     ELSE [stored[j] EXCEPT !.active = @ /\ ~fetch.complete]]

\* The one transaction of a successful refresh.
Store ==
  /\ fetch.phase = "details" /\ fetch.pending = {}
  /\ stored' = StoreJobs
  /\ validator' = IF fetch.last # None THEN fetch.last ELSE validator
  /\ ingested' = TRUE
  /\ fetch' = Idle
  /\ UNCHANGED <<posted, kind>>

Next ==
  \/ \E j \in Job : Change(j) \/ ReadDetail(j) \/ DetailFails(j)
  \/ \E total_known \in BOOLEAN : ReadPage(total_known)
  \/ Probe \/ Start \/ NotModified \/ Store \/ Fail

Spec == Init /\ [][Next]_vars

-------------------------------------------------------------------------------

Texts == Revision \cup {NoText}

\* Type correctness of the board, the stored jobs and the running fetch, which
\* never asks for a page beyond the jobs there can be.
TypeOK ==
  /\ posted \in [Job -> Texts]
  /\ kind \in Kinds
  /\ stored \in [Job -> [active : BOOLEAN, text : Texts]]
  /\ ingested \in BOOLEAN
  /\ fetch.phase \in {"idle", "listing", "details"}
  /\ fetch.text \in [Job -> Texts]
  /\ fetch.complete \in BOOLEAN
  /\ fetch.pending \subseteq fetch.rows
  /\ fetch.rows \cup fetch.start \cup fetch.withdrawn \cup fetch.unmodified \subseteq Job
  /\ PageSize * (fetch.page - 1) < Cardinality(Job)

Stayed == fetch.start \ fetch.withdrawn

\* "A failed refresh never closes or deletes jobs: active jobs are closed only
\* after a successful provider snapshot": a job that the provider listed all the
\* while is never closed, unless another job was withdrawn between two pages
\* (the pages then shift by one, and the connector cannot see it).
ClosureJustified ==
  [][\A j \in Stayed :
       stored[j].active /\ ~stored'[j].active =>
         Paged /\ fetch.withdrawn # {}]_vars

Current(j) == stored[j] = [active |-> TRUE, text |-> posted[j]]

\* "the prior successful snapshot remains valid": where one response is the
\* whole board, a 304 is only ever taken for success when the stored jobs are
\* exactly what the provider lists at that moment.
SingleSnapshotCurrent ==
  [][NotModified /\ kind = "single" =>
       \A j \in Job : IF j \in Listed THEN Current(j) ELSE ~stored[j].active]_vars

\* "a 304 can falsely look like an ingestion": a board whose jobs were never
\* stored is not marked as ingested by a 304, whatever discovery has probed.
FirstIngestionStores ==
  [][NotModified => ingested]_vars

\* A job the provider keeps listing while a board is quiet comes (back) into the
\* store: once a board of one response stops changing and refreshes of it go on
\* succeeding, the store settles on exactly what is listed.
StoreSettles ==
  (kind = "single" /\ <>[][posted' = posted]_vars
     /\ []<><<Store \/ NotModified>>_vars)
    => <>[](\A j \in Job : IF j \in Listed THEN Current(j) ELSE ~stored[j].active)

\* A 304 for one job preserves the text that was stored of it.
NotModifiedPreservesText ==
  [][Store => \A j \in fetch.unmodified :
       stored[j].text # NoText => stored'[j].text # NoText]_vars
===============================================================================
