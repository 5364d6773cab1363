----------------------------- MODULE CandidateApi -----------------------------
(***************************************************************************)
(* Candidates and application tracking: the handlers of api/app.py and     *)
(* api/tracking.py that a profile's token opens, each in a thread and a    *)
(* session of its own, over the tables candidates and                      *)
(* candidate_job_states.                                                   *)
(*                                                                         *)
(* Each statement of a handler sees what is committed when it runs         *)
(* (READ COMMITTED; SQLite begins a transaction with the first write), so  *)
(* a handler is the steps Arrive (authorisation), Look (its own read) and  *)
(* the write with its commit.  The dialects differ in what they give as    *)
(* ids and in the foreign keys, which SQLite does not enforce unless told. *)
(***************************************************************************)
EXTENDS Recommendations

CONSTANTS Request,       \* requests the server works on at a time
          Dialect,       \* SUBSET {"sqlite", "postgresql"}: the database of the deployment
          Catalog, Jobs, \* what imports may leave in the jobs table, and its vacancies
          Content, Says, \* what users may state in a profile, and what it says
          JobId,         \* the vacancies they may name
          Status, Note,  \* what they may track of a vacancy
          Query,         \* what they may ask of the shortlist
          MaxId, MaxRow, MaxToken   \* bounds: ids of the two tables, profiles ever created

ASSUME CandidateApiAssumption ==
  /\ Dialect \subseteq {"sqlite", "postgresql"}
  /\ MaxId \in Nat /\ MaxRow \in Nat /\ MaxToken \in Nat
  /\ \A c \in Catalog : Jobs[c] \subseteq Vacancies /\ IsFiniteSet(Jobs[c])
  /\ \A c \in Catalog : \A a, b \in Jobs[c] : a.id = b.id => a = b   \* the primary key
  /\ Query \subseteq Queries
  /\ Says \in [Content -> Profiles] /\ JobId \subseteq Nat
  /\ None \notin Content \cup Request

VARIABLES
  dialect,
  profile,    \* candidates: token and content of each id
  row,        \* candidate_job_states, by id
  last,       \* the sequences of PostgreSQL: the ids given last
  catalog,    \* the jobs table
  tokens,     \* how many tokens were issued; they are 1, 2, ...
  request,    \* the handlers under way
  sent        \* the response of this step, if one is sent

vars == <<dialect, profile, row, last, catalog, tokens, request, sent>>

Id == 1..MaxId
RowId == 1..MaxRow
Body == [job : JobId, status : Status, note : Note]

\* by is the token of the request that stored the row: history.
Row == [candidate : Id, job : JobId, status : Status, note : Note, by : 1..MaxToken]

Account == [token : 1..MaxToken, content : Content]

ASSUME NoneAssumption == None \notin Account /\ None \notin Row

Taken(table) == {k \in DOMAIN table : table[k] # None}

\* Mutant: SQLite's ids everywhere.
NextIdReused(table, given) ==
  CHOOSE k \in 1..(Cardinality(DOMAIN table) + 1) :
    /\ \A j \in Taken(table) : j < k
    /\ k = 1 \/ k - 1 \in Taken(table)

\* SQLite gives the id after the largest that is left, a sequence never the same.
NextId(table, given) ==
  IF dialect = "postgresql" THEN given + 1
  ELSE IF Taken(table) = {} THEN 1
  ELSE CHOOSE k \in 1..(Cardinality(DOMAIN table) + 1) :
         k - 1 \in Taken(table) /\ \A j \in Taken(table) : j < k

Response(r, status, result) == [from |-> r, status |-> status, result |-> result]

\* r is done; what it has committed is news to the PUTs under way.
Reply(r, status, result) ==
  /\ request' = [request EXCEPT ![r] = None]
  /\ sent' = Response(r, status, result)

Commit(r, result) ==
  /\ request' = [q \in Request |->
       IF q = r \/ request[q] = None THEN None
       ELSE [request[q] EXCEPT !.overlapped = request[q].kind = "put"]]
  /\ sent' = Response(r, "ok", result)

\* What an ORM update leaves in a column: it writes what differs from what was
\* read, and nothing else.
Written(read, new, now) == IF new = read THEN now ELSE new

Init ==
  /\ dialect \in Dialect
  /\ profile = [i \in Id |-> None]
  /\ row = [k \in RowId |-> None]
  /\ last = [profile |-> 0, row |-> 0]
  /\ catalog \in Catalog
  /\ tokens = 0
  /\ request = [r \in Request |-> None]
  /\ sent = None

-------------------------------------------------------------------------------
(* Arrival.                                                                *)

Kinds == {"update", "delete", "export", "put", "drop", "recommend"}

Inputs(kind) ==
  CASE kind = "update" -> Content
    [] kind = "put" -> Body
    [] kind = "drop" -> JobId
    [] kind = "recommend" -> Query
    [] OTHER -> {None}

\* The vacancy a request is about, where it is about one.
About(kind, input) ==
  CASE kind = "put" -> {input.job} [] kind = "drop" -> {input} [] OTHER -> {}

\* get_candidate, authorize_candidate and, for a tracking request, get_job.
Admitted(kind, id, token, input) ==
  /\ profile[id] # None /\ profile[id].token = token
  /\ About(kind, input) \subseteq {job.id : job \in Jobs[catalog]}

Arrive(r, kind, id, token, input) ==
  /\ request[r] = None
  /\ Admitted(kind, id, token, input)
  /\ request' = [request EXCEPT ![r] =
       [kind |-> kind, id |-> id, token |-> token, input |-> input,
        read |-> IF kind \in {"update", "export", "recommend"}
                 THEN profile[id].content ELSE None,
        overlapped |-> FALSE]]
  /\ sent' = None
  /\ UNCHANGED <<dialect, profile, row, last, catalog, tokens>>

\* 404, whether the token, the profile or the vacancy is the wrong one.
Refuse(r) ==
  /\ request[r] = None
  /\ ~\A kind \in Kinds, id \in Id, token \in 1..tokens :
        \A input \in Inputs(kind) : Admitted(kind, id, token, input)
  /\ Reply(r, "not_found", None)
  /\ UNCHANGED <<dialect, profile, row, last, catalog, tokens>>

\* Waiting for SQLite's writer times out; the session is rolled back.
Busy(r) ==
  /\ dialect = "sqlite" /\ request[r] # None
  /\ \/ request[r].kind \in {"update", "delete"}
     \/ request[r].kind \in {"put", "drop"} /\ request[r].read # None
  /\ Reply(r, "busy", None)
  /\ UNCHANGED <<dialect, profile, row, last, catalog, tokens>>

-------------------------------------------------------------------------------
(* Profiles.                                                               *)

\* create_candidate.
Create(r, content) ==
  LET id == NextId(profile, last.profile)
  IN  /\ request[r] = None
      /\ tokens < MaxToken /\ id \in Id
      /\ tokens' = tokens + 1
      /\ profile' = [profile EXCEPT ![id] = [token |-> tokens + 1, content |-> content]]
      /\ last' = [last EXCEPT !.profile = IF dialect = "postgresql" THEN id ELSE @]
      /\ Commit(r, None)
      /\ UNCHANGED <<dialect, row, catalog>>

\* update_candidate; no row is matched where the profile is gone (StaleDataError).
Update(r) ==
  LET q == request[r]
      now == profile[q.id]
  IN  /\ q # None /\ q.kind = "update"
      /\ IF now = None
         THEN Reply(r, "error", None) /\ UNCHANGED profile
         ELSE /\ profile' = [profile EXCEPT ![q.id].content =
                   Written(q.read, q.input, now.content)]
              /\ Commit(r, None)
      /\ UNCHANGED <<dialect, row, last, catalog, tokens>>

\* Mutant: a schema without it.
CascadeNothing(id) == row

\* ON DELETE CASCADE, where foreign keys are enforced.
Cascade(id) ==
  [k \in RowId |->
     IF dialect = "postgresql" /\ row[k] # None /\ row[k].candidate = id THEN None ELSE row[k]]

\* delete_candidate; one that matches nothing only warns.
Delete(r) ==
  LET q == request[r]
  IN  /\ q # None /\ q.kind = "delete"
      /\ profile' = [profile EXCEPT ![q.id] = None]
      /\ row' = Cascade(q.id)
      /\ Commit(r, None)
      /\ UNCHANGED <<dialect, last, catalog, tokens>>

RowsOf(id) == {k \in Taken(row) : row[k].candidate = id}

\* export_candidate, and list_job_states without its first half.
Export(r) ==
  LET q == request[r]
  IN  /\ q # None /\ q.kind = "export"
      /\ Reply(r, "ok", [candidate |-> q.read,
                         states |-> {row[k] : k \in RowsOf(q.id)}])
      /\ UNCHANGED <<dialect, profile, row, last, catalog, tokens>>

\* A page of the shortlist, as it is sent, and the count of what qualifies.
Listed(candidate, jobs, query) ==
  LET page == Page(candidate, jobs, query)
  IN  [page |-> [k \in DOMAIN page |-> page[k].id],
       totals |-> [k \in DOMAIN page |-> Total(candidate, page[k])],
       companies |-> [k \in DOMAIN page |-> CompanyScore(page[k])],
       count |-> Cardinality(Qualifying(candidate, jobs, query))]

\* What is sent for each content of a profile and of the jobs table, None for a
\* request that fails.
Served == [c \in Content |-> [k \in Catalog |-> [query \in Query |->
  IF Servable(Jobs[k], query) THEN Listed(Says[c], Jobs[k], query) ELSE None]]]

\* recommendations and its explanation: the vacancies of the moment for the
\* profile that was read.
Recommend(r) ==
  LET q == request[r]
  IN  /\ q # None /\ q.kind = "recommend"
      /\ LET answer == Served[q.read][catalog][q.input]
         IN  Reply(r, IF answer = None THEN "error" ELSE "ok", answer)
      /\ UNCHANGED <<dialect, profile, row, last, catalog, tokens>>

-------------------------------------------------------------------------------
(* Tracking.                                                               *)

RowFor(id, job) == {k \in RowsOf(id) : row[k].job = job}

Nothing == [row |-> 0, columns |-> None]

\* To have found no row is not the same as not to have looked.
ASSUME NothingAssumption == None # Nothing

\* Mutant: every PUT is a first one.
LookNowhere(q) == Nothing

\* TrackingRepository.get.
LookFor(q) ==
  LET found == UNION {RowFor(q.id, job) : job \in About(q.kind, q.input)}
  IN  IF found = {} THEN Nothing
      ELSE LET k == CHOOSE k \in found : TRUE
            IN  [row |-> k,
                columns |-> IF q.kind = "put"
                            THEN [status |-> row[k].status, note |-> row[k].note] ELSE None]

Look(r) ==
  LET q == request[r]
  IN  /\ q # None /\ q.kind \in {"put", "drop"} /\ q.read = None
      /\ request' = [request EXCEPT ![r] = [q EXCEPT !.read = LookFor(q)]]
      /\ sent' = None
      /\ UNCHANGED <<dialect, profile, row, last, catalog, tokens>>

\* upsert of a row that was not there: it conflicts with one that is there by
\* now, or, where foreign keys are enforced, with the profile's end; the id a
\* sequence gave is lost with it.
Insert(r) ==
  LET q == request[r]
      id == NextId(row, last.row)
      conflict == RowFor(q.id, q.input.job) # {}
      orphan == dialect = "postgresql" /\ profile[q.id] = None
  IN  /\ q # None /\ q.kind = "put" /\ q.read = Nothing
      /\ id \in RowId
      /\ last' = [last EXCEPT !.row = IF dialect = "postgresql" THEN id ELSE @]
      /\ IF conflict \/ orphan
         THEN Reply(r, "error", None) /\ UNCHANGED row
         ELSE /\ row' = [row EXCEPT ![id] =
                   [candidate |-> q.id, job |-> q.input.job, status |-> q.input.status,
                    note |-> q.input.note, by |-> q.token]]
              /\ Commit(r, None)
      /\ UNCHANGED <<dialect, profile, catalog, tokens>>

\* upsert of the row that was read, by its id; StaleDataError where it is gone.
Replace(r) ==
  LET q == request[r]
      now == row[q.read.row]
  IN  /\ q # None /\ q.kind = "put" /\ q.read \notin {None, Nothing}
      /\ IF now = None
         THEN Reply(r, "error", None) /\ UNCHANGED row
         ELSE /\ row' = [row EXCEPT ![q.read.row] = [now EXCEPT
                   !.status = Written(q.read.columns.status, q.input.status, @),
                   !.note = Written(q.read.columns.note, q.input.note, @)]]
              /\ Commit(r, None)
      /\ UNCHANGED <<dialect, profile, last, catalog, tokens>>

\* delete_job_state, of the row that was read, by its id.
Drop(r) ==
  LET q == request[r]
  IN  /\ q # None /\ q.kind = "drop" /\ q.read # None
      /\ IF q.read = Nothing
         THEN Reply(r, "ok", None) /\ UNCHANGED row
         ELSE row' = [row EXCEPT ![q.read.row] = None] /\ Commit(r, None)
      /\ UNCHANGED <<dialect, profile, last, catalog, tokens>>

-------------------------------------------------------------------------------

\* An ingestion or an import commits (JobStore).
Import ==
  /\ catalog' \in Catalog \ {catalog}
  /\ sent' = None
  /\ UNCHANGED <<dialect, profile, row, last, tokens, request>>

\* The server stops: what is not committed never was.
Restart ==
  /\ \E r \in Request : request[r] # None
  /\ request' = [r \in Request |-> None]
  /\ sent' = None
  /\ UNCHANGED <<dialect, profile, row, last, catalog, tokens>>

Handle(r) ==
  \/ \E kind \in Kinds, id \in Id, token \in 1..tokens :
       \E input \in Inputs(kind) : Arrive(r, kind, id, token, input)
  \/ Refuse(r)
  \/ \E content \in Content : Create(r, content)
  \/ Update(r) \/ Delete(r) \/ Export(r) \/ Recommend(r)
  \/ Look(r) \/ Insert(r) \/ Replace(r) \/ Drop(r)
  \/ Busy(r)

Next == (\E r \in Request : Handle(r)) \/ Import \/ Restart

Spec == Init /\ [][Next]_vars

-------------------------------------------------------------------------------

Working(kind) ==
  [kind : {kind}, id : Id, token : 1..MaxToken, input : Inputs(kind),
   read : (IF kind \in {"update", "export", "recommend"} THEN Content
           ELSE [row : RowId, columns : [status : Status, note : Note] \cup {None}]
                  \cup {Nothing, None}),
   overlapped : BOOLEAN]

Shortlist == [page : Seq(Nat), totals : Seq(Score), companies : Seq(Score),
              count : Nat]
Exported == [candidate : Content, states : SUBSET Row]

\* The tables and the requests under way.
StateTyped ==
  /\ dialect \in Dialect
  /\ profile \in [Id -> Account \cup {None}]
  /\ row \in [RowId -> Row \cup {None}]
  /\ last \in [profile : 0..MaxId, row : 0..MaxRow]
  /\ catalog \in Catalog /\ tokens \in 0..MaxToken
  /\ DOMAIN request = Request
  /\ \A r \in Request :
       request[r] # None => request[r].kind \in Kinds /\ request[r] \in Working(request[r].kind)

\* Type correctness; the scores the shortlist shows are percentages.
TypeOK ==
  /\ StateTyped
  /\ sent \in [from : Request, status : {"ok", "not_found", "error", "busy"},
               result : Shortlist \cup Exported \cup {None}] \cup {None}

\* "Permanently delete your profile and application tracking data": whatever
\* requests were under way when it was deleted, nothing is left that a profile
\* stored which is gone, and no profile comes into what another left.
NothingInherited ==
  \A k \in Taken(row) :
    profile[row[k].candidate] # None /\ profile[row[k].candidate].token = row[k].by

\* ... where the database enforces the foreign keys of the schema.
ErasureComplete == dialect = "postgresql" => NothingInherited

\* A profile, and what is tracked for it, changes at the request of the holder
\* of its token only, however long ago the request was authorised.
ActsForItsProfile ==
  [][dialect = "postgresql" =>
       /\ \A i \in Taken(profile) : profile'[i] # profile[i] =>
            request[sent'.from].token = profile[i].token
       /\ \A k \in RowId : row'[k] # row[k] =>
            \A state \in {row[k], row'[k]} \ {None} :
              request[sent'.from].token = profile[state.candidate].token]_vars

\* A PUT of a vacancy's state that no other write overlaps is not refused, except
\* for want of the writer's place, and its state is what is then stored, once.
AloneSucceeds ==
  [][\A r \in Request :
       /\ sent' # None /\ sent'.from = r
       /\ request[r] # None /\ request[r].kind = "put" /\ ~request[r].overlapped
       /\ sent'.status # "busy"
       => /\ sent'.status = "ok"
          /\ {<<row'[k].status, row'[k].note>> :
                k \in {j \in RowId : /\ row'[j] # None /\ row'[j].candidate = request[r].id
                                     /\ row'[j].job = request[r].input.job}}
             = {<<request[r].input.status, request[r].input.note>>}]_vars

\* The pages one limit apart show every vacancy that qualifies once, none before
\* a better one, and the count is theirs.
LeafsThrough(candidate, jobs, query) ==
  LET all == Qualifying(candidate, jobs, query)
      PageAt == [n \in 0..Cardinality(all) |->
                   Page(candidate, jobs, [query EXCEPT !.offset = n * query.limit])]
      Key(at) == SortKey(candidate, PageAt[at[1]][at[2]], query.sort)
      Places == UNION {{n} \X DOMAIN PageAt[n] : n \in DOMAIN PageAt}
  IN  /\ Cardinality(Places) = Cardinality(all)
      /\ {PageAt[at[1]][at[2]] : at \in Places} = all
      /\ \A a, b \in Places :
           a[1] < b[1] \/ (a[1] = b[1] /\ a[2] < b[2]) => Precedes(Key(a), Key(b))
      /\ Listed(candidate, jobs, query).count = Cardinality(all)

\* The contents, catalogs and queries of which that holds.
Leafable ==
  {[content |-> of[1], catalog |-> of[2], query |-> of[3]] :
     of \in {at \in Content \X Catalog \X Query :
               /\ Servable(Jobs[at[2]], at[3])
               /\ LeafsThrough(Says[at[1]], Jobs[at[2]], at[3])}}

\* A user who leafs through an unchanged shortlist sees every vacancy that
\* qualifies once and in order, whatever scores tie, with the count of them.
PagesShowEachOnce ==
  [][\A r \in Request :
       sent' # None /\ sent'.from = r /\ sent'.status = "ok"
       /\ request[r] # None /\ request[r].kind = "recommend"
       => [content |-> request[r].read, catalog |-> catalog, query |-> request[r].input]
            \in Leafable]_vars
===============================================================================
