------------------------------ MODULE JobStore ------------------------------
(***************************************************************************)
(* The stored vacancies and what is said of their sponsors: the jobs,      *)
(* companies and sponsor_records of the local database (db/repository.py)  *)
(* under the three writers that change them: an ingestion that stores one  *)
(* board (ingestion/pipeline.py), an import of the register                *)
(* (ingestion/sponsors.py), and a desktop refresh, which imports a catalog *)
(* and the register in one transaction (catalog/delivery.py, launcher.py). *)
(*                                                                         *)
(* What a provider says of a vacancy at one time is a content: the         *)
(* employer's name, the country, the text (Eligibility), whether the role  *)
(* is technical, and the canonical URL to apply at.  A record of the       *)
(* register is the normalised name and the country it is looked up by.     *)
(***************************************************************************)
EXTENDS Eligibility, FiniteSets

CONSTANTS Posting,      \* vacancies, numbered as their boards list them
          BoardOf,      \* the board that lists each
          ContentOf,    \* what its provider may say of each
          Name,         \* employers' names as published
          Norm,         \* normalize_company_name
          Trusted,      \* the names of company_name_quality "verified"
          Url, None,
          Central       \* registers that published catalogs were assessed against

Board == {BoardOf[p] : p \in Posting}
Normal == {Norm[n] : n \in Name}
Record == Normal \X Country
Contents == [name : Name, country : Country \cup {None}, text : SUBSET Groups,
             technical : BOOLEAN, url : Url \cup {None}]
Content == UNION {ContentOf[p] : p \in Posting}

ASSUME JobStoreAssumption ==
  /\ Posting \subseteq Nat \ {0} /\ IsFiniteSet(Posting)
  /\ None \notin Country \cup Board \cup Url \cup Contents
  /\ \A p \in Posting : ContentOf[p] \subseteq Contents
  /\ Trusted \subseteq Name /\ Central \subseteq SUBSET Record

VARIABLES
  db,        \* the committed tables: register, flag of companies, row of jobs
  ingest,    \* the ingestion that holds the writer's place, if any
  since      \* history: what has happened since dependents were repaired

vars == <<db, ingest, since>>

\* A company is its normalised name, or, where the name is not trusted as one,
\* the name itself (a digest of it), in its country.
Company(c) ==
  [name |-> IF c.name \in Trusted THEN Norm[c.name] ELSE c.name,
   trusted |-> c.name \in Trusted, country |-> c.country]

Companies == {Company(c) : c \in Content}

\* find_sponsor_record, and SponsorRegistryStore.find: by the normalised name.
Registered(register, c) == <<Norm[c.name], c.country>> \in register

\* What _reconcile_registry_dependents and upsert_job call verified.
Vouched(register, c) == Registered(register, c) /\ c.name \in Trusted

NoRow == [id |-> 0, content |-> None, active |-> FALSE, verdict |-> None,
          signal |-> "not_mentioned", sponsor |-> FALSE, duplicate |-> 0]

Stored(d) == {p \in Posting : d.row[p].id # 0}
Active(d) == {p \in Posting : d.row[p].active}

Init ==
  /\ db = [register |-> {}, flag |-> [k \in Companies |-> FALSE],
           row |-> [p \in Posting |-> NoRow]]
  /\ ingest = None /\ since = {}

-------------------------------------------------------------------------------
(* Repository.  A listing gives what a provider says of some postings; they *)
(* are written in order.                                                   *)

\* The assessment ingest_source stores: of a role that is not technical, a
\* rejection without evidence.
Assessed(c, register) ==
  IF c.technical THEN Assess(c.text, c.country, Registered(register, c))
  ELSE Verdict("rejected", 0, {})

\* Ids are given in the order of insertion.
IdOf(d, listing, p) ==
  IF p \in Stored(d) THEN d.row[p].id
  ELSE Cardinality(Stored(d) \cup {q \in DOMAIN listing : q <= p})

\* The jobs when p's turn has come.
Before(d, listing, p) ==
  [d EXCEPT !.row = [q \in Posting |->
     IF q \in DOMAIN listing /\ q < p
     THEN [d.row[q] EXCEPT !.id = IdOf(d, listing, q), !.content = listing[q], !.active = TRUE]
     ELSE d.row[q]]]

\* The other open vacancies of the company with the same URL to apply at.
Equals(d, p, c) ==
  {q \in Active(d) \ {p} : /\ d.row[q].content.url = c.url
                           /\ Company(d.row[q].content) = Company(c)}

Oldest(d, S) ==
  CHOOSE i \in {d.row[q].id : q \in S} : \A q \in S : i <= d.row[q].id

\* duplicate_of_job_id: the oldest of them; kept as it is without a URL.
DuplicateOf(d, p, c) ==
  IF c.url = None THEN d.row[p].duplicate
  ELSE IF Equals(d, p, c) = {} THEN 0
  ELSE Oldest(d, Equals(d, p, c))

\* A job as upsert_job leaves it: all of it is written anew but the id.
Upserted(d, listing, p, register) ==
  LET c == listing[p]
      verdict == Assessed(c, register)
  IN  [id |-> IdOf(d, listing, p), content |-> c, active |-> TRUE,
       verdict |-> verdict, signal |-> Signal(verdict.evidence),
       sponsor |-> Registered(d.register, c),
       duplicate |-> DuplicateOf(Before(d, listing, p), p, c)]

\* upsert_company, with the sponsor record upsert_job finds.
FlagsAfter(d, listing) ==
  [k \in Companies |->
     LET renewed == {p \in DOMAIN listing : Company(listing[p]) = k}
     IN  IF renewed = {} THEN d.flag[k]
         ELSE \E p \in renewed : Vouched(d.register, listing[p])]

\* mark_source_jobs_inactive_except.
Close(row) == [row EXCEPT !.active = FALSE]

PostingsOf(b) == {p \in Posting : BoardOf[p] = b}

Listings(S) ==
  UNION {{l \in [T -> Content] : \A p \in T : l[p] \in ContentOf[p]} : T \in SUBSET S}

-------------------------------------------------------------------------------
(* Ingestion of one board.                                                 *)

\* Mutant: an ingestion holds nobody up.
AnyTime == TRUE

\* SQLite has one writer, and an ingestion is one from the flush of its run row,
\* before it reads the register, to its commit.
NoWriter == ingest = None

\* session.add(run); session.flush(); sponsor_evidence_for_jobs.
Begin(b) ==
  /\ NoWriter
  /\ ingest' = [board |-> b, register |-> db.register]
  /\ UNCHANGED <<db, since>>

\* The fetched vacancies are stored against the register that was read; a
\* complete listing closes what it lacks.
StoreListing(listing, closed) ==
  [db EXCEPT
     !.flag = FlagsAfter(db, listing),
     !.row = [p \in Posting |->
       IF p \in DOMAIN listing THEN Upserted(db, listing, p, ingest.register)
       ELSE IF p \in closed \cap Active(db) THEN Close(db.row[p])
       ELSE db.row[p]]]

\* The rest of ingest_source, up to its commit.
Store ==
  /\ ingest # None
  /\ \E listing \in Listings(PostingsOf(ingest.board)), complete \in BOOLEAN :
       db' = StoreListing(listing, IF complete THEN PostingsOf(ingest.board) ELSE {})
  /\ ingest' = None
  /\ since' = since \cup {"ingestion"}

\* Anything raises: the session is rolled back, a failed run recorded.
Fail ==
  /\ ingest # None
  /\ ingest' = None
  /\ UNCHANGED <<db, since>>

-------------------------------------------------------------------------------
(* Imports.                                                                *)

\* A stored vacancy as the register now makes it.
Repaired(row, register) ==
  LET c == row.content
      verdict == IF c.technical THEN Assessed(c, register) ELSE row.verdict
  IN  [row EXCEPT !.sponsor = Vouched(register, c), !.verdict = verdict,
                  !.signal = Signal(verdict.evidence)]

FlagsNow(register) ==
  [k \in Companies |-> \E c \in Content : Company(c) = k /\ Vouched(register, c)]

\* Mutant: closed vacancies are not repaired.
ReconcileOpen(d) ==
  [d EXCEPT
     !.flag = FlagsNow(d.register),
     !.row = [p \in Posting |->
       IF p \in Active(d) THEN Repaired(d.row[p], d.register) ELSE d.row[p]]]

\* _reconcile_registry_dependents: of every company and every stored vacancy of
\* it, open or closed.
Reconcile(d) ==
  [d EXCEPT
     !.flag = FlagsNow(d.register),
     !.row = [p \in Posting |->
       IF p \in Stored(d) THEN Repaired(d.row[p], d.register) ELSE d.row[p]]]

\* import_production_sponsor_evidence: a register without usable records is an
\* error; the official file replaces the table and dependents are repaired.
ReplaceRegister(register) ==
  /\ NoWriter /\ register # {}
  /\ db' = Reconcile([db EXCEPT !.register = register])
  /\ since' = since \ {"records"}
  /\ UNCHANGED ingest

\* import_sponsor_csv: a file of the user's adds records, and that is all.
AddRecords(records) ==
  /\ NoWriter /\ records # {}
  /\ db' = [db EXCEPT !.register = @ \cup records]
  /\ since' = since \cup {"records"}
  /\ UNCHANGED ingest

\* The jobs and companies of a catalog: the verdicts are those of the central
\* database, against the register that held there.
Imported(listing, central, closed) ==
  LET Row(p) ==
        LET c == listing[p]
            verdict == Assessed(c, central)
        IN  [id |-> IdOf(db, listing, p), content |-> c, active |-> TRUE,
             verdict |-> verdict, signal |-> Signal(verdict.evidence),
             sponsor |-> Registered(central, c), duplicate |-> db.row[p].duplicate]
  IN  [db EXCEPT
         !.flag = [k \in Companies |->
           LET renewed == {p \in DOMAIN listing : Company(listing[p]) = k}
           IN  IF renewed = {} THEN db.flag[k]
               ELSE \E p \in renewed : Registered(central, listing[p])],
         !.row = [p \in Posting |->
           IF p \in DOMAIN listing THEN Row(p)
           ELSE IF p \in closed \cap Active(db) THEN Close(db.row[p])
           ELSE db.row[p]]]

\* Mutant: a pointer that is not needed any more is left.
RepairWithoutReset(d) ==
  [d EXCEPT !.row = [p \in Posting |->
     LET row == d.row[p]
         equals == Equals(d, p, row.content)
     IN  IF row.active /\ row.content.url # None /\ equals # {} /\ Oldest(d, equals) < row.id
         THEN [row EXCEPT !.duplicate = Oldest(d, equals)] ELSE row]]

\* The last loop of import_catalog, over the open vacancies by id.
RepairDuplicates(d) ==
  [d EXCEPT !.row = [p \in Posting |->
     LET row == d.row[p]
         equals == Equals(d, p, row.content)
         original == IF row.content.url = None \/ equals = {} THEN 0 ELSE Oldest(d, equals)
     IN  IF ~row.active THEN row
         ELSE [row EXCEPT !.duplicate = IF original < row.id THEN original ELSE 0]]]

\* A desktop refresh: import_catalog, which takes the technical vacancies, and
\* closes what boards it is authoritative about do not list; then the register
\* of the release is imported.
Sync(listing, central, authoritative, register) ==
  /\ NoWriter /\ register # {}
  /\ LET closed == {p \in Posting : BoardOf[p] \in authoritative}
         repaired == RepairDuplicates(Imported(listing, central, closed))
     IN  db' = Reconcile([repaired EXCEPT !.register = register])
  /\ since' = {}
  /\ UNCHANGED ingest

Synchronise ==
  \E listing \in Listings(Posting), central \in Central,
     authoritative \in SUBSET Board, register \in SUBSET Record :
       /\ \A p \in DOMAIN listing : listing[p].technical
       /\ Sync(listing, central, authoritative, register)

Next ==
  \/ \E b \in Board : Begin(b)
  \/ Store \/ Fail
  \/ \E register \in SUBSET Record : ReplaceRegister(register) \/ AddRecords(register)
  \/ Synchronise

Spec == Init /\ [][Next]_vars

-------------------------------------------------------------------------------

JobRow == [id : Nat \ {0}, content : Content, active : BOOLEAN, verdict : Verdicts,
           signal : Signals, sponsor : BOOLEAN, duplicate : Nat]

\* Type correctness of the tables and of the ingestion in progress.
TypeOK ==
  /\ db \in [register : SUBSET Record, flag : [Companies -> BOOLEAN],
            row : [Posting -> JobRow \cup {NoRow}]]
  /\ ingest = None \/ (ingest.board \in Board /\ ingest.register \in SUBSET Record)
  /\ since \in SUBSET {"records", "ingestion"}

Technical == {p \in Stored(db) : db.row[p].content.technical}

\* The strict gate: a vacancy is eligible only while its present text and the
\* register of today justify it, through edits of the text, withdrawn licences,
\* catalogs assessed elsewhere, and ingestions that overlap an import.
EligibleJustified ==
  \A p \in Technical : db.row[p].verdict.status = "eligible" =>
    LET c == db.row[p].content
    IN  Justified(c.text, c.country, Registered(db.register, c))

\* "The production file is an authoritative snapshot" whose import repairs
\* "dependent truth fields": unless the user has added records since, every
\* stored vacancy, open or closed, has the verdict today's register gives it.
VerdictsCurrent ==
  "records" \notin since => \A p \in Technical :
              db.row[p].verdict = Assessed(db.row[p].content, db.register)

\* "Registry membership is a snapshot, not a historical achievement": whatever
\* says that an employer is a recognised sponsor, its company's flag, the
\* vacancy's status or an evidence item, is backed by a record of today.
SponsorBacked ==
  /\ \A c \in Content : db.flag[Company(c)] => Vouched(db.register, c)
  /\ \A p \in Stored(db) :
       LET row == db.row[p]
       IN  row.sponsor \/ "verified_sponsor_registry" \in row.verdict.evidence
             => Registered(db.register, row.content)

\* What a stored vacancy or a company claims about sponsorship is borne by the
\* texts and the register of today, through every order of ingestions, imports and
\* desktop refreshes, closed vacancies included.
ClaimsBacked == EligibleJustified /\ SponsorBacked

\* Until the next ingestion after a desktop refresh the open vacancies of a
\* company with one URL have one original, the oldest, and the others point at
\* it, whatever cycles and dangling pointers earlier ingestions left behind.
DuplicatesResolved ==
  "ingestion" \notin since => \A p \in Active(db) :
    LET row == db.row[p]
        same == Equals(db, p, row.content) \cup {p}
    IN  IF row.content.url = None THEN row.duplicate = 0
        ELSE \E q \in same : /\ \A r \in same : db.row[q].id <= db.row[r].id
                             /\ row.duplicate = IF p = q THEN 0 ELSE db.row[q].id

\* A stored vacancy keeps its id for ever: what profiles have saved stays.
RowsKept ==
  [][\A p \in Stored(db) : db'.row[p].id = db.row[p].id]_vars
===============================================================================
