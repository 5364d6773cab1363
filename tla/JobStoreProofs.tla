---------------------------- MODULE JobStoreProofs ----------------------------
(***************************************************************************)
(* Proofs about the eligibility gate and the stored vacancies: whatever    *)
(* the vacancies, employers, countries and registers are, a verdict and a  *)
(* sponsor flag never outlive the text and the register they rest on.      *)
(***************************************************************************)
EXTENDS JobStore, FiniteSetTheorems, WellFoundedInduction, TLAPS

\* The engine admits exactly what the gate promises, for every text, country and
\* register (assess, read branch by branch).
THEOREM GateExact ==
  ASSUME NEW text, NEW country, NEW registered \in BOOLEAN
  PROVE  Assess(text, country, registered).status = "eligible"
           <=> Justified(text, country, registered)
<1>1. CASE "refusal" \in text
  BY <1>1 DEF Assess, Verdict, Justified
<1>2. CASE "refusal" \notin text
  <2>1. Strong(text \ {"refusal"}, registered) <=> Strong(text, registered)
    BY DEF Strong
  <2>2. CASE country \notin Supported
    BY <1>2, <2>2 DEF Assess, Verdict, Justified
  <2>3. CASE country \in Supported /\ country \in RegisterRequired /\ ~registered
    BY <1>2, <2>3 DEF Assess, Verdict, Justified
  <2>4. CASE /\ country \in Supported
             /\ ~(country \in RegisterRequired /\ ~registered)
             /\ ~Strong(text, registered)
    BY <1>2, <2>1, <2>4 DEF Assess, Verdict, Justified
  <2>5. CASE /\ country \in Supported
             /\ ~(country \in RegisterRequired /\ ~registered)
             /\ Strong(text, registered)
    BY <1>2, <2>1, <2>5 DEF Assess, Verdict, Justified
  <2> QED
    BY <2>2, <2>3, <2>4, <2>5
<1> QED
  BY <1>1, <1>2

\* A score is a percentage and the evidence consists of known codes.
LEMMA AssessTyped ==
  ASSUME NEW text \in SUBSET Groups, NEW country, NEW registered \in BOOLEAN
  PROVE  Assess(text, country, registered) \in Verdicts
<1> DEFINE found == text \ {"refusal"}
           score == ScoreOf(found, registered)
           sponsor == IF registered THEN {"verified_sponsor_registry"} ELSE {}
           evidence == {"supported_country"} \cup found \cup sponsor
<1>1. score \in Nat
  BY DEF ScoreOf
<1>2. Least(score, 69) \in 0..100 /\ Least(score, 100) \in 0..100
  BY <1>1 DEF Least
<1>3. found \in SUBSET Codes /\ evidence \in SUBSET Codes
  BY DEF Groups, Codes
<1>4. ASSUME NEW status \in {"eligible", "unknown", "rejected"}, NEW n \in 0..100,
             NEW e \in SUBSET Codes
      PROVE  Verdict(status, n, e) \in Verdicts
  BY <1>4 DEF Verdict, Verdicts
<1> HIDE DEF found, score, sponsor, evidence
<1>5. /\ Verdict("rejected", 0, {"refusal"}) \in Verdicts
      /\ Verdict("unknown", 0, found \cup {"unsupported_country"}) \in Verdicts
      /\ Verdict("unknown", Least(score, 69), evidence \cup {"sponsor_registry_not_verified"}) \in Verdicts
      /\ Verdict("unknown", Least(score, 69), evidence \cup {"insufficient_job_level_evidence"}) \in Verdicts
      /\ Verdict("eligible", Least(score, 100), evidence) \in Verdicts
  <2>1. /\ {"refusal"} \in SUBSET Codes
        /\ found \cup {"unsupported_country"} \in SUBSET Codes
        /\ evidence \cup {"sponsor_registry_not_verified"} \in SUBSET Codes
        /\ evidence \cup {"insufficient_job_level_evidence"} \in SUBSET Codes
    BY <1>3 DEF Codes, Groups
  <2>2. 0 \in 0..100
    OBVIOUS
  <2> QED
    BY <1>2, <1>3, <1>4, <2>1, <2>2
<1> QED
  BY <1>5, Zenon DEF Assess, found, score, sponsor, evidence

\* An item that names the register is attached only to a registered employer.
LEMMA EvidenceOfRegister ==
  ASSUME NEW text \in SUBSET Groups, NEW country, NEW registered \in BOOLEAN,
         "verified_sponsor_registry" \in Assess(text, country, registered).evidence
  PROVE  registered
<1>1. SUFFICES ASSUME ~registered PROVE FALSE
  OBVIOUS
<1>2. "verified_sponsor_registry" \notin text
  BY DEF Groups
<1> QED
  BY <1>1, <1>2 DEF Assess, Verdict, Groups

LEMMA SignalTyped == \A e : Signal(e) \in Signals
BY DEF Signal, Signals

-------------------------------------------------------------------------------

\* The smallest number of a non-empty set of numbers exists.
LEMMA OldestExists ==
  ASSUME NEW d, NEW S, S # {}, \A q \in S : d.row[q].id \in Nat
  PROVE  /\ Oldest(d, S) \in {d.row[q].id : q \in S}
         /\ \A q \in S : Oldest(d, S) <= d.row[q].id
<1> DEFINE T == {d.row[q].id : q \in S}
<1>1. T \subseteq Nat /\ T # {}
  OBVIOUS
<1>2. PICK x \in T : \A y \in T : ~(<<y, x>> \in OpToRel(<, Nat))
  BY <1>1, WFMin, NatLessThanWellFounded
<1>3. ASSUME NEW y \in T
      PROVE  x <= y
  <2>1. x \in Nat /\ y \in Nat
    BY <1>1
  <2>2. ~(<<y, x>> \in OpToRel(<, Nat))
    BY <1>2
  <2>3. ~(y < x)
    BY <2>1, <2>2 DEF OpToRel
  <2> QED
    BY <2>1, <2>3
<1>4. \E i \in T : \A q \in S : i <= d.row[q].id
  BY <1>3
<1> QED
  BY <1>4 DEF Oldest

\* What a provider says is a name, a country, a text, and so on.
LEMMA ContentTyped ==
  \A c \in Content : /\ c \in Contents
                     /\ c.name \in Name /\ c.country \in Country \cup {None}
                     /\ c.text \in SUBSET Groups /\ c.technical \in BOOLEAN
BY JobStoreAssumption DEF Content, Contents

\* An assessment is a verdict of the engine.
LEMMA AssessedTyped ==
  ASSUME NEW c \in Content, NEW register
  PROVE  Assessed(c, register) \in Verdicts
<1>1. Registered(register, c) \in BOOLEAN
  BY DEF Registered
<1>2. Verdict("rejected", 0, {}) \in Verdicts
  BY DEF Verdict, Verdicts
<1> QED
  BY <1>1, <1>2, AssessTyped, ContentTyped DEF Assessed

\* A listing says of some postings one thing their provider may say.
LEMMA ListingTyped ==
  ASSUME NEW S \in SUBSET Posting, NEW listing \in Listings(S)
  PROVE  DOMAIN listing \in SUBSET S /\ \A p \in DOMAIN listing : listing[p] \in Content
BY DEF Listings

\* An id is a positive number.
LEMMA IdTyped ==
  ASSUME NEW d, NEW listing, DOMAIN listing \subseteq Posting,
         \A q \in Posting : d.row[q].id \in Nat,
         NEW p \in DOMAIN listing
  PROVE  IdOf(d, listing, p) \in Nat \ {0}
<1>1. CASE p \in Stored(d)
  BY <1>1 DEF IdOf, Stored
<1>2. CASE p \notin Stored(d)
  <2> DEFINE S == Stored(d) \cup {q \in DOMAIN listing : q <= p}
  <2>1. S \subseteq Posting /\ IsFiniteSet(S)
    BY JobStoreAssumption, FS_Subset DEF Stored
  <2>2. p \in S
    <3>1. p \in Nat
      BY JobStoreAssumption
    <3> QED
      BY <3>1
  <2>3. Cardinality(S) \in Nat /\ Cardinality(S) # 0
    <3> HIDE DEF S
    <3> QED
      BY <2>1, <2>2, FS_CardinalityType, FS_EmptySet
  <2> QED
    BY <1>2, <2>3 DEF IdOf
<1> QED
  BY <1>1, <1>2

-------------------------------------------------------------------------------

Rows == [Posting -> JobRow \cup {NoRow}]
Tables == [register : SUBSET Record, flag : [Companies -> BOOLEAN], row : Rows]

\* Writing one table leaves the others as they were.
LEMMA TablesWrite ==
  ASSUME NEW d \in Tables, NEW register \in SUBSET Record,
         NEW flag \in [Companies -> BOOLEAN], NEW row \in Rows
  PROVE  /\ [d EXCEPT !.register = register] \in Tables
         /\ [d EXCEPT !.row = row] \in Tables
         /\ [d EXCEPT !.flag = flag, !.row = row] \in Tables
<1> USE DEF Tables
<1>1. [d EXCEPT !.register = register] \in Tables
  OBVIOUS
<1>2. [d EXCEPT !.row = row] \in Tables
  OBVIOUS
<1>3. [d EXCEPT !.flag = flag, !.row = row] \in Tables
  OBVIOUS
<1> QED
  BY <1>1, <1>2, <1>3

\* A row with a positive id is a stored vacancy; others are no rows.
LEMMA RowTyped ==
  ASSUME NEW d \in Tables, NEW p \in Posting
  PROVE  /\ d.row[p] \in JobRow \cup {NoRow}
         /\ d.row[p].id \in Nat /\ d.row[p].duplicate \in Nat
         /\ p \in Stored(d) => d.row[p] \in JobRow
         /\ p \in Active(d) => d.row[p] \in JobRow
         /\ p \notin Stored(d) => d.row[p] = NoRow
<1>1. d.row[p] \in JobRow \cup {NoRow}
  BY DEF Tables, Rows
<1>2. CASE d.row[p] \in JobRow
  <2>1. d.row[p].id \in Nat \ {0} /\ d.row[p].duplicate \in Nat
    BY <1>2 DEF JobRow
  <2> QED
    BY <1>2, <2>1 DEF Stored
<1>3. CASE d.row[p] = NoRow
  <2>1. d.row[p].id = 0 /\ d.row[p].duplicate = 0 /\ d.row[p].active = FALSE
    BY <1>3 DEF NoRow
  <2> QED
    BY <1>3, <2>1 DEF Stored, Active
<1> QED
  BY <1>1, <1>2, <1>3

\* Fields of a stored vacancy change within their types.
LEMMA RowWrite ==
  ASSUME NEW r \in JobRow, NEW b \in BOOLEAN, NEW v \in Verdicts, NEW s \in Signals,
         NEW n \in Nat
  PROVE  /\ [r EXCEPT !.active = b] \in JobRow
         /\ [r EXCEPT !.duplicate = n] \in JobRow
         /\ [r EXCEPT !.sponsor = b, !.verdict = v, !.signal = s] \in JobRow
<1> USE DEF JobRow
<1>1. [r EXCEPT !.active = b] \in JobRow
  OBVIOUS
<1>2. [r EXCEPT !.duplicate = n] \in JobRow
  OBVIOUS
<1>3. [r EXCEPT !.sponsor = b, !.verdict = v, !.signal = s] \in JobRow
  OBVIOUS
<1> QED
  BY <1>1, <1>2, <1>3

LEMMA BeforeTyped ==
  ASSUME NEW d \in Tables, NEW listing, DOMAIN listing \subseteq Posting, NEW p, NEW q \in Posting
  PROVE  Before(d, listing, p).row[q].id \in Nat
<1> DEFINE row == [r \in Posting |->
             IF r \in DOMAIN listing /\ r < p
             THEN [d.row[r] EXCEPT !.id = IdOf(d, listing, r), !.content = listing[r], !.active = TRUE]
             ELSE d.row[r]]
<1>1. Before(d, listing, p).row = row
  BY DEF Before, Tables
<1>2. d.row[q] \in JobRow \cup {NoRow} /\ d.row[q].id \in Nat
  BY RowTyped
<1>3. CASE q \in DOMAIN listing /\ q < p
  <2>1. IdOf(d, listing, q) \in Nat
    BY <1>3, IdTyped, RowTyped
  <2>2. row[q].id = IdOf(d, listing, q)
    BY <1>2, <1>3 DEF JobRow, NoRow
  <2> QED
    BY <1>1, <2>1, <2>2
<1>4. CASE ~(q \in DOMAIN listing /\ q < p)
  BY <1>1, <1>2, <1>4
<1> QED
  BY <1>3, <1>4

LEMMA DuplicateTyped ==
  ASSUME NEW d \in Tables, NEW listing, DOMAIN listing \subseteq Posting,
         NEW p \in Posting, NEW c
  PROVE  DuplicateOf(Before(d, listing, p), p, c) \in Nat
<1> DEFINE b == Before(d, listing, p)
<1>1. b.row[p].duplicate \in Nat
  <2>1. d.row[p].duplicate \in Nat /\ d.row[p] \in JobRow \cup {NoRow}
    BY RowTyped
  <2>2. b.row[p] = IF p \in DOMAIN listing /\ p < p
          THEN [d.row[p] EXCEPT !.id = IdOf(d, listing, p), !.content = listing[p], !.active = TRUE]
          ELSE d.row[p]
    BY DEF Before, Tables
  <2> QED
    BY <2>1, <2>2 DEF JobRow, NoRow
<1>2. \A S \in SUBSET Posting : S # {} => Oldest(b, S) \in Nat
  BY BeforeTyped, OldestExists
<1>3. Equals(b, p, c) \in SUBSET Posting
  BY DEF Equals, Active
<1> QED
  BY <1>1, <1>2, <1>3 DEF DuplicateOf

LEMMA UpsertedTyped ==
  ASSUME NEW d \in Tables, NEW listing \in Listings(Posting), NEW register,
         NEW p \in DOMAIN listing
  PROVE  Upserted(d, listing, p, register) \in JobRow
<1>1. DOMAIN listing \subseteq Posting /\ p \in Posting /\ listing[p] \in Content
  BY ListingTyped
<1>2. IdOf(d, listing, p) \in Nat \ {0}
  BY <1>1, IdTyped, RowTyped
<1>3. Assessed(listing[p], register) \in Verdicts
  BY <1>1, AssessedTyped
<1>4. DuplicateOf(Before(d, listing, p), p, listing[p]) \in Nat
  BY <1>1, DuplicateTyped
<1>5. Signal(Assessed(listing[p], register).evidence) \in Signals
  BY SignalTyped
<1>6. Registered(d.register, listing[p]) \in BOOLEAN
  BY DEF Registered
<1> HIDE DEF JobRow
<1> QED
  BY <1>1, <1>2, <1>3, <1>4, <1>5, <1>6 DEF Upserted, JobRow

LEMMA FlagsAfterTyped ==
  ASSUME NEW d \in Tables, NEW listing
  PROVE  FlagsAfter(d, listing) \in [Companies -> BOOLEAN]
<1>1. d.flag \in [Companies -> BOOLEAN]
  BY DEF Tables
<1>2. \A n, c : Vouched(n, c) \in BOOLEAN
  BY DEF Vouched, Registered
<1> QED
  BY <1>1, <1>2 DEF FlagsAfter

\* What ingestion writes are tables again.
LEMMA StoreTyped ==
  ASSUME NEW listing \in Listings(Posting), NEW closed, db \in Tables
  PROVE  StoreListing(listing, closed) \in Tables
<1> DEFINE row == [p \in Posting |->
             IF p \in DOMAIN listing THEN Upserted(db, listing, p, ingest.register)
             ELSE IF p \in closed \cap Active(db) THEN Close(db.row[p])
             ELSE db.row[p]]
<1>1. ASSUME NEW p \in Posting
      PROVE  row[p] \in JobRow \cup {NoRow}
  <2>1. CASE p \in DOMAIN listing
    BY <2>1, UpsertedTyped
  <2>2. CASE p \notin DOMAIN listing /\ p \in closed \cap Active(db)
    <3>1. db.row[p] \in JobRow
      BY <2>2, RowTyped
    <3>2. [db.row[p] EXCEPT !.active = FALSE] \in JobRow
      BY <3>1 DEF JobRow
    <3> QED
      BY <2>2, <3>2 DEF Close
  <2>3. CASE p \notin DOMAIN listing /\ p \notin closed \cap Active(db)
    BY <2>3, RowTyped
  <2> QED
    BY <2>1, <2>2, <2>3
<1>2. row \in Rows
  BY <1>1 DEF Rows
<1> HIDE DEF row
<1>3. [db EXCEPT !.flag = FlagsAfter(db, listing), !.row = row] \in Tables
  BY <1>2, FlagsAfterTyped, TablesWrite DEF Tables
<1> QED
  BY <1>3, Zenon DEF StoreListing, row

LEMMA RepairedTyped ==
  ASSUME NEW r \in JobRow, NEW register
  PROVE  Repaired(r, register) \in JobRow
<1>1. r.content \in Content /\ r.verdict \in Verdicts
  BY DEF JobRow
<1> DEFINE verdict == IF r.content.technical THEN Assessed(r.content, register) ELSE r.verdict
<1>2. verdict \in Verdicts
  BY <1>1, AssessedTyped
<1>3. Signal(verdict.evidence) \in Signals
  BY SignalTyped
<1>4. Vouched(register, r.content) \in BOOLEAN
  BY DEF Vouched, Registered
<1> HIDE DEF verdict
<1>5. [r EXCEPT !.sponsor = Vouched(register, r.content), !.verdict = verdict,
                !.signal = Signal(verdict.evidence)] \in JobRow
  BY <1>2, <1>3, <1>4 DEF JobRow
<1> QED
  BY <1>5, Zenon DEF Repaired, verdict

\* What a repair after an import writes are tables again.
LEMMA ReconcileTyped ==
  ASSUME NEW d \in Tables
  PROVE  Reconcile(d) \in Tables
<1> DEFINE row == [p \in Posting |->
             IF p \in Stored(d) THEN Repaired(d.row[p], d.register) ELSE d.row[p]]
<1>1. ASSUME NEW p \in Posting
      PROVE  row[p] \in JobRow \cup {NoRow}
  BY RowTyped, RepairedTyped
<1>2. row \in Rows
  BY <1>1 DEF Rows
<1>3. FlagsNow(d.register) \in [Companies -> BOOLEAN]
  BY DEF FlagsNow
<1> HIDE DEF row
<1>4. [d EXCEPT !.flag = FlagsNow(d.register), !.row = row] \in Tables
  BY <1>2, <1>3 DEF Tables
<1> QED
  BY <1>4, Zenon DEF Reconcile, row

\* What a catalog import writes are tables again.
LEMMA ImportedTyped ==
  ASSUME NEW listing \in Listings(Posting), NEW central, NEW closed, db \in Tables
  PROVE  Imported(listing, central, closed) \in Tables
<1> DEFINE new(p) ==
             [id |-> IdOf(db, listing, p), content |-> listing[p], active |-> TRUE,
              verdict |-> Assessed(listing[p], central),
              signal |-> Signal(Assessed(listing[p], central).evidence),
              sponsor |-> Registered(central, listing[p]),
              duplicate |-> db.row[p].duplicate]
           row == [p \in Posting |->
             IF p \in DOMAIN listing THEN new(p)
             ELSE IF p \in closed \cap Active(db) THEN Close(db.row[p])
             ELSE db.row[p]]
           flag == [k \in Companies |->
             LET renewed == {p \in DOMAIN listing : Company(listing[p]) = k}
             IN  IF renewed = {} THEN db.flag[k]
                 ELSE \E p \in renewed : Registered(central, listing[p])]
<1>1. ASSUME NEW p \in DOMAIN listing
      PROVE  new(p) \in JobRow
  <2>1. DOMAIN listing \subseteq Posting /\ p \in Posting /\ listing[p] \in Content
    BY ListingTyped
  <2>2. IdOf(db, listing, p) \in Nat \ {0}
    BY <2>1, IdTyped, RowTyped
  <2>3. Assessed(listing[p], central) \in Verdicts
    BY <2>1, AssessedTyped
  <2>4. Signal(Assessed(listing[p], central).evidence) \in Signals
    BY SignalTyped
  <2>5. Registered(central, listing[p]) \in BOOLEAN
    BY DEF Registered
  <2>6. db.row[p].duplicate \in Nat
    BY <2>1, RowTyped
  <2> QED
    BY <2>1, <2>2, <2>3, <2>4, <2>5, <2>6 DEF JobRow
<1>2. ASSUME NEW p \in Posting
      PROVE  row[p] \in JobRow \cup {NoRow}
  <2>1. CASE p \in DOMAIN listing
    BY <1>1, <2>1
  <2>2. CASE p \notin DOMAIN listing /\ p \in closed \cap Active(db)
    <3>1. db.row[p] \in JobRow
      BY <2>2, RowTyped
    <3>2. [db.row[p] EXCEPT !.active = FALSE] \in JobRow
      BY <3>1 DEF JobRow
    <3> QED
      BY <2>2, <3>2 DEF Close
  <2>3. CASE p \notin DOMAIN listing /\ p \notin closed \cap Active(db)
    BY <2>3, RowTyped
  <2> QED
    BY <2>1, <2>2, <2>3
<1>3. row \in Rows
  BY <1>2 DEF Rows
<1>4. flag \in [Companies -> BOOLEAN]
  <2>1. db.flag \in [Companies -> BOOLEAN]
    BY DEF Tables
  <2> QED
    BY <2>1
<1> HIDE DEF row, flag
<1>5. [db EXCEPT !.flag = flag, !.row = row] \in Tables
  BY <1>3, <1>4 DEF Tables
<1> QED
  BY <1>5, Zenon DEF Imported, row, flag

LEMMA RepairDuplicatesTyped ==
  ASSUME NEW d \in Tables
  PROVE  RepairDuplicates(d) \in Tables
<1> DEFINE equals(p) == Equals(d, p, d.row[p].content)
           original(p) == IF d.row[p].content.url = None \/ equals(p) = {} THEN 0
                          ELSE Oldest(d, equals(p))
           row == [p \in Posting |->
             IF ~d.row[p].active THEN d.row[p]
             ELSE [d.row[p] EXCEPT !.duplicate =
                     IF original(p) < d.row[p].id THEN original(p) ELSE 0]]
<1>1. ASSUME NEW p \in Posting
      PROVE  original(p) \in Nat
  <2>1. equals(p) \subseteq Posting
    BY DEF Equals, Active
  <2>2. \A q \in equals(p) : d.row[q].id \in Nat
    BY <2>1, RowTyped
  <2> HIDE DEF equals
  <2> QED
    BY <2>2, OldestExists
<1>2. ASSUME NEW p \in Posting
      PROVE  row[p] \in JobRow \cup {NoRow}
  <2>1. CASE ~d.row[p].active
    BY <2>1, RowTyped
  <2>2. CASE d.row[p].active
    <3>1. d.row[p] \in JobRow
      BY <2>2, RowTyped DEF Active
    <3> DEFINE n == IF original(p) < d.row[p].id THEN original(p) ELSE 0
    <3>2. n \in Nat
      BY <1>1
    <3> HIDE DEF original, n
    <3>3. [d.row[p] EXCEPT !.duplicate = n] \in JobRow
      BY <3>1, <3>2 DEF JobRow
    <3> QED
      BY <2>2, <3>3 DEF n
  <2> QED
    BY <2>1, <2>2
<1>3. row \in Rows
  BY <1>2 DEF Rows
<1> HIDE DEF row
<1>4. [d EXCEPT !.row = row] \in Tables
  BY <1>3 DEF Tables
<1>5. RepairDuplicates(d) = [d EXCEPT !.row = row]
  BY Zenon DEF RepairDuplicates, row, original, equals
<1> QED
  BY <1>4, <1>5

\* A listing of one board is a listing.
LEMMA ListingWider ==
  ASSUME NEW S \in SUBSET Posting, NEW listing \in Listings(S)
  PROVE  listing \in Listings(Posting)
BY DEF Listings

LEMMA TypeStep ==
  ASSUME TypeOK, [Next]_vars
  PROVE  TypeOK'
<1> USE DEF TypeOK
<1>1. db \in Tables
  BY DEF Tables, Rows
<1>2. ASSUME db' \in Tables,
             ingest' = None \/ (ingest'.board \in Board /\ ingest'.register \in SUBSET Record),
             since' \in SUBSET {"records", "ingestion"}
      PROVE  TypeOK'
  BY <1>2 DEF Tables, Rows
<1>3. ASSUME NEW b \in Board, Begin(b)
      PROVE  TypeOK'
  BY <1>1, <1>2, <1>3 DEF Begin, Tables
<1>4. CASE Store
  <2>1. ingest # None /\ PostingsOf(ingest.board) \in SUBSET Posting
    BY <1>4 DEF Store, PostingsOf
  <2>2. PICK listing \in Listings(PostingsOf(ingest.board)), complete \in BOOLEAN :
          db' = StoreListing(listing, IF complete THEN PostingsOf(ingest.board) ELSE {})
    BY <1>4 DEF Store
  <2>3. db' \in Tables
    BY <1>1, <2>1, <2>2, ListingWider, StoreTyped
  <2> QED
    BY <1>2, <1>4, <2>3 DEF Store
<1>5. CASE Fail
  BY <1>1, <1>2, <1>5 DEF Fail
<1>6. ASSUME NEW register \in SUBSET Record, ReplaceRegister(register)
      PROVE  TypeOK'
  <2>1. [db EXCEPT !.register = register] \in Tables
    BY <1>1, TablesWrite DEF Tables
  <2>2. db' \in Tables
    BY <1>6, <2>1, ReconcileTyped DEF ReplaceRegister
  <2> QED
    BY <1>2, <1>6, <2>2 DEF ReplaceRegister
<1>7. ASSUME NEW register \in SUBSET Record, AddRecords(register)
      PROVE  TypeOK'
  <2>1. db.register \cup register \in SUBSET Record
    BY <1>1 DEF Tables
  <2>2. [db EXCEPT !.register = db.register \cup register] \in Tables
    BY <1>1, <2>1 DEF Tables
  <2>3. db' = [db EXCEPT !.register = db.register \cup register]
    BY <1>7 DEF AddRecords
  <2> QED
    BY <1>2, <1>7, <2>2, <2>3 DEF AddRecords
<1>8. CASE Synchronise
  <2>1. PICK listing \in Listings(Posting), central \in Central,
             authoritative \in SUBSET Board, register \in SUBSET Record :
          Sync(listing, central, authoritative, register)
    BY <1>8 DEF Synchronise
  <2> DEFINE closed == {p \in Posting : BoardOf[p] \in authoritative}
             repaired == RepairDuplicates(Imported(listing, central, closed))
  <2>2. repaired \in Tables
    BY <1>1, ImportedTyped, RepairDuplicatesTyped
  <2>3. db' = Reconcile([repaired EXCEPT !.register = register]) /\ since' = {} /\ ingest' = ingest
    BY <2>1, Zenon DEF Sync
  <2> HIDE DEF repaired
  <2>4. [repaired EXCEPT !.register = register] \in Tables
    BY <2>2 DEF Tables
  <2>5. db' \in Tables
    BY <2>3, <2>4, ReconcileTyped
  <2> QED
    BY <1>2, <2>3, <2>5
<1>9. CASE UNCHANGED vars
  BY <1>1, <1>2, <1>9 DEF vars
<1> QED
  BY <1>3, <1>4, <1>5, <1>6, <1>7, <1>8, <1>9 DEF Next

\* Type correctness: for any vacancies, employers and registers, the tables hold
\* jobs with positive ids, known verdicts and pointers that are ids or nothing.
THEOREM StoreTypeCorrect == Spec => []TypeOK
<1>1. Init => TypeOK
  BY DEF Init, TypeOK
<1> QED
  BY <1>1, TypeStep, PTL DEF Spec

-------------------------------------------------------------------------------
(* What rows say and what the register holds.                              *)

\* A row whose verdict and sponsor status a register bears out.
Borne(row, register) ==
  LET c == row.content
  IN  /\ c.technical /\ row.verdict.status = "eligible" =>
           Justified(c.text, c.country, Registered(register, c))
      /\ row.sponsor \/ "verified_sponsor_registry" \in row.verdict.evidence =>
           Registered(register, c)

\* A role that is not technical has a verdict without evidence.
Bare(row) == ~row.content.technical => row.verdict = Verdict("rejected", 0, {})

FlagsBorne(flag, register) ==
  \A c \in Content : flag[Company(c)] => Vouched(register, c)

\* The inductive invariant: the register an ingestion has read is the one in the
\* table, and that one bears out every row and every flag.
StoreInv ==
  /\ TypeOK
  /\ ingest # None => ingest.register = db.register
  /\ \A p \in Stored(db) : Borne(db.row[p], db.register) /\ Bare(db.row[p])
  /\ FlagsBorne(db.flag, db.register)
  /\ VerdictsCurrent

\* Companies that are one are vouched for together.
LEMMA CompanyVouched ==
  ASSUME NEW c, NEW e, Company(c) = Company(e), NEW register
  PROVE  Vouched(register, c) <=> Vouched(register, e)
<1>1. /\ c.name \in Trusted <=> e.name \in Trusted
      /\ c.country = e.country
      /\ c.name \in Trusted /\ e.name \in Trusted => Norm[c.name] = Norm[e.name]
  <2>1. /\ Company(c).trusted = (c.name \in Trusted) /\ Company(e).trusted = (e.name \in Trusted)
        /\ Company(c).country = c.country /\ Company(e).country = e.country
        /\ c.name \in Trusted => Company(c).name = Norm[c.name]
        /\ e.name \in Trusted => Company(e).name = Norm[e.name]
    BY DEF Company
  <2> QED
    BY <2>1
<1> QED
  BY <1>1 DEF Vouched, Registered

\* A verdict given against a register is borne out by it.
LEMMA AssessedBorne ==
  ASSUME NEW c \in Content, NEW register
  PROVE  /\ Assessed(c, register).status = "eligible" =>
              Justified(c.text, c.country, Registered(register, c))
         /\ "verified_sponsor_registry" \in Assessed(c, register).evidence =>
              Registered(register, c)
         /\ ~c.technical => Assessed(c, register) = Verdict("rejected", 0, {})
<1>1. Registered(register, c) \in BOOLEAN
  BY DEF Registered
<1>2. CASE c.technical
  BY <1>1, <1>2, GateExact, EvidenceOfRegister, ContentTyped DEF Assessed
<1>3. CASE ~c.technical
  BY <1>3 DEF Assessed, Verdict
<1> QED
  BY <1>2, <1>3

\* A larger register bears out what a smaller one did.
LEMMA BorneMonotone ==
  ASSUME NEW row, NEW register, NEW larger, register \subseteq larger, Borne(row, register)
  PROVE  Borne(row, larger)
<1>1. Registered(register, row.content) => Registered(larger, row.content)
  BY DEF Registered
<1> QED
  BY <1>1 DEF Borne, Justified, Strong, Registered

\* Whatever the flags and verdicts were, after a repair the register bears them
\* out, and every technical vacancy has the verdict it gives.
LEMMA ReconcileRepairs ==
  ASSUME NEW d \in Tables, \A p \in Stored(d) : Bare(d.row[p])
  PROVE  LET r == Reconcile(d)
         IN  /\ r.register = d.register
             /\ FlagsBorne(r.flag, r.register)
             /\ \A p \in Stored(r) : Borne(r.row[p], r.register) /\ Bare(r.row[p])
             /\ \A p \in Stored(r) : r.row[p].content.technical =>
                   r.row[p].verdict = Assessed(r.row[p].content, r.register)
<1> DEFINE r == Reconcile(d)
<1>1. /\ r.register = d.register /\ r.flag = FlagsNow(d.register)
      /\ \A p \in Posting : r.row[p] = IF p \in Stored(d) THEN Repaired(d.row[p], d.register)
                                       ELSE d.row[p]
  BY DEF Reconcile, Tables
<1>2. ASSUME NEW p \in Stored(d)
      PROVE  /\ d.row[p] \in JobRow
             /\ Repaired(d.row[p], d.register).content = d.row[p].content
             /\ d.row[p].content \in Content
             /\ Repaired(d.row[p], d.register).sponsor => Vouched(d.register, d.row[p].content)
             /\ d.row[p].content.technical =>
                  Repaired(d.row[p], d.register).verdict = Assessed(d.row[p].content, d.register)
             /\ ~d.row[p].content.technical =>
                  Repaired(d.row[p], d.register).verdict = d.row[p].verdict
  <2>1. d.row[p] \in JobRow
    BY RowTyped DEF Stored
  <2> QED
    BY <2>1 DEF Repaired, JobRow
<1>3. ASSUME NEW p \in Stored(r)
      PROVE  p \in Stored(d) /\ r.row[p] = Repaired(d.row[p], d.register)
  BY <1>1 DEF Stored
<1> HIDE DEF r
<1>4. ASSUME NEW p \in Stored(r)
      PROVE  Borne(r.row[p], r.register) /\ Bare(r.row[p])
  <2> DEFINE c == d.row[p].content
  <2>1. r.row[p].content = c /\ c \in Content /\ Bare(d.row[p])
    BY <1>2, <1>3
  <2>2. r.row[p].sponsor => Registered(r.register, c)
    BY <1>1, <1>2, <1>3 DEF Vouched
  <2>3. CASE c.technical
    <3>1. r.row[p].verdict = Assessed(c, r.register)
      BY <1>1, <1>2, <1>3, <2>3
    <3> QED
      BY <2>1, <2>2, <2>3, <3>1, AssessedBorne DEF Borne, Bare
  <2>4. CASE ~c.technical
    <3>1. r.row[p].verdict = Verdict("rejected", 0, {})
      BY <1>2, <1>3, <2>1, <2>4 DEF Bare
    <3> QED
      BY <2>1, <2>2, <2>4, <3>1 DEF Borne, Bare, Verdict
  <2> QED
    BY <2>3, <2>4
<1>5. FlagsBorne(r.flag, r.register)
  <2>1. ASSUME NEW c \in Content, r.flag[Company(c)]
        PROVE  Vouched(r.register, c)
    <3>1. PICK e \in Content : Company(e) = Company(c) /\ Vouched(d.register, e)
      BY <1>1, <2>1 DEF FlagsNow, Companies
    <3> QED
      BY <1>1, <3>1, CompanyVouched
  <2> QED
    BY <2>1 DEF FlagsBorne
<1> QED
  BY <1>1, <1>2, <1>3, <1>4, <1>5 DEF r

\* An ingestion writes flags and rows that the register in the table bears out,
\* for the register it has read is that one.
LEMMA StoreBorne ==
  ASSUME StoreInv, ingest # None,
         NEW listing \in Listings(Posting), NEW closed
  PROVE  LET r == StoreListing(listing, closed)
         IN  /\ r.register = db.register
             /\ FlagsBorne(r.flag, r.register)
             /\ \A p \in Stored(r) : Borne(r.row[p], r.register) /\ Bare(r.row[p])
             /\ "records" \notin since => \A p \in Stored(r) : r.row[p].content.technical =>
                   r.row[p].verdict = Assessed(r.row[p].content, r.register)
<1> DEFINE r == StoreListing(listing, closed)
<1>1. db \in Tables /\ ingest.register = db.register
  BY DEF StoreInv, TypeOK, Tables, Rows
<1>2. /\ r.register = db.register /\ r.flag = FlagsAfter(db, listing)
      /\ \A p \in Posting :
           r.row[p] = IF p \in DOMAIN listing THEN Upserted(db, listing, p, db.register)
                      ELSE IF p \in closed \cap Active(db) THEN Close(db.row[p])
                      ELSE db.row[p]
  BY <1>1 DEF StoreListing, Tables
<1>3. ASSUME NEW p \in DOMAIN listing
      PROVE  /\ listing[p] \in Content
             /\ Upserted(db, listing, p, db.register).content = listing[p]
             /\ Upserted(db, listing, p, db.register).verdict = Assessed(listing[p], db.register)
             /\ Upserted(db, listing, p, db.register).sponsor = Registered(db.register, listing[p])
  BY ListingTyped DEF Upserted
<1>4. ASSUME NEW p \in Posting
      PROVE  /\ Close(db.row[p]).id = db.row[p].id
             /\ Close(db.row[p]).content = db.row[p].content
             /\ Close(db.row[p]).verdict = db.row[p].verdict
             /\ Close(db.row[p]).sponsor = db.row[p].sponsor
  BY <1>1, RowTyped DEF Close, JobRow, NoRow
<1> HIDE DEF r
<1>5. ASSUME NEW p \in Stored(r), p \notin DOMAIN listing
      PROVE  /\ p \in Stored(db) /\ r.row[p].content = db.row[p].content
             /\ r.row[p].verdict = db.row[p].verdict /\ r.row[p].sponsor = db.row[p].sponsor
  BY <1>2, <1>4, <1>5 DEF Stored
<1>6. ASSUME NEW p \in Stored(r)
      PROVE  /\ Borne(r.row[p], r.register) /\ Bare(r.row[p])
             /\ "records" \notin since => (r.row[p].content.technical =>
                   r.row[p].verdict = Assessed(r.row[p].content, r.register))
  <2>1. CASE p \in DOMAIN listing
    <3>1. r.row[p] = Upserted(db, listing, p, db.register)
      BY <1>2, <2>1 DEF Stored
    <3> QED
      BY <1>2, <1>3, <2>1, <3>1, AssessedBorne DEF Borne, Bare
  <2>2. CASE p \notin DOMAIN listing
    <3>1. Borne(db.row[p], db.register) /\ Bare(db.row[p])
      BY <1>5, <2>2 DEF StoreInv
    <3>2. Borne(r.row[p], r.register) /\ Bare(r.row[p])
      BY <1>2, <1>5, <2>2, <3>1 DEF Borne, Bare
    <3>3. "records" \notin since => (db.row[p].content.technical =>
             db.row[p].verdict = Assessed(db.row[p].content, db.register))
      BY <1>5, <2>2 DEF StoreInv, VerdictsCurrent, Technical
    <3> QED
      BY <1>2, <1>5, <2>2, <3>2, <3>3
  <2> QED
    BY <2>1, <2>2
<1>7. ASSUME NEW c \in Content, r.flag[Company(c)]
      PROVE  Vouched(r.register, c)
  <2> DEFINE renewed == {p \in DOMAIN listing : Company(listing[p]) = Company(c)}
  <2>1. r.flag[Company(c)] = IF renewed = {} THEN db.flag[Company(c)]
                             ELSE \E p \in renewed : Vouched(db.register, listing[p])
    BY <1>2 DEF FlagsAfter, Companies
  <2>2. CASE renewed = {}
    BY <1>2, <1>7, <2>1, <2>2 DEF StoreInv, FlagsBorne
  <2>3. CASE renewed # {}
    <3>1. PICK p \in renewed : Vouched(db.register, listing[p])
      BY <1>7, <2>1, <2>3
    <3> QED
      BY <1>2, <3>1, CompanyVouched
  <2> QED
    BY <2>2, <2>3
<1> QED
  BY <1>2, <1>6, <1>7 DEF r, FlagsBorne

\* A role that is not technical keeps its bare verdict through a catalog import,
\* which takes the technical ones.
LEMMA ImportedBare ==
  ASSUME StoreInv,
         NEW listing \in Listings(Posting), \A p \in DOMAIN listing : listing[p].technical,
         NEW central, NEW closed
  PROVE  LET r == RepairDuplicates(Imported(listing, central, closed))
         IN  \A p \in Stored(r) : Bare(r.row[p])
<1> DEFINE i == Imported(listing, central, closed)
           r == RepairDuplicates(i)
<1>1. db \in Tables
  BY DEF StoreInv, TypeOK, Tables, Rows
<1>2. i \in Tables
  BY <1>1, ImportedTyped
<1>3. ASSUME NEW p \in Posting
      PROVE  /\ p \in DOMAIN listing => i.row[p].content = listing[p]
             /\ p \notin DOMAIN listing =>
                  /\ i.row[p].content = db.row[p].content
                  /\ i.row[p].verdict = db.row[p].verdict
                  /\ i.row[p].id = db.row[p].id
  <2>1. i.row[p] = IF p \in DOMAIN listing
                   THEN [id |-> IdOf(db, listing, p), content |-> listing[p], active |-> TRUE,
                         verdict |-> Assessed(listing[p], central),
                         signal |-> Signal(Assessed(listing[p], central).evidence),
                         sponsor |-> Registered(central, listing[p]),
                         duplicate |-> db.row[p].duplicate]
                   ELSE IF p \in closed \cap Active(db) THEN Close(db.row[p]) ELSE db.row[p]
    BY <1>1 DEF Imported, Tables
  <2>2. /\ Close(db.row[p]).id = db.row[p].id
        /\ Close(db.row[p]).content = db.row[p].content
        /\ Close(db.row[p]).verdict = db.row[p].verdict
    BY <1>1, RowTyped DEF Close, JobRow, NoRow
  <2> QED
    BY <2>1, <2>2
<1> HIDE DEF i
<1>4. ASSUME NEW p \in Posting
      PROVE  /\ r.row[p].content = i.row[p].content
             /\ r.row[p].verdict = i.row[p].verdict /\ r.row[p].id = i.row[p].id
  <2>1. i.row[p] \in JobRow \cup {NoRow}
    BY <1>2, RowTyped
  <2>2. \E n : r.row[p] = i.row[p] \/ r.row[p] = [i.row[p] EXCEPT !.duplicate = n]
    BY <1>2 DEF RepairDuplicates, Tables
  <2> QED
    BY <2>1, <2>2 DEF JobRow, NoRow
<1> HIDE DEF r
<1>5. ASSUME NEW p \in Stored(r)
      PROVE  Bare(r.row[p])
  <2>1. p \in Posting
    BY DEF Stored
  <2>2. CASE p \in DOMAIN listing
    BY <1>3, <1>4, <2>1, <2>2 DEF Bare
  <2>3. CASE p \notin DOMAIN listing
    <3>1. p \in Stored(db)
      BY <1>3, <1>4, <2>1, <2>3 DEF Stored
    <3> QED
      BY <1>3, <1>4, <2>1, <2>3, <3>1 DEF StoreInv, Bare
  <2> QED
    BY <2>2, <2>3
<1> QED
  BY <1>5 DEF r, i

LEMMA InvStep ==
  ASSUME StoreInv, [Next]_vars
  PROVE  StoreInv'
<1>1. TypeOK' /\ db \in Tables
  BY TypeStep DEF StoreInv, TypeOK, Tables, Rows
<1>2. ASSUME UNCHANGED <<db, since>>, ingest' # None => ingest'.register = db.register
      PROVE  StoreInv'
  BY <1>1, <1>2 DEF StoreInv, VerdictsCurrent, Technical, Stored
<1>3. ASSUME NEW d \in Tables, \A p \in Stored(d) : Bare(d.row[p]), ingest = None,
             db' = Reconcile(d), UNCHANGED ingest
      PROVE  StoreInv'
  <2>1. /\ FlagsBorne(db'.flag, db'.register)
        /\ \A p \in Stored(db') : Borne(db'.row[p], db'.register) /\ Bare(db'.row[p])
        /\ \A p \in Stored(db') : db'.row[p].content.technical =>
              db'.row[p].verdict = Assessed(db'.row[p].content, db'.register)
    BY <1>3, ReconcileRepairs
  <2>2. VerdictsCurrent'
    BY <2>1 DEF VerdictsCurrent, Technical, Stored
  <2> QED
    BY <1>1, <1>3, <2>1, <2>2 DEF StoreInv, Stored
<1>4. ASSUME NEW b \in Board, Begin(b)
      PROVE  StoreInv'
  BY <1>2, <1>4 DEF Begin
<1>5. CASE Store
  <2>1. ingest # None /\ ingest' = None /\ since' = since \cup {"ingestion"}
    BY <1>5 DEF Store
  <2>2. PICK listing \in Listings(PostingsOf(ingest.board)), complete \in BOOLEAN :
          db' = StoreListing(listing, IF complete THEN PostingsOf(ingest.board) ELSE {})
    BY <1>5 DEF Store
  <2>3. listing \in Listings(Posting)
    BY <2>2, ListingWider DEF PostingsOf
  <2>4. /\ db'.register = db.register
        /\ FlagsBorne(db'.flag, db'.register)
        /\ \A p \in Stored(db') : Borne(db'.row[p], db'.register) /\ Bare(db'.row[p])
        /\ "records" \notin since => \A p \in Stored(db') : db'.row[p].content.technical =>
              db'.row[p].verdict = Assessed(db'.row[p].content, db'.register)
    BY <2>1, <2>2, <2>3, StoreBorne
  <2>5. VerdictsCurrent'
    BY <2>1, <2>4 DEF VerdictsCurrent, Technical, Stored
  <2> QED
    BY <1>1, <2>1, <2>4, <2>5 DEF StoreInv, Stored
<1>6. CASE Fail
  BY <1>2, <1>6 DEF Fail
<1>7. ASSUME NEW register \in SUBSET Record, ReplaceRegister(register)
      PROVE  StoreInv'
  <2> DEFINE d == [db EXCEPT !.register = register]
  <2>1. d \in Tables /\ d.row = db.row
    BY <1>1 DEF Tables
  <2>2. \A p \in Stored(d) : Bare(d.row[p])
    BY <2>1 DEF StoreInv, Stored
  <2>3. db' = Reconcile(d) /\ ingest = None /\ UNCHANGED ingest
    BY <1>7 DEF ReplaceRegister, NoWriter
  <2> HIDE DEF d
  <2> QED
    BY <1>3, <2>1, <2>2, <2>3
<1>8. ASSUME NEW register \in SUBSET Record, AddRecords(register)
      PROVE  StoreInv'
  <2>1. /\ db'.register = db.register \cup register
        /\ db'.row = db.row /\ db'.flag = db.flag /\ ingest = None /\ ingest' = ingest
        /\ "records" \in since'
    BY <1>1, <1>8 DEF AddRecords, NoWriter, Tables
  <2>2. \A p \in Stored(db) : Borne(db.row[p], db'.register) /\ Bare(db.row[p])
    BY <2>1, BorneMonotone DEF StoreInv
  <2>3. FlagsBorne(db.flag, db'.register)
    BY <2>1 DEF StoreInv, FlagsBorne, Vouched, Registered
  <2>4. VerdictsCurrent'
    BY <2>1 DEF VerdictsCurrent
  <2> QED
    BY <1>1, <2>1, <2>2, <2>3, <2>4 DEF StoreInv, Stored
<1>9. CASE Synchronise
  <2>1. PICK listing \in Listings(Posting), central \in Central,
             authoritative \in SUBSET Board, register \in SUBSET Record :
          (\A p \in DOMAIN listing : listing[p].technical)
            /\ Sync(listing, central, authoritative, register)
    BY <1>9 DEF Synchronise
  <2> DEFINE closed == {p \in Posting : BoardOf[p] \in authoritative}
             repaired == RepairDuplicates(Imported(listing, central, closed))
             d == [repaired EXCEPT !.register = register]
  <2>2. repaired \in Tables
    BY <1>1, ImportedTyped, RepairDuplicatesTyped
  <2>3. \A p \in Stored(repaired) : Bare(repaired.row[p])
    BY <2>1, ImportedBare
  <2>4. db' = Reconcile(d) /\ ingest = None /\ ingest' = ingest
    BY <2>1, Zenon DEF Sync, NoWriter
  <2> HIDE DEF repaired
  <2>5. d \in Tables /\ d.row = repaired.row
    BY <2>2 DEF Tables
  <2>6. \A p \in Stored(d) : Bare(d.row[p])
    BY <2>3, <2>5 DEF Stored
  <2> HIDE DEF d
  <2> QED
    BY <1>3, <2>4, <2>5, <2>6
<1>10. CASE UNCHANGED vars
  BY <1>2, <1>10 DEF vars, StoreInv
<1> QED
  BY <1>4, <1>5, <1>6, <1>7, <1>8, <1>9, <1>10 DEF Next

LEMMA StoreInvariant == Spec => []StoreInv
<1>1. Init => StoreInv
  <2>1. Init => Stored(db) = {}
    BY DEF Init, Stored, NoRow
  <2>2. Init => \A c \in Content : ~db.flag[Company(c)]
    BY DEF Init, Companies
  <2>3. Init => TypeOK /\ ingest = None
    BY DEF Init, TypeOK
  <2> QED
    BY <2>1, <2>2, <2>3 DEF StoreInv, FlagsBorne, VerdictsCurrent, Technical
<1> QED
  BY <1>1, InvStep, PTL DEF Spec

\* Imports of the official register repair every verdict that rests on it.
THEOREM VerdictsFollowRegister == Spec => []VerdictsCurrent
<1>1. StoreInv => VerdictsCurrent
  BY DEF StoreInv
<1> QED
  BY <1>1, StoreInvariant, PTL

\* The strict gate: no sequence of ingestions, register imports and catalogs
\* leaves a vacancy eligible that its text and today's register do not justify;
\* and no flag, status or evidence item outlives the record it names.
THEOREM ClaimsAreBacked == Spec => []ClaimsBacked
<1>1. StoreInv => EligibleJustified
  BY DEF StoreInv, EligibleJustified, Technical, Borne
<1>2. StoreInv => SponsorBacked
  BY DEF StoreInv, SponsorBacked, FlagsBorne, Borne
<1>3. StoreInv => ClaimsBacked
  BY <1>1, <1>2 DEF ClaimsBacked
<1> QED
  BY <1>3, StoreInvariant, PTL

-------------------------------------------------------------------------------

\* What is saved about a vacancy stays about it: no ingestion, import or repair
\* takes a stored vacancy's id away.
THEOREM IdsKept == Spec => RowsKept
<1>1. ASSUME TypeOK, [Next]_vars, NEW p \in Stored(db)
      PROVE  db'.row[p].id = db.row[p].id
  <2>1. db \in Tables /\ p \in Posting
    BY <1>1 DEF TypeOK, Tables, Rows, Stored
  <2>2. Close(db.row[p]).id = db.row[p].id
    BY <2>1, RowTyped DEF Close, JobRow, NoRow
  <2>3. ASSUME NEW d \in Tables
        PROVE  Reconcile(d).row[p].id = d.row[p].id
    <3>1. Reconcile(d).row[p] = IF p \in Stored(d) THEN Repaired(d.row[p], d.register) ELSE d.row[p]
      BY <2>1 DEF Reconcile, Tables
    <3>2. p \in Stored(d) => Repaired(d.row[p], d.register).id = d.row[p].id
      BY RowTyped, <2>1 DEF Repaired, JobRow
    <3> QED
      BY <3>1, <3>2
  <2>4. CASE Store
    <3>1. PICK listing, complete :
            db' = StoreListing(listing, IF complete THEN PostingsOf(ingest.board) ELSE {})
      BY <2>4 DEF Store
    <3> DEFINE closed == IF complete THEN PostingsOf(ingest.board) ELSE {}
    <3>2. db'.row[p] = IF p \in DOMAIN listing THEN Upserted(db, listing, p, ingest.register)
                       ELSE IF p \in closed \cap Active(db) THEN Close(db.row[p])
                       ELSE db.row[p]
      BY <2>1, <3>1 DEF StoreListing, Tables
    <3>3. Upserted(db, listing, p, ingest.register).id = db.row[p].id
      BY <1>1 DEF Upserted, IdOf
    <3> QED
      BY <2>2, <3>2, <3>3
  <2>5. ASSUME NEW register, register \in SUBSET Record, ReplaceRegister(register)
        PROVE  db'.row[p].id = db.row[p].id
    <3> DEFINE d == [db EXCEPT !.register = register]
    <3>1. d \in Tables /\ d.row = db.row /\ db' = Reconcile(d)
      BY <2>1, <2>5 DEF ReplaceRegister, Tables
    <3> HIDE DEF d
    <3> QED
      BY <2>3, <3>1
  <2>6. ASSUME NEW register, AddRecords(register)
        PROVE  db'.row[p].id = db.row[p].id
    BY <2>1, <2>6 DEF AddRecords, Tables
  <2>7. CASE Synchronise
    <3>1. PICK listing \in Listings(Posting), central \in Central,
               authoritative \in SUBSET Board, register \in SUBSET Record :
            Sync(listing, central, authoritative, register)
      BY <2>7 DEF Synchronise
    <3> DEFINE closed == {q \in Posting : BoardOf[q] \in authoritative}
               i == Imported(listing, central, closed)
               repaired == RepairDuplicates(i)
               d == [repaired EXCEPT !.register = register]
    <3>2. i \in Tables /\ repaired \in Tables
      BY <2>1, ImportedTyped, RepairDuplicatesTyped
    <3>3. i.row[p].id = db.row[p].id
      <4>1. i.row[p] = IF p \in DOMAIN listing
              THEN [id |-> IdOf(db, listing, p), content |-> listing[p], active |-> TRUE,
                    verdict |-> Assessed(listing[p], central),
                    signal |-> Signal(Assessed(listing[p], central).evidence),
                    sponsor |-> Registered(central, listing[p]),
                    duplicate |-> db.row[p].duplicate]
              ELSE IF p \in closed \cap Active(db) THEN Close(db.row[p]) ELSE db.row[p]
        BY <2>1 DEF Imported, Tables
      <4>2. IdOf(db, listing, p) = db.row[p].id
        BY <1>1 DEF IdOf
      <4> QED
        BY <2>2, <4>1, <4>2
    <3>4. db' = Reconcile(d)
      BY <3>1, Zenon DEF Sync
    <3> HIDE DEF i
    <3>5. repaired.row[p].id = i.row[p].id
      <4>1. i.row[p] \in JobRow \cup {NoRow}
        BY <2>1, <3>2, RowTyped
      <4>2. \E n : repaired.row[p] = i.row[p] \/ repaired.row[p] = [i.row[p] EXCEPT !.duplicate = n]
        BY <2>1, <3>2 DEF RepairDuplicates, Tables
      <4> HIDE DEF repaired
      <4> QED
        BY <4>1, <4>2 DEF JobRow, NoRow
    <3> HIDE DEF repaired
    <3>6. d \in Tables /\ d.row = repaired.row
      BY <3>1, <3>2 DEF Tables
    <3> HIDE DEF d
    <3> QED
      BY <2>3, <3>3, <3>4, <3>5, <3>6
  <2>8. CASE \/ \E b \in Board : Begin(b)
             \/ Fail
             \/ UNCHANGED vars
    BY <2>8 DEF Begin, Fail, vars
  <2> QED
    BY <1>1, <2>4, <2>5, <2>6, <2>7, <2>8 DEF Next
<1>2. TypeOK /\ [Next]_vars => [\A p \in Stored(db) : db'.row[p].id = db.row[p].id]_vars
  BY <1>1
<1> QED
  BY <1>2, StoreTypeCorrect, PTL DEF Spec, RowsKept

-------------------------------------------------------------------------------
(* Duplicates.                                                             *)

\* What DuplicatesResolved says of the jobs d.
Resolved(d) ==
  \A p \in Active(d) :
    LET row == d.row[p]
        same == Equals(d, p, row.content) \cup {p}
    IN  IF row.content.url = None THEN row.duplicate = 0
        ELSE \E q \in same : /\ \A r \in same : d.row[q].id <= d.row[r].id
                             /\ row.duplicate = IF p = q THEN 0 ELSE d.row[q].id

\* The jobs e differ from d in nothing that duplicates are told by.
Alike(d, e) ==
  \A p \in Posting : /\ e.row[p].id = d.row[p].id /\ e.row[p].active = d.row[p].active
                     /\ e.row[p].content = d.row[p].content

LEMMA AlikeEquals ==
  ASSUME NEW d, NEW e, Alike(d, e)
  PROVE  /\ Active(e) = Active(d)
         /\ \A p \in Posting : \A c : Equals(e, p, c) = Equals(d, p, c)
<1>1. Active(e) = Active(d)
  BY DEF Active, Alike
<1>2. \A q \in Active(d) : e.row[q].content = d.row[q].content
  BY DEF Active, Alike
<1> QED
  BY <1>1, <1>2 DEF Equals

LEMMA ResolvedAlike ==
  ASSUME NEW d, NEW e, Alike(d, e), Resolved(d),
         \A p \in Posting : e.row[p].duplicate = d.row[p].duplicate
  PROVE  Resolved(e)
<1>1. SUFFICES ASSUME NEW p \in Active(e), e.row[p].content.url # None \/ e.row[p].duplicate # 0
               PROVE  LET same == Equals(e, p, e.row[p].content) \cup {p}
                      IN  /\ e.row[p].content.url # None
                          /\ \E q \in same :
                               /\ \A r \in same : e.row[q].id <= e.row[r].id
                               /\ e.row[p].duplicate = IF p = q THEN 0 ELSE e.row[q].id
  BY DEF Resolved
<1>2. p \in Posting /\ p \in Active(d)
  BY AlikeEquals DEF Active
<1>3. /\ e.row[p].content = d.row[p].content /\ e.row[p].duplicate = d.row[p].duplicate
      /\ Equals(e, p, e.row[p].content) = Equals(d, p, d.row[p].content)
  BY <1>2, AlikeEquals DEF Alike
<1> DEFINE same == Equals(d, p, d.row[p].content) \cup {p}
<1>4. same \subseteq Posting
  BY <1>2 DEF Equals, Active
<1>5. d.row[p].content.url # None
  BY <1>1, <1>2, <1>3 DEF Resolved
<1>6. PICK q \in same : /\ \A r \in same : d.row[q].id <= d.row[r].id
                        /\ d.row[p].duplicate = IF p = q THEN 0 ELSE d.row[q].id
  BY <1>2, <1>5 DEF Resolved
<1> HIDE DEF same
<1>7. \A r \in same : e.row[r].id = d.row[r].id
  BY <1>4 DEF Alike
<1>8. \A r \in same : e.row[q].id <= e.row[r].id
  BY <1>6, <1>7
<1>9. e.row[p].duplicate = IF p = q THEN 0 ELSE e.row[q].id
  BY <1>3, <1>6, <1>7
<1> QED
  BY <1>3, <1>5, <1>6, <1>8, <1>9 DEF same

\* The last loop of import_catalog resolves them, whatever the pointers were.
LEMMA RepairResolves ==
  ASSUME NEW d \in Tables
  PROVE  Resolved(RepairDuplicates(d))
<1> DEFINE e == RepairDuplicates(d)
           equals(p) == Equals(d, p, d.row[p].content)
           original(p) == IF d.row[p].content.url = None \/ equals(p) = {} THEN 0
                          ELSE Oldest(d, equals(p))
           pointer(p) == IF original(p) < d.row[p].id THEN original(p) ELSE 0
<1>1. \A p \in Posting : e.row[p] = IF ~d.row[p].active THEN d.row[p]
                                    ELSE [d.row[p] EXCEPT !.duplicate = pointer(p)]
  BY DEF RepairDuplicates, Tables
<1>2. ASSUME NEW p \in Posting
      PROVE  /\ e.row[p].id = d.row[p].id /\ e.row[p].active = d.row[p].active
             /\ e.row[p].content = d.row[p].content
             /\ d.row[p].active => e.row[p].duplicate = pointer(p)
  <2>1. d.row[p] \in JobRow \cup {NoRow} /\ (d.row[p].active => d.row[p] \in JobRow)
    BY RowTyped DEF Active
  <2>2. CASE ~d.row[p].active
    BY <1>1, <2>2
  <2>3. CASE d.row[p].active
    <3>1. e.row[p] = [d.row[p] EXCEPT !.duplicate = pointer(p)]
      BY <1>1, <2>3
    <3> HIDE DEF pointer, e
    <3> QED
      BY <2>1, <2>3, <3>1 DEF JobRow
  <2> QED
    BY <2>2, <2>3
<1>3. Alike(d, e)
  BY <1>2 DEF Alike
<1> HIDE DEF e
<1>4. ASSUME NEW p \in Active(e)
      PROVE  LET same == Equals(e, p, e.row[p].content) \cup {p}
             IN  IF e.row[p].content.url = None THEN e.row[p].duplicate = 0
                 ELSE \E q \in same :
                        /\ \A r \in same : e.row[q].id <= e.row[r].id
                        /\ e.row[p].duplicate = IF p = q THEN 0 ELSE e.row[q].id
  <2>1. p \in Posting /\ p \in Active(d) /\ d.row[p].active
    BY <1>3, AlikeEquals DEF Active
  <2>2. e.row[p].content = d.row[p].content /\ e.row[p].duplicate = pointer(p)
        /\ Equals(e, p, e.row[p].content) = equals(p)
    BY <1>2, <1>3, <2>1, AlikeEquals
  <2>3. d.row[p].id \in Nat \ {0}
    BY <2>1, RowTyped DEF JobRow
  <2>4. equals(p) \subseteq Posting /\ \A q \in equals(p) : d.row[q].id \in Nat /\ q # p
    <3>1. equals(p) \subseteq Posting /\ p \notin equals(p)
      BY DEF Equals, Active
    <3> QED
      BY <3>1, RowTyped
  <2>5. \A q \in equals(p) \cup {p} : e.row[q].id = d.row[q].id
    BY <1>2, <2>1, <2>4
  <2>6. CASE d.row[p].content.url = None
    BY <2>2, <2>3, <2>6
  <2>7. CASE d.row[p].content.url # None /\ equals(p) = {}
    <3>1. pointer(p) = 0
      BY <2>3, <2>7
    <3>2. e.row[p].id <= e.row[p].id
      BY <2>3, <2>5
    <3> QED
      BY <2>2, <2>7, <3>1, <3>2
  <2>8. CASE d.row[p].content.url # None /\ equals(p) # {}
    <3> DEFINE oldest == Oldest(d, equals(p))
    <3> HIDE DEF equals
    <3>1. /\ oldest \in {d.row[q].id : q \in equals(p)}
          /\ \A q \in equals(p) : oldest <= d.row[q].id
      BY <2>4, <2>8, OldestExists
    <3>2. PICK q \in equals(p) : d.row[q].id = oldest
      BY <3>1
    <3>3. oldest \in Nat /\ q # p
      BY <2>4, <3>2
    <3>4. pointer(p) = IF oldest < d.row[p].id THEN oldest ELSE 0
      BY <2>8
    <3> HIDE DEF oldest, pointer
    <3>5. CASE oldest < d.row[p].id
      <4>1. e.row[p].duplicate = e.row[q].id
        BY <2>2, <2>5, <3>2, <3>4, <3>5
      <4>2. \A r \in equals(p) \cup {p} : e.row[q].id <= e.row[r].id
        BY <2>3, <2>5, <3>1, <3>2, <3>3, <3>5
      <4> QED
        BY <2>2, <2>8, <3>2, <3>3, <4>1, <4>2
    <3>6. CASE ~(oldest < d.row[p].id)
      <4>1. e.row[p].duplicate = 0
        BY <2>2, <3>4, <3>6
      <4>2. \A r \in equals(p) \cup {p} : e.row[p].id <= e.row[r].id
        BY <2>3, <2>4, <2>5, <3>1, <3>3, <3>6
      <4> QED
        BY <2>2, <2>8, <4>1, <4>2
    <3> QED
      BY <3>5, <3>6
  <2> QED
    BY <2>6, <2>7, <2>8
<1> QED
  BY <1>4 DEF Resolved, e

\* The repair of what depends on the register leaves pointers as they are.
LEMMA ReconcileResolved ==
  ASSUME NEW d \in Tables, Resolved(d)
  PROVE  Resolved(Reconcile(d))
<1> DEFINE e == Reconcile(d)
<1>1. ASSUME NEW p \in Posting
      PROVE  /\ e.row[p].id = d.row[p].id /\ e.row[p].active = d.row[p].active
             /\ e.row[p].content = d.row[p].content
             /\ e.row[p].duplicate = d.row[p].duplicate
  <2>1. e.row[p] = IF p \in Stored(d) THEN Repaired(d.row[p], d.register) ELSE d.row[p]
    BY DEF Reconcile, Tables
  <2>2. p \in Stored(d) => d.row[p] \in JobRow
    BY RowTyped
  <2> HIDE DEF e
  <2> QED
    BY <2>1, <2>2 DEF Repaired, JobRow
<1> HIDE DEF e
<1>2. Alike(d, e) /\ \A p \in Posting : e.row[p].duplicate = d.row[p].duplicate
  BY <1>1 DEF Alike
<1>3. Resolved(e)
  BY <1>2, ResolvedAlike
<1> QED
  BY <1>3 DEF e

\* A desktop refresh leaves, of the vacancies that are one, the oldest as the
\* original and the others pointing at it, until boards are ingested again.
THEOREM DuplicatesAreResolved == Spec => []DuplicatesResolved
<1>1. DuplicatesResolved <=> ("ingestion" \notin since => Resolved(db))
  BY Zenon DEF DuplicatesResolved, Resolved
<1>2. Init => DuplicatesResolved
  <2>1. Init => Active(db) = {}
    BY DEF Init, Active, NoRow
  <2> QED
    BY <1>1, <2>1 DEF Resolved
<1>3. TypeOK /\ DuplicatesResolved /\ [Next]_vars => DuplicatesResolved'
  <2>1. SUFFICES ASSUME TypeOK, "ingestion" \notin since => Resolved(db), [Next]_vars,
                        "ingestion" \notin since'
                 PROVE  Resolved(db')
    BY <1>1, Zenon DEF DuplicatesResolved, Resolved
  <2>2. db \in Tables
    BY <2>1 DEF TypeOK, Tables, Rows
  <2>3. ASSUME NEW d \in Tables, d.row = db.row, "ingestion" \notin since
        PROVE  Resolved(d)
    BY <2>1, <2>3, ResolvedAlike DEF Alike
  <2>4. ASSUME NEW register \in SUBSET Record, ReplaceRegister(register)
        PROVE  Resolved(db')
    <3> DEFINE d == [db EXCEPT !.register = register]
    <3>1. d \in Tables /\ d.row = db.row
      BY <2>2 DEF Tables
    <3>2. db' = Reconcile(d) /\ since' = since \ {"records"}
      BY <2>4 DEF ReplaceRegister
    <3> HIDE DEF d
    <3> QED
      BY <2>1, <2>3, <3>1, <3>2, ReconcileResolved
  <2>5. ASSUME NEW register \in SUBSET Record, AddRecords(register)
        PROVE  Resolved(db')
    <3>1. db'.row = db.row /\ since' = since \cup {"records"}
      BY <2>2, <2>5 DEF AddRecords, Tables
    <3> QED
      BY <2>1, <3>1, ResolvedAlike DEF Alike
  <2>6. CASE Synchronise
    <3>1. PICK listing \in Listings(Posting), central \in Central,
               authoritative \in SUBSET Board, register \in SUBSET Record :
            Sync(listing, central, authoritative, register)
      BY <2>6 DEF Synchronise
    <3> DEFINE closed == {q \in Posting : BoardOf[q] \in authoritative}
               i == Imported(listing, central, closed)
               repaired == RepairDuplicates(i)
               d == [repaired EXCEPT !.register = register]
    <3>2. db' = Reconcile(d)
      BY <3>1, Zenon DEF Sync
    <3>3. i \in Tables
      BY <2>2, ImportedTyped
    <3> HIDE DEF i
    <3>4. repaired \in Tables /\ Resolved(repaired)
      BY <3>3, RepairDuplicatesTyped, RepairResolves
    <3> HIDE DEF repaired
    <3>5. d \in Tables /\ d.row = repaired.row
      BY <3>4 DEF Tables
    <3> HIDE DEF d
    <3>6. Resolved(d)
      BY <3>4, <3>5, ResolvedAlike DEF Alike
    <3> QED
      BY <3>2, <3>5, <3>6, ReconcileResolved
  <2>7. ~Store
    BY <2>1 DEF Store
  <2>8. CASE (\E b \in Board : Begin(b)) \/ Fail \/ UNCHANGED vars
    BY <2>1, <2>8 DEF Begin, Fail, vars
  <2> QED
    BY <2>1, <2>4, <2>5, <2>6, <2>7, <2>8 DEF Next
<1> QED
  BY <1>2, <1>3, StoreTypeCorrect, PTL DEF Spec
===============================================================================
