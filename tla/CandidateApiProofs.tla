-------------------------- MODULE CandidateApiProofs --------------------------
(***************************************************************************)
(* Proofs about profiles and application tracking, for any requests,       *)
(* contents and bounds: on a database that enforces the foreign keys of    *)
(* the schema, nothing is left of a deleted profile and every change is    *)
(* made at the request of the holder of the profile's token.               *)
(*                                                                         *)
(* And about the shortlist, for any weights, profiles and vacancies: every *)
(* score is a percentage, the sort is an order, and its pages together are *)
(* what qualifies.                                                         *)
(***************************************************************************)
EXTENDS CandidateApi, FiniteSetTheorems, FunctionTheorems, TLAPS

\* What is true of a request under way, if ids are not given twice: the profile
\* it was admitted for is there with its token or gone for good, and so is the
\* row it has read.
Holds(q) ==
  /\ q.id <= last.profile
  /\ profile[q.id] # None => profile[q.id].token = q.token
  /\ q.kind \in {"put", "drop"} /\ q.read # None /\ q.read # Nothing =>
       /\ q.read.row <= last.row
       /\ row[q.read.row] # None => row[q.read.row].candidate = q.id

Owned ==
  /\ \A i \in Taken(profile) : i <= last.profile
  /\ \A k \in Taken(row) : k <= last.row
  /\ \A r \in Request : request[r] # None => Holds(request[r])
  /\ NothingInherited

IInv == StateTyped /\ (dialect = "postgresql" => Owned)

-------------------------------------------------------------------------------
(* Types.                                                                  *)

LEMMA RequestFields ==
  ASSUME NEW kind \in Kinds, NEW q \in Working(kind)
  PROVE  /\ q.kind = kind /\ q.id \in Id /\ q.token \in 1..MaxToken
         /\ q.input \in Inputs(kind)
         /\ kind = "update" => q.read \in Content /\ q.input \in Content
         /\ kind = "put" => q.input \in Body
         /\ kind \in {"put", "drop"} /\ q.read # None /\ q.read # Nothing =>
              q.read.row \in RowId
<1>1. q.kind = kind /\ q.id \in Id /\ q.token \in 1..MaxToken /\ q.input \in Inputs(kind)
  BY DEF Working
<1>2. CASE kind = "update"
  BY <1>1, <1>2 DEF Working, Inputs
<1>3. CASE kind \in {"put", "drop"}
  BY <1>1, <1>3 DEF Working, Inputs
<1> QED
  BY <1>1, <1>2, <1>3

\* A request's own step changes what it has read, another's that it was overlapped.
LEMMA RequestUpdates ==
  ASSUME NEW kind \in Kinds, NEW q \in Working(kind)
  PROVE  /\ \A b \in BOOLEAN :
              LET p == [q EXCEPT !.overlapped = b]
              IN  /\ p \in Working(kind)
                  /\ p.kind = q.kind /\ p.id = q.id /\ p.token = q.token /\ p.read = q.read
         /\ kind \in {"put", "drop"} =>
              \A x \in [row : RowId, columns : [status : Status, note : Note] \cup {None}]
                         \cup {Nothing} :
                LET p == [q EXCEPT !.read = x]
                IN  /\ p \in Working(kind)
                    /\ p.kind = q.kind /\ p.id = q.id /\ p.token = q.token /\ p.read = x
<1>1. ASSUME NEW b \in BOOLEAN
      PROVE  LET p == [q EXCEPT !.overlapped = b]
             IN  /\ p \in Working(kind)
                 /\ p.kind = q.kind /\ p.id = q.id /\ p.token = q.token /\ p.read = q.read
  BY DEF Working
<1>2. ASSUME kind \in {"put", "drop"},
             NEW x \in [row : RowId, columns : [status : Status, note : Note] \cup {None}]
                         \cup {Nothing}
      PROVE  LET p == [q EXCEPT !.read = x]
             IN  /\ p \in Working(kind)
                 /\ p.kind = q.kind /\ p.id = q.id /\ p.token = q.token /\ p.read = x
  BY <1>2 DEF Working
<1> QED
  BY <1>1, <1>2

LEMMA IdTypes == Id \subseteq Nat /\ RowId \subseteq Nat
BY CandidateApiAssumption DEF Id, RowId

\* A sequence gives the id after the one it gave last.
LEMMA SequenceId ==
  ASSUME dialect = "postgresql", NEW table, NEW given
  PROVE  NextId(table, given) = given + 1
BY DEF NextId

LEMMA LookTyped ==
  ASSUME StateTyped, NEW q, q.kind \in {"put", "drop"}
  PROVE  LET x == LookFor(q)
         IN  /\ x \in [row : RowId, columns : [status : Status, note : Note] \cup {None}]
                        \cup {Nothing}
             /\ x # Nothing => x.row \in Taken(row) /\ row[x.row].candidate = q.id
<1> DEFINE found == UNION {RowFor(q.id, job) : job \in About(q.kind, q.input)}
           k == CHOOSE i \in found : TRUE
           columns == IF q.kind = "put"
                      THEN [status |-> row[k].status, note |-> row[k].note] ELSE None
<1>1. \A i \in found : i \in Taken(row) /\ i \in RowId /\ row[i].candidate = q.id /\ row[i] \in Row
  <2>1. \A i \in found : i \in Taken(row) /\ row[i].candidate = q.id
    BY DEF RowFor, RowsOf
  <2>2. \A i \in Taken(row) : i \in RowId /\ row[i] \in Row
    BY DEF Taken, StateTyped
  <2> QED
    BY <2>1, <2>2
<1>2. CASE found = {}
  BY <1>2 DEF LookFor
<1>3. CASE found # {}
  <2>1. k \in found
    BY <1>3
  <2>2. LookFor(q) = [row |-> k, columns |-> columns]
    BY <1>3 DEF LookFor
  <2>3. row[k].status \in Status /\ row[k].note \in Note
    BY <1>1, <2>1 DEF Row
  <2>4. columns \in [status : Status, note : Note] \cup {None}
    BY <2>3
  <2> HIDE DEF k, columns, found
  <2> QED
    BY <1>1, <2>1, <2>2, <2>4
<1> QED
  BY <1>2, <1>3

\* Of a request under way nothing changes but that it was overlapped.
Same(p, q) ==
  /\ p.kind \in Kinds /\ p \in Working(p.kind)
  /\ p.kind = q.kind /\ p.id = q.id /\ p.token = q.token /\ p.read = q.read

Fewer ==
  /\ DOMAIN request' = Request
  /\ \A s \in Request : request'[s] # None => request[s] # None /\ Same(request'[s], request[s])

LEMMA FewerRequests ==
  ASSUME StateTyped, NEW r \in Request, NEW status, NEW result,
         Reply(r, status, result) \/ Commit(r, result) \/ Restart \/ UNCHANGED request
  PROVE  Fewer
<1>1. \A s \in Request : request[s] # None => Same(request[s], request[s])
  BY DEF StateTyped, Same
<1>2. CASE Reply(r, status, result)
  <2>1. DOMAIN request' = Request
    BY <1>2 DEF Reply, StateTyped
  <2>2. DOMAIN request = Request /\ request' = [request EXCEPT ![r] = None]
    BY <1>2 DEF Reply, StateTyped
  <2>3. \A s \in Request : request'[s] = IF s = r THEN None ELSE request[s]
    BY <2>2
  <2> QED
    BY <1>1, <2>1, <2>3, Zenon DEF Fewer
<1>3. CASE Commit(r, result)
  <2>1. DOMAIN request' = Request
    BY <1>3 DEF Commit
  <2>2. \A s \in Request : request'[s] =
          IF s = r \/ request[s] = None THEN None
          ELSE [request[s] EXCEPT !.overlapped = request[s].kind = "put"]
    BY <1>3, Zenon DEF Commit
  <2>3. ASSUME NEW s \in Request, request'[s] # None
        PROVE  request[s] # None /\ Same(request'[s], request[s])
    <3>1. request[s] # None
          /\ request'[s] = [request[s] EXCEPT !.overlapped = request[s].kind = "put"]
      BY <2>2, <2>3
    <3>2. request[s].kind \in Kinds /\ request[s] \in Working(request[s].kind)
      BY <3>1 DEF StateTyped
    <3>3. PICK b \in BOOLEAN : b = (request[s].kind = "put")
      OBVIOUS
    <3>4. request'[s] = [request[s] EXCEPT !.overlapped = b]
      BY <3>1, <3>3, Zenon
    <3> DEFINE p == [request[s] EXCEPT !.overlapped = b]
    <3>5. /\ p \in Working(request[s].kind)
          /\ p.kind = request[s].kind /\ p.id = request[s].id
          /\ p.token = request[s].token /\ p.read = request[s].read
      BY <3>2, RequestUpdates
    <3>6. p \in Working(p.kind) /\ p.kind \in Kinds
      BY <3>2, <3>5, Zenon
    <3> QED
      BY <3>1, <3>4, <3>5, <3>6, Zenon DEF Same
  <2> QED
    BY <2>1, <2>3 DEF Fewer
<1>4. CASE Restart \/ UNCHANGED request
  <2>1. CASE UNCHANGED request
    BY <1>1, <2>1 DEF Fewer, StateTyped
  <2>2. CASE Restart
    BY <2>2 DEF Fewer, Restart
  <2> QED
    BY <1>4, <2>1, <2>2
<1> QED
  BY <1>2, <1>3, <1>4

LEMMA FewerTyped ==
  ASSUME Fewer
  PROVE  /\ DOMAIN request' = Request
         /\ \A s \in Request : request'[s] # None =>
              request'[s].kind \in Kinds /\ request'[s] \in Working(request'[s].kind)
BY DEF Fewer, Same

\* What a request may rely on survives a step that neither reuses an id nor
\* gives what has one to another.
LEMMA HoldsOn ==
  ASSUME StateTyped, Owned, Fewer,
         last'.profile >= last.profile, last'.row >= last.row,
         last'.profile \in Nat, last'.row \in Nat,
         \A i \in Id : i <= last.profile /\ profile'[i] # None =>
           profile[i] # None /\ profile'[i].token = profile[i].token,
         \A k \in RowId : k <= last.row /\ row'[k] # None =>
           row[k] # None /\ row'[k].candidate = row[k].candidate
  PROVE  \A s \in Request : request'[s] # None => Holds(request[s])'
<1> SUFFICES ASSUME NEW s \in Request, request'[s] # None
             PROVE  Holds(request[s])'
  OBVIOUS
<1> DEFINE q == request[s]
           p == request'[s]
<1>1. q # None /\ Same(p, q) /\ Holds(q)
  BY DEF Fewer, Owned
<1>2. q.kind \in Kinds /\ q \in Working(q.kind)
  BY <1>1 DEF StateTyped
<1> HIDE DEF p, q
<1>3. q.id \in Id /\ q.id \in Nat /\ last.profile \in Nat /\ last.row \in Nat
      /\ (q.kind \in {"put", "drop"} /\ q.read # None /\ q.read # Nothing =>
            q.read.row \in RowId /\ q.read.row \in Nat)
  <2>1. last.profile \in Nat /\ last.row \in Nat
    BY CandidateApiAssumption DEF StateTyped
  <2>2. q.id \in Id /\ (q.kind \in {"put", "drop"} /\ q.read # None /\ q.read # Nothing =>
                            q.read.row \in RowId)
    BY <1>2, RequestFields
  <2> QED
    BY <2>1, <2>2, IdTypes
<1>4. /\ p.id <= last'.profile
      /\ profile'[p.id] # None => profile'[p.id].token = p.token
      /\ p.kind \in {"put", "drop"} /\ p.read # None /\ p.read # Nothing =>
           /\ p.read.row <= last'.row
           /\ row'[p.read.row] # None => row'[p.read.row].candidate = p.id
  BY <1>1, <1>3 DEF Same, Holds
<1> QED
  BY <1>4 DEF Holds, Nothing, p

-------------------------------------------------------------------------------
(* Steps.                                                                  *)

\* What a step that commits must do to the tables to keep the invariant.
Keeps ==
  /\ last'.profile >= last.profile /\ last'.row >= last.row
  /\ \A i \in Id : i <= last.profile /\ profile'[i] # None =>
       profile[i] # None /\ profile'[i].token = profile[i].token
  /\ \A k \in RowId : k <= last.row /\ row'[k] # None =>
       row[k] # None /\ row'[k].candidate = row[k].candidate
  /\ \A i \in Id : profile'[i] # None => i <= last'.profile
  /\ \A k \in RowId : row'[k] # None =>
       /\ k <= last'.row
       /\ profile'[row'[k].candidate] # None
       /\ profile'[row'[k].candidate].token = row'[k].by

Tabled ==
  /\ profile' \in [Id -> Account \cup {None}]
  /\ row' \in [RowId -> Row \cup {None}]
  /\ last' \in [profile : 0..MaxId, row : 0..MaxRow]

LEMMA OwnedFacts ==
  ASSUME StateTyped, Owned
  PROVE  /\ \A i \in Id : profile[i] # None => i <= last.profile
         /\ \A k \in RowId : row[k] # None =>
              /\ k <= last.row /\ row[k].candidate \in Id
              /\ profile[row[k].candidate] # None
              /\ profile[row[k].candidate].token = row[k].by
<1>1. \A i \in Id : profile[i] # None => i <= last.profile
  BY DEF StateTyped, Owned, Taken
<1>2. \A k \in RowId : row[k] # None => row[k] \in Row /\ k \in Taken(row)
  BY DEF StateTyped, Taken
<1>3. \A k \in RowId : row[k] # None => row[k].candidate \in Id
  BY <1>2 DEF Row
<1>4. \A k \in Taken(row) :
        k <= last.row /\ profile[row[k].candidate] # None
          /\ profile[row[k].candidate].token = row[k].by
  BY DEF Owned, NothingInherited
<1> QED
  BY <1>1, <1>2, <1>3, <1>4

LEMMA LastTyped ==
  ASSUME NEW x \in [profile : 0..MaxId, row : 0..MaxRow]
  PROVE  x.profile \in Nat /\ x.row \in Nat
BY CandidateApiAssumption

LEMMA WriteInv ==
  ASSUME IInv, Fewer, Tabled, UNCHANGED dialect, catalog' \in Catalog,
         tokens' \in 0..MaxToken, dialect = "postgresql" => Keeps
  PROVE  IInv'
<1>1. StateTyped'
  BY FewerTyped DEF IInv, StateTyped, Tabled
<1>2. ASSUME dialect = "postgresql"
      PROVE  Owned'
  <2>1. StateTyped /\ Owned /\ Keeps
    BY <1>2 DEF IInv
  <2>2. last'.profile \in Nat /\ last'.row \in Nat
    BY LastTyped DEF Tabled
  <2>3. \A s \in Request : request'[s] # None => Holds(request[s])'
    BY <2>1, <2>2, HoldsOn DEF Keeps
  <2>4. (\A i \in Taken(profile) : i <= last.profile)'
    BY <2>1 DEF Keeps, Tabled, Taken
  <2>5. (\A k \in Taken(row) : k <= last.row)'
    BY <2>1 DEF Keeps, Tabled, Taken
  <2>6. NothingInherited'
    BY <2>1 DEF Keeps, Tabled, Taken, NothingInherited
  <2> QED
    BY <2>3, <2>4, <2>5, <2>6 DEF Owned
<1> QED
  BY <1>1, <1>2 DEF IInv

\* Steps that leave the tables alone.
LEMMA QuietInv ==
  ASSUME IInv, Fewer, UNCHANGED <<dialect, profile, row, last, tokens>>, catalog' \in Catalog
  PROVE  IInv'
<1>1. Tabled /\ tokens' \in 0..MaxToken /\ StateTyped
  BY DEF IInv, StateTyped, Tabled
<1>2. ASSUME dialect = "postgresql"
      PROVE  Keeps
  <2>1. last.profile \in Nat /\ last.row \in Nat
    BY <1>1, LastTyped DEF StateTyped
  <2> QED
    BY <1>1, <1>2, <2>1, OwnedFacts DEF IInv, Keeps
<1> QED
  BY <1>1, <1>2, WriteInv

\* One more request, or one that has read, changes nothing but itself.
LEMMA RequestInv ==
  ASSUME IInv, UNCHANGED <<dialect, profile, row, last, catalog, tokens>>,
         NEW r \in Request, NEW q, q.kind \in Kinds, q \in Working(q.kind),
         dialect = "postgresql" => Holds(q),
         request' = [request EXCEPT ![r] = q]
  PROVE  IInv'
<1>1. StateTyped /\ DOMAIN request = Request
  BY DEF IInv, StateTyped
<1>2. \A s \in Request : request'[s] = IF s = r THEN q ELSE request[s]
  BY <1>1
<1>3. DOMAIN request' = Request
  BY <1>1
<1>4. \A s \in Request : request'[s] # None =>
        request'[s].kind \in Kinds /\ request'[s] \in Working(request'[s].kind)
  BY <1>1, <1>2 DEF StateTyped
<1>5. StateTyped'
  BY <1>1, <1>3, <1>4 DEF StateTyped
<1>6. ASSUME dialect = "postgresql"
      PROVE  Owned'
  <2>1. Owned /\ Holds(q)
    BY <1>6 DEF IInv
  <2>2. \A s \in Request : request'[s] # None => Holds(request'[s])
    BY <1>2, <2>1 DEF Owned
  <2>3. \A s \in Request : (request[s] # None => Holds(request[s]))'
    BY <2>2 DEF Holds, Nothing
  <2> QED
    BY <2>1, <2>3 DEF Owned, NothingInherited, Taken
<1> QED
  BY <1>5, <1>6 DEF IInv

LEMMA RequestTyped ==
  ASSUME StateTyped, NEW r \in Request, request[r] # None
  PROVE  request[r].kind \in Kinds /\ request[r] \in Working(request[r].kind)
BY DEF StateTyped

LEMMA ArriveInv ==
  ASSUME IInv, NEW r \in Request, NEW kind \in Kinds, NEW id \in Id, NEW token \in 1..tokens,
         NEW input \in Inputs(kind), Arrive(r, kind, id, token, input)
  PROVE  IInv'
<1> DEFINE q == [kind |-> kind, id |-> id, token |-> token, input |-> input,
                 read |-> IF kind \in {"update", "export", "recommend"}
                          THEN profile[id].content ELSE None,
                 overlapped |-> FALSE]
<1>1. StateTyped
  BY DEF IInv
<1>2. profile[id] # None /\ profile[id].token = token /\ profile[id].content \in Content
  BY <1>1 DEF Arrive, Admitted, StateTyped, Account
<1>3. token \in 1..MaxToken
  BY <1>1, CandidateApiAssumption DEF StateTyped
<1>4. q \in Working(kind)
  <2>1. CASE kind \in {"update", "export", "recommend"}
    BY <1>2, <1>3, <2>1 DEF Working
  <2>2. CASE kind \notin {"update", "export", "recommend"}
    BY <1>2, <1>3, <2>2 DEF Working
  <2> QED
    BY <2>1, <2>2
<1>5. q.kind = kind /\ q.id = id /\ q.token = token
      /\ (kind \in {"put", "drop"} => q.read = None)
  OBVIOUS
<1>6. request' = [request EXCEPT ![r] = q]
      /\ UNCHANGED <<dialect, profile, row, last, catalog, tokens>>
  BY DEF Arrive
<1> HIDE DEF q
<1>7. ASSUME dialect = "postgresql"
      PROVE  Holds(q)
  <2>1. id <= last.profile
    BY <1>1, <1>2, <1>7, OwnedFacts DEF IInv
  <2> QED
    BY <1>2, <1>5, <2>1 DEF Holds
<1> QED
  BY <1>4, <1>5, <1>6, <1>7, RequestInv

LEMMA LookInv ==
  ASSUME IInv, NEW r \in Request, Look(r)
  PROVE  IInv'
<1> DEFINE q == request[r]
           x == LookFor(q)
           p == [q EXCEPT !.read = x]
<1>1. StateTyped /\ q # None /\ q.kind \in {"put", "drop"}
  BY DEF IInv, Look
<1>2. q.kind \in Kinds /\ q \in Working(q.kind)
  BY <1>1, RequestTyped
<1>3. request' = [request EXCEPT ![r] = p]
      /\ UNCHANGED <<dialect, profile, row, last, catalog, tokens>>
  BY DEF Look
<1>4. /\ x \in [row : RowId, columns : [status : Status, note : Note] \cup {None}] \cup {Nothing}
      /\ x # Nothing => x.row \in Taken(row) /\ row[x.row].candidate = q.id
  BY <1>1, LookTyped
<1> HIDE DEF x, q
<1>5. p \in Working(q.kind) /\ p.kind = q.kind /\ p.id = q.id /\ p.token = q.token /\ p.read = x
  BY <1>1, <1>2, <1>4, RequestUpdates
<1> HIDE DEF p
<1>6. ASSUME dialect = "postgresql"
      PROVE  Holds(p)
  <2>1. Holds(q) /\ \A k \in Taken(row) : k <= last.row
    BY <1>1, <1>6 DEF IInv, Owned, q
  <2> QED
    BY <1>4, <1>5, <2>1 DEF Holds
<1>7. p.kind \in Kinds /\ p \in Working(p.kind)
  BY <1>2, <1>5
<1> QED
  BY <1>3, <1>6, <1>7, RequestInv

LEMMA CreateInv ==
  ASSUME IInv, NEW r \in Request, NEW content \in Content, Create(r, content)
  PROVE  IInv'
<1> DEFINE id == NextId(profile, last.profile)
           account == [token |-> tokens + 1, content |-> content]
<1>1. StateTyped /\ id \in Id /\ tokens < MaxToken /\ tokens' = tokens + 1
      /\ UNCHANGED <<dialect, row, catalog>>
      /\ last' = [last EXCEPT !.profile = IF dialect = "postgresql" THEN id ELSE @]
      /\ profile' = [profile EXCEPT ![id] = account]
  BY DEF IInv, Create
<1>2. tokens \in Nat /\ tokens + 1 \in 1..MaxToken /\ tokens' \in 0..MaxToken
  BY <1>1, CandidateApiAssumption DEF StateTyped
<1>3. account \in Account
  BY <1>2 DEF Account
<1>4. dialect = "postgresql" => id = last.profile + 1
  BY SequenceId
<1> HIDE DEF id, account
<1>5. last \in [profile : 0..MaxId, row : 0..MaxRow] /\ last.profile \in Nat /\ last.row \in Nat
  BY <1>1, LastTyped DEF StateTyped
<1>6. last' \in [profile : 0..MaxId, row : 0..MaxRow] /\ last'.row = last.row
      /\ (dialect = "postgresql" => last'.profile = id)
  BY <1>1, <1>5, CandidateApiAssumption DEF Id
<1>7. Tabled
  BY <1>1, <1>3, <1>6 DEF StateTyped, Tabled
<1>8. Fewer
  BY <1>1, FewerRequests DEF Create
<1>9. ASSUME dialect = "postgresql"
      PROVE  Keeps
  <2>1. \A i \in Id : profile'[i] = IF i = id THEN account ELSE profile[i]
    BY <1>1 DEF StateTyped
  <2>2. /\ \A i \in Id : profile[i] # None => i <= last.profile /\ i \in Nat
        /\ \A k \in RowId : row[k] # None =>
              /\ k <= last.row /\ row[k].candidate \in Id
              /\ profile[row[k].candidate] # None
              /\ profile[row[k].candidate].token = row[k].by
    BY <1>1, <1>9, OwnedFacts, IdTypes DEF IInv
  <2> QED
    BY <1>1, <1>4, <1>5, <1>6, <1>9, <2>1, <2>2 DEF Keeps
<1> QED
  BY <1>1, <1>2, <1>7, <1>8, <1>9, WriteInv DEF StateTyped

LEMMA UpdateInv ==
  ASSUME IInv, NEW r \in Request, Update(r)
  PROVE  IInv'
<1> DEFINE q == request[r]
<1>1. StateTyped /\ q # None /\ q.kind = "update"
      /\ UNCHANGED <<dialect, row, last, catalog, tokens>>
  BY DEF IInv, Update
<1>2. q.id \in Id /\ q.read \in Content /\ q.input \in Content
  BY <1>1, RequestTyped, RequestFields
<1>3. Fewer
  BY <1>1, FewerRequests DEF Update
<1>4. CASE profile[q.id] = None
  BY <1>1, <1>3, <1>4, QuietInv DEF Update, StateTyped
<1>5. CASE profile[q.id] # None
  <2> DEFINE content == Written(q.read, q.input, profile[q.id].content)
  <2>1. profile[q.id] \in Account
    BY <1>1, <1>2, <1>5 DEF StateTyped
  <2>2. content \in Content
    BY <1>2, <2>1 DEF Written, Account
  <2>3. profile' = [profile EXCEPT ![q.id].content = content]
    BY <1>5 DEF Update
  <2> HIDE DEF content, q
  <2>4. \A i \in Id : profile'[i] = IF i = q.id THEN [profile[i] EXCEPT !.content = content]
                                               ELSE profile[i]
    BY <1>1, <2>3 DEF StateTyped
  <2>5. [profile[q.id] EXCEPT !.content = content] \in Account
        /\ [profile[q.id] EXCEPT !.content = content].token = profile[q.id].token
    BY <2>1, <2>2 DEF Account
  <2>6. profile' \in [Id -> Account \cup {None}]
    BY <1>1, <1>2, <2>3, <2>4, <2>5 DEF StateTyped
  <2>7. Tabled
    BY <1>1, <2>6 DEF StateTyped, Tabled
  <2>8. ASSUME dialect = "postgresql"
        PROVE  Keeps
    <3>1. \A i \in Id : (profile'[i] # None <=> profile[i] # None)
                        /\ profile'[i].token = profile[i].token
      BY <1>5, <2>4, <2>5, NoneAssumption
    <3>2. last.profile \in Nat /\ last.row \in Nat
      BY <1>1, LastTyped DEF StateTyped
    <3> QED
      BY <1>1, <2>8, <3>1, <3>2, OwnedFacts DEF IInv, Keeps
  <2> QED
    BY <1>1, <1>3, <2>7, <2>8, WriteInv DEF StateTyped
<1> QED
  BY <1>4, <1>5

LEMMA DeleteInv ==
  ASSUME IInv, NEW r \in Request, Delete(r)
  PROVE  IInv'
<1> DEFINE q == request[r]
<1>1. StateTyped /\ q # None /\ q.kind = "delete"
      /\ UNCHANGED <<dialect, last, catalog, tokens>>
      /\ profile' = [profile EXCEPT ![q.id] = None] /\ row' = Cascade(q.id)
  BY DEF IInv, Delete
<1>2. q.id \in Id
  BY <1>1, RequestTyped, RequestFields
<1>3. Fewer
  BY <1>1, FewerRequests DEF Delete
<1>4. Tabled
  BY <1>1, <1>2 DEF StateTyped, Tabled, Cascade
<1>5. ASSUME dialect = "postgresql"
      PROVE  Keeps
  <2>1. \A i \in Id : profile'[i] = IF i = q.id THEN None ELSE profile[i]
    BY <1>1 DEF StateTyped
  <2>2. \A k \in RowId : row'[k] = IF row[k] # None /\ row[k].candidate = q.id
                                   THEN None ELSE row[k]
    BY <1>1, <1>5 DEF Cascade
  <2>3. last.profile \in Nat /\ last.row \in Nat
    BY <1>1, LastTyped DEF StateTyped
  <2> QED
    BY <1>1, <1>5, <2>1, <2>2, <2>3, OwnedFacts DEF IInv, Keeps
<1> QED
  BY <1>1, <1>3, <1>4, <1>5, WriteInv DEF StateTyped

LEMMA InsertInv ==
  ASSUME IInv, NEW r \in Request, Insert(r)
  PROVE  IInv'
<1> DEFINE q == request[r]
           id == NextId(row, last.row)
           conflict == RowFor(q.id, q.input.job) # {}
           orphan == dialect = "postgresql" /\ profile[q.id] = None
           new == [candidate |-> q.id, job |-> q.input.job, status |-> q.input.status,
                   note |-> q.input.note, by |-> q.token]
<1>1. StateTyped /\ q # None /\ q.kind = "put" /\ id \in RowId
      /\ UNCHANGED <<dialect, profile, catalog, tokens>>
      /\ last' = [last EXCEPT !.row = IF dialect = "postgresql" THEN id ELSE @]
  BY DEF IInv, Insert
<1>2. q.id \in Id /\ q.token \in 1..MaxToken /\ q.input \in Body
  BY <1>1, RequestTyped, RequestFields
<1>3. new \in Row
  BY <1>2 DEF Row, Body
<1>4. dialect = "postgresql" => id = last.row + 1
  BY SequenceId
<1>5. last \in [profile : 0..MaxId, row : 0..MaxRow] /\ last.profile \in Nat /\ last.row \in Nat
  BY <1>1, LastTyped DEF StateTyped
<1>6. Fewer
  BY <1>1, FewerRequests DEF Insert
<1>7. \/ row' = row
      \/ row' = [row EXCEPT ![id] = new] /\ ~orphan
  BY DEF Insert
<1>8. new.candidate = q.id /\ new.by = q.token
  OBVIOUS
<1> HIDE DEF id, new, conflict
<1>9. last' \in [profile : 0..MaxId, row : 0..MaxRow] /\ last'.profile = last.profile
      /\ (dialect = "postgresql" => last'.row = id)
  BY <1>1, <1>5, CandidateApiAssumption DEF RowId
<1>10. Tabled
  BY <1>1, <1>3, <1>7, <1>9 DEF StateTyped, Tabled
<1>11. ASSUME dialect = "postgresql"
      PROVE  Keeps
  <2>1. /\ \A i \in Id : profile[i] # None => i <= last.profile
        /\ \A k \in RowId : row[k] # None =>
              /\ k <= last.row /\ k \in Nat
              /\ profile[row[k].candidate] # None
              /\ profile[row[k].candidate].token = row[k].by
    BY <1>1, <1>11, OwnedFacts, IdTypes DEF IInv
  <2>2. profile[q.id] # None => profile[q.id].token = q.token
    BY <1>1, <1>11 DEF IInv, Owned, Holds
  <2>3. CASE row' = row
    BY <1>1, <1>4, <1>5, <1>9, <1>11, <2>1, <2>3 DEF Keeps
  <2>4. CASE row' = [row EXCEPT ![id] = new] /\ ~orphan
    <3>1. \A k \in RowId : row'[k] = IF k = id THEN new ELSE row[k]
      BY <1>1, <2>4 DEF StateTyped
    <3>2. profile[q.id] # None /\ profile[q.id].token = q.token
      BY <1>11, <2>2, <2>4
    <3> HIDE DEF q, orphan
    <3> QED
      BY <1>1, <1>4, <1>5, <1>8, <1>9, <1>11, <2>1, <3>1, <3>2 DEF Keeps
  <2> QED
    BY <1>7, <2>3, <2>4
<1> QED
  BY <1>1, <1>6, <1>10, <1>11, WriteInv DEF StateTyped

LEMMA ReplaceInv ==
  ASSUME IInv, NEW r \in Request, Replace(r)
  PROVE  IInv'
<1> DEFINE q == request[r]
           k == q.read.row
           status == Written(q.read.columns.status, q.input.status, row[k].status)
           note == Written(q.read.columns.note, q.input.note, row[k].note)
           new == [row[k] EXCEPT !.status = status, !.note = note]
<1>1. StateTyped /\ q # None /\ q.kind = "put" /\ q.read # None /\ q.read # Nothing
      /\ UNCHANGED <<dialect, profile, last, catalog, tokens>>
  BY DEF IInv, Replace
<1>2. k \in RowId /\ q.input \in Body
  BY <1>1, RequestTyped, RequestFields
<1>3. Fewer
  BY <1>1, FewerRequests DEF Replace
<1>4. CASE row[k] = None
  BY <1>1, <1>3, <1>4, QuietInv DEF Replace, StateTyped
<1>5. CASE row[k] # None
  <2>1. row[k] \in Row
    BY <1>1, <1>2, <1>5 DEF StateTyped
  <2>2. status \in Status /\ note \in Note
    BY <1>2, <2>1 DEF Written, Row, Body
  <2>3. row' = [row EXCEPT ![k] = new]
    BY <1>5 DEF Replace
  <2> HIDE DEF status, note, k
  <2>4. new \in Row /\ new.candidate = row[k].candidate /\ new.by = row[k].by
    BY <2>1, <2>2 DEF Row
  <2> HIDE DEF new, q
  <2>5. Tabled
    BY <1>1, <2>3, <2>4 DEF StateTyped, Tabled
  <2>6. \A i \in RowId : row'[i] = IF i = k THEN new ELSE row[i]
    BY <1>1, <2>3 DEF StateTyped
  <2>7. ASSUME dialect = "postgresql"
        PROVE  Keeps
    <3>1. last.profile \in Nat /\ last.row \in Nat
      BY <1>1, LastTyped DEF StateTyped
    <3> QED
      BY <1>1, <1>5, <2>4, <2>6, <2>7, <3>1, OwnedFacts DEF IInv, Keeps
  <2> QED
    BY <1>1, <1>3, <2>5, <2>7, WriteInv DEF StateTyped
<1> QED
  BY <1>4, <1>5

LEMMA DropInv ==
  ASSUME IInv, NEW r \in Request, Drop(r)
  PROVE  IInv'
<1> DEFINE q == request[r]
<1>1. StateTyped /\ q # None /\ q.kind = "drop" /\ q.read # None
      /\ UNCHANGED <<dialect, profile, last, catalog, tokens>>
  BY DEF IInv, Drop
<1>2. Fewer
  BY <1>1, FewerRequests DEF Drop
<1>3. CASE q.read = Nothing
  BY <1>1, <1>2, <1>3, QuietInv DEF Drop, StateTyped
<1>4. CASE q.read # Nothing
  <2>1. row' = [row EXCEPT ![q.read.row] = None]
    BY <1>4 DEF Drop
  <2>2. Tabled
    BY <1>1, <2>1 DEF StateTyped, Tabled
  <2>3. \A i \in RowId : row'[i] = row[i] \/ row'[i] = None
    BY <1>1, <2>1 DEF StateTyped
  <2>4. ASSUME dialect = "postgresql"
        PROVE  Keeps
    <3>1. last.profile \in Nat /\ last.row \in Nat
      BY <1>1, LastTyped DEF StateTyped
    <3> QED
      BY <1>1, <2>3, <2>4, <3>1, OwnedFacts DEF IInv, Keeps
  <2> QED
    BY <1>1, <1>2, <2>2, <2>4, WriteInv DEF StateTyped
<1> QED
  BY <1>3, <1>4

LEMMA InitInv == Init => IInv
<1> SUFFICES ASSUME Init PROVE IInv
  OBVIOUS
<1>1. StateTyped
  BY CandidateApiAssumption DEF Init, StateTyped
<1>2. Owned
  BY DEF Init, Owned, Taken, NothingInherited
<1> QED
  BY <1>1, <1>2 DEF IInv

LEMMA StepInv == IInv /\ [Next]_vars => IInv'
<1> SUFFICES ASSUME IInv, [Next]_vars PROVE IInv'
  OBVIOUS
<1>1. StateTyped
  BY DEF IInv
<1>2. ASSUME NEW r \in Request, Handle(r)
      PROVE  IInv'
  <2>1. ASSUME NEW kind \in Kinds, NEW id \in Id, NEW token \in 1..tokens,
               NEW input \in Inputs(kind), Arrive(r, kind, id, token, input)
        PROVE  IInv'
    BY <2>1, ArriveInv
  <2>2. CASE Refuse(r) \/ Busy(r) \/ Export(r) \/ Recommend(r)
    <3>1. Fewer
      BY <1>1, <2>2, FewerRequests, Zenon DEF Refuse, Busy, Export, Recommend
    <3>2. UNCHANGED <<dialect, profile, row, last, catalog, tokens>>
      BY <2>2, Zenon DEF Refuse, Busy, Export, Recommend
    <3> QED
      BY <1>1, <3>1, <3>2, QuietInv DEF StateTyped
  <2>3. ASSUME NEW content \in Content, Create(r, content)
        PROVE  IInv'
    BY <2>3, CreateInv
  <2> QED
    BY <1>2, <2>1, <2>2, <2>3, UpdateInv, DeleteInv, LookInv, InsertInv, ReplaceInv, DropInv
       DEF Handle
<1>3. CASE Import
  <2>1. UNCHANGED <<dialect, profile, row, last, tokens, request>> /\ catalog' \in Catalog
    BY <1>3 DEF Import
  <2>2. Fewer
    BY <1>1, <2>1 DEF Fewer, Same, StateTyped
  <2> QED
    BY <2>1, <2>2, QuietInv
<1>4. CASE Restart
  <2>1. Fewer
    BY <1>4 DEF Restart, Fewer
  <2> QED
    BY <1>1, <1>4, <2>1, QuietInv DEF Restart, StateTyped
<1>5. CASE UNCHANGED vars
  <2>1. UNCHANGED <<dialect, profile, row, last, tokens, request, catalog>>
    BY <1>5 DEF vars
  <2>2. Fewer
    BY <1>1, <2>1 DEF Fewer, Same, StateTyped
  <2> QED
    BY <1>1, <2>1, <2>2, QuietInv DEF StateTyped
<1> QED
  BY <1>2, <1>3, <1>4, <1>5 DEF Next

-------------------------------------------------------------------------------

\* The tables and the requests under way keep their types, on both databases.
THEOREM TablesTyped == Spec => []StateTyped
<1>1. IInv => StateTyped
  BY DEF IInv
<1> QED
  BY <1>1, InitInv, StepInv, PTL DEF Spec

\* Erasure: where foreign keys are enforced, no application state outlives the
\* profile that stored it, and none is another's, however requests overlap.
THEOREM Erased == Spec => []ErasureComplete
<1>1. IInv => ErasureComplete
  BY DEF IInv, Owned, ErasureComplete
<1> QED
  BY <1>1, InitInv, StepInv, PTL DEF Spec

\* Every change of a profile or of what is tracked for it is made by a request
\* that carries the token of that profile.
Acts ==
  /\ \A i \in Taken(profile) : profile'[i] # profile[i] =>
       request[sent'.from].token = profile[i].token
  /\ \A k \in RowId : row'[k] # row[k] =>
       \A state \in {row[k], row'[k]} \ {None} :
         request[sent'.from].token = profile[state.candidate].token

LEMMA WriterActs ==
  ASSUME IInv, dialect = "postgresql", NEW r \in Request, Handle(r)
  PROVE  Acts
<1> DEFINE q == request[r]
<1>1. StateTyped /\ Owned
  BY DEF IInv
<1>2. q # None => /\ q.id \in Id /\ q.kind \in Kinds
                  /\ profile[q.id] # None => profile[q.id].token = q.token
  BY <1>1, RequestTyped, RequestFields DEF Owned, Holds
<1>3. /\ \A i \in Id : profile[i] # None => i <= last.profile /\ i \in Nat
      /\ \A k \in RowId : row[k] # None =>
            /\ k <= last.row /\ k \in Nat /\ row[k].candidate \in Id
            /\ profile[row[k].candidate] # None
  BY <1>1, OwnedFacts, IdTypes
<1>4. last.profile \in Nat /\ last.row \in Nat
  BY <1>1, LastTyped DEF StateTyped
<1>5. Taken(profile) \subseteq Id /\ \A i \in Taken(profile) : profile[i] # None
  BY <1>1 DEF Taken, StateTyped
<1>6. CASE UNCHANGED <<profile, row>>
  BY <1>6 DEF Acts
<1>7. ASSUME NEW content \in Content, Create(r, content)
      PROVE  Acts
  <2>1. NextId(profile, last.profile) = last.profile + 1 /\ row' = row
    BY <1>7, SequenceId DEF Create
  <2>2. \A i \in Id : i # last.profile + 1 => profile'[i] = profile[i]
    BY <1>1, <1>7, <2>1 DEF Create, StateTyped
  <2> QED
    BY <1>3, <1>4, <1>5, <2>1, <2>2 DEF Acts
<1>8. CASE Update(r)
  <2>1. CASE profile[q.id] = None
    BY <1>6, <1>8, <2>1 DEF Update
  <2>2. CASE profile[q.id] # None
    <3>1. sent'.from = r /\ row' = row /\ q # None
      BY <1>8, <2>2 DEF Update, Commit, Response
    <3>2. \A i \in Id : i # q.id => profile'[i] = profile[i]
      BY <1>1, <1>8, <2>2 DEF Update, StateTyped
    <3> QED
      BY <1>2, <1>5, <2>2, <3>1, <3>2 DEF Acts
  <2> QED
    BY <2>1, <2>2
<1>9. CASE Delete(r)
  <2>1. sent'.from = r /\ q # None
    BY <1>9 DEF Delete, Commit, Response
  <2>2. \A i \in Id : i # q.id => profile'[i] = profile[i]
    BY <1>1, <1>9 DEF Delete, StateTyped
  <2>3. \A k \in RowId : row'[k] = IF row[k] # None /\ row[k].candidate = q.id
                                   THEN None ELSE row[k]
    BY <1>9 DEF Delete, Cascade
  <2> HIDE DEF q
  <2> QED
    BY <1>2, <1>3, <1>5, <2>1, <2>2, <2>3 DEF Acts, q
<1>10. CASE Insert(r)
  <2> DEFINE id == NextId(row, last.row)
             new == [candidate |-> q.id, job |-> q.input.job, status |-> q.input.status,
                     note |-> q.input.note, by |-> q.token]
  <2>1. id = last.row + 1 /\ profile' = profile /\ q # None /\ id \in RowId
    BY <1>10, SequenceId DEF Insert
  <2>2. CASE row' = row
    BY <1>6, <2>1, <2>2
  <2>3. CASE row' # row
    <3>1. row' = [row EXCEPT ![id] = new] /\ sent'.from = r /\ profile[q.id] # None
      BY <1>10, <2>3 DEF Insert, Commit, Response
    <3>2. new.candidate = q.id
      OBVIOUS
    <3> HIDE DEF id, new
    <3>3. \A k \in RowId : row'[k] = IF k = id THEN new ELSE row[k]
      BY <1>1, <3>1 DEF StateTyped
    <3>4. row[id] = None
      BY <1>3, <1>4, <2>1
    <3> QED
      BY <1>2, <2>1, <3>1, <3>2, <3>3, <3>4 DEF Acts
  <2> QED
    BY <2>2, <2>3
<1>11. ASSUME Replace(r) \/ Drop(r), row' # row
       PROVE  Acts
  <2> DEFINE k == q.read.row
  <2>1. /\ profile' = profile /\ q # None /\ q.kind \in {"put", "drop"}
        /\ q.read # None /\ q.read # Nothing /\ sent'.from = r
    <3>1. CASE Replace(r)
      BY <1>11, <3>1 DEF Replace, Commit, Response
    <3>2. CASE Drop(r)
      BY <1>11, <3>2 DEF Drop, Commit, Response
    <3> QED
      BY <1>11, <3>1, <3>2
  <2>2. k \in RowId /\ \A i \in RowId : i # k => row'[i] = row[i]
    <3>1. k \in RowId
      BY <1>1, <2>1, RequestTyped, RequestFields
    <3>2. CASE Replace(r)
      BY <1>1, <1>11, <3>2 DEF Replace, StateTyped
    <3>3. CASE Drop(r)
      BY <1>1, <1>11, <3>3 DEF Drop, StateTyped
    <3> QED
      BY <1>11, <3>1, <3>2, <3>3
  <2>3. row[k] # None => row[k].candidate = q.id
    BY <1>1, <2>1 DEF Owned, Holds
  <2>4. row[k] # None /\ (row'[k] = None \/ row'[k].candidate = row[k].candidate)
    <3>1. CASE Replace(r)
      <4>1. row[k] # None
        BY <1>11, <3>1 DEF Replace
      <4>2. row[k] \in Row
        BY <1>1, <2>2, <4>1 DEF StateTyped
      <4> DEFINE status == Written(q.read.columns.status, q.input.status, row[k].status)
                 note == Written(q.read.columns.note, q.input.note, row[k].note)
                 new == [row[k] EXCEPT !.status = status, !.note = note]
      <4>3. row' = [row EXCEPT ![k] = new]
        BY <3>1, <4>1 DEF Replace
      <4> HIDE DEF status, note, k
      <4>4. new.candidate = row[k].candidate
        BY <4>2 DEF Row
      <4>5. row'[k] = new
        BY <1>1, <2>2, <4>3 DEF StateTyped
      <4> QED
        BY <4>1, <4>4, <4>5
    <3>2. CASE Drop(r)
      <4>1. row' = [row EXCEPT ![k] = None]
        BY <1>11, <3>2 DEF Drop
      <4>2. row'[k] = None /\ (row[k] = None => row' = row)
        BY <1>1, <2>2, <4>1 DEF StateTyped
      <4> QED
        BY <1>11, <4>2
    <3> QED
      BY <1>11, <3>1, <3>2
  <2> HIDE DEF k, q
  <2>5. profile[q.id] # None /\ profile[q.id].token = q.token
    BY <1>2, <1>3, <2>1, <2>2, <2>3, <2>4
  <2> QED
    BY <2>1, <2>2, <2>3, <2>4, <2>5 DEF Acts, q
<1>12. CASE \/ Refuse(r) \/ Busy(r) \/ Export(r) \/ Recommend(r) \/ Look(r)
            \/ \E kind \in Kinds, id \in Id, token \in 1..tokens :
                 \E input \in Inputs(kind) : Arrive(r, kind, id, token, input)
            \/ (Replace(r) \/ Drop(r)) /\ row' = row
  BY <1>6, <1>12, Zenon DEF Refuse, Busy, Export, Recommend, Look, Arrive, Replace, Drop
<1> QED
  BY <1>7, <1>8, <1>9, <1>10, <1>11, <1>12 DEF Handle

\* Only the holder of a profile's token changes it or what is tracked for it,
\* however long ago a request was authorised and whatever was deleted since.
THEOREM TokenActs == Spec => ActsForItsProfile
<1>1. ASSUME IInv, [Next]_vars
      PROVE  [dialect = "postgresql" => Acts]_vars
  <2>1. CASE UNCHANGED <<profile, row>>
    BY <2>1 DEF Acts
  <2>2. CASE Import \/ Restart \/ UNCHANGED vars
    BY <2>1, <2>2 DEF Import, Restart, vars
  <2>3. CASE \E r \in Request : Handle(r)
    BY <1>1, <2>3, WriterActs
  <2> QED
    BY <1>1, <2>2, <2>3 DEF Next
<1>2. IInv /\ [Next]_vars =>
        [dialect = "postgresql" =>
           /\ \A i \in Taken(profile) : profile'[i] # profile[i] =>
                request[sent'.from].token = profile[i].token
           /\ \A k \in RowId : row'[k] # row[k] =>
                \A state \in {row[k], row'[k]} \ {None} :
                  request[sent'.from].token = profile[state.candidate].token]_vars
  BY <1>1 DEF Acts
<1> QED
  BY <1>2, InitInv, StepInv, PTL DEF Spec, ActsForItsProfile

-------------------------------------------------------------------------------
(* A PUT that no other write overlaps.                                     *)

\* A vacancy has at most one row of a profile.
Unique ==
  \A k, l \in Taken(row) :
    row[k].candidate = row[l].candidate /\ row[k].job = row[l].job => k = l

\* What such a PUT has read is still so.
Seen(q) ==
  LET rows == RowFor(q.id, q.input.job)
  IN  /\ profile[q.id] # None
      /\ q.read = Nothing => rows = {}
      /\ q.read # Nothing /\ q.read # None =>
           /\ rows = {q.read.row}
           /\ q.read.columns = [status |-> row[q.read.row].status,
                                note |-> row[q.read.row].note]

Alone(q) == q # None /\ q.kind = "put" /\ ~q.overlapped

AloneInv ==
  /\ StateTyped /\ Unique
  /\ \A r \in Request : Alone(request[r]) => Seen(request[r])

LEMMA UniqueKept ==
  ASSUME StateTyped, StateTyped', Unique,
         \A k \in RowId : row'[k] # None =>
           /\ row[k] # None
           /\ row'[k].candidate = row[k].candidate /\ row'[k].job = row[k].job
  PROVE  Unique'
<1>1. Taken(row)' \subseteq RowId /\ \A k \in Taken(row)' : row'[k] # None
  BY DEF Taken, StateTyped
<1>2. \A k \in Taken(row)' : k \in Taken(row)
  BY <1>1 DEF Taken, StateTyped
<1> QED
  BY <1>1, <1>2 DEF Unique

\* A step that changes neither table, after which every PUT is one of before or
\* has just read.
LEMMA AloneQuiet ==
  ASSUME AloneInv, StateTyped', UNCHANGED <<profile, row>>,
         \A s \in Request : Alone(request'[s]) => request'[s] = request[s] \/ Seen(request'[s])
  PROVE  AloneInv'
<1>1. Unique'
  BY DEF AloneInv, Unique, Taken
<1>2. ASSUME NEW s \in Request, Alone(request'[s])
      PROVE  Seen(request[s])'
  <2>1. Seen(request'[s])
    BY <1>2 DEF AloneInv
  <2> QED
    BY <2>1 DEF Seen, RowFor, RowsOf, Taken, Nothing
<1>3. \A s \in Request : Alone(request[s])' => Alone(request'[s])
  BY DEF Alone
<1> QED
  BY <1>1, <1>2, <1>3 DEF AloneInv

\* A commit overlaps every PUT under way.
LEMMA AloneCommit ==
  ASSUME AloneInv, StateTyped', Unique', NEW r \in Request, NEW result, Commit(r, result)
  PROVE  AloneInv'
<1>1. ASSUME NEW s \in Request, Alone(request'[s])
      PROVE  FALSE
  <2>1. request'[s] = IF s = r \/ request[s] = None THEN None
          ELSE [request[s] EXCEPT !.overlapped = request[s].kind = "put"]
    BY Zenon DEF Commit
  <2>2. request[s] # None
        /\ request'[s] = [request[s] EXCEPT !.overlapped = request[s].kind = "put"]
    BY <1>1, <2>1 DEF Alone
  <2>3. request[s].kind \in Kinds /\ request[s] \in Working(request[s].kind)
    BY <2>2 DEF AloneInv, StateTyped
  <2>4. PICK b \in BOOLEAN : b = (request[s].kind = "put")
    OBVIOUS
  <2>5. request'[s] = [request[s] EXCEPT !.overlapped = b]
    BY <2>2, <2>4, Zenon
  <2>6. request'[s].kind = request[s].kind
    BY <2>3, <2>5, RequestUpdates
  <2>7. b = TRUE
    BY <1>1, <2>4, <2>6 DEF Alone
  <2>8. request'[s].overlapped = TRUE
    BY <2>3, <2>5, <2>7 DEF Working
  <2> QED
    BY <1>1, <2>8 DEF Alone
<1>2. \A s \in Request : Alone(request[s])' => Alone(request'[s])
  BY DEF Alone
<1> QED
  BY <1>1, <1>2 DEF AloneInv

LEMMA ReplyAlone ==
  ASSUME AloneInv, StateTyped', UNCHANGED <<profile, row>>,
         NEW r \in Request, NEW status, NEW result, Reply(r, status, result)
  PROVE  AloneInv'
<1>1. \A s \in Request : request'[s] = IF s = r THEN None ELSE request[s]
  BY DEF Reply, AloneInv, StateTyped
<1> QED
  BY <1>1, AloneQuiet DEF Alone

LEMMA ArriveAlone ==
  ASSUME AloneInv, StateTyped', NEW r \in Request, NEW kind \in Kinds, NEW id \in Id,
         NEW token, NEW input \in Inputs(kind), Arrive(r, kind, id, token, input)
  PROVE  AloneInv'
<1> DEFINE q == [kind |-> kind, id |-> id, token |-> token, input |-> input,
                 read |-> IF kind \in {"update", "export", "recommend"}
                          THEN profile[id].content ELSE None,
                 overlapped |-> FALSE]
<1>1. request' = [request EXCEPT ![r] = q] /\ UNCHANGED <<profile, row>> /\ profile[id] # None
  BY DEF Arrive, Admitted
<1>2. q.kind = kind /\ q.id = id /\ (kind = "put" => q.read = None)
  OBVIOUS
<1> HIDE DEF q
<1>3. \A s \in Request : request'[s] = IF s = r THEN q ELSE request[s]
  BY <1>1 DEF AloneInv, StateTyped
<1>4. Alone(q) => Seen(q)
  BY <1>1, <1>2, NothingAssumption DEF Alone, Seen
<1> QED
  BY <1>1, <1>3, <1>4, AloneQuiet

LEMMA LookAlone ==
  ASSUME AloneInv, StateTyped', NEW r \in Request, Look(r)
  PROVE  AloneInv'
<1> DEFINE q == request[r]
           x == LookFor(q)
           p == [q EXCEPT !.read = x]
<1>1. StateTyped /\ Unique /\ q # None /\ q.kind \in {"put", "drop"}
      /\ q.kind \in Kinds /\ q \in Working(q.kind)
  BY RequestTyped DEF AloneInv, Look
<1>2. request' = [request EXCEPT ![r] = p] /\ UNCHANGED <<profile, row>>
  BY DEF Look
<1>3. /\ x \in [row : RowId, columns : [status : Status, note : Note] \cup {None}] \cup {Nothing}
  BY <1>1, LookTyped
<1>4. q.kind = "put" =>
        LET rows == RowFor(q.id, q.input.job)
        IN  /\ rows = {} => x = Nothing
            /\ rows # {} => \E k \in rows : x =
                 [row |-> k, columns |-> [status |-> row[k].status, note |-> row[k].note]]
  <2>1. SUFFICES ASSUME q.kind = "put"
                 PROVE  LET rows == RowFor(q.id, q.input.job)
                        IN  /\ rows = {} => x = Nothing
                            /\ rows # {} => \E k \in rows : x =
                                 [row |-> k, columns |-> [status |-> row[k].status,
                                                          note |-> row[k].note]]
    OBVIOUS
  <2>2. UNION {RowFor(q.id, job) : job \in About(q.kind, q.input)} = RowFor(q.id, q.input.job)
    BY <2>1 DEF About
  <2> QED
    BY <2>1, <2>2 DEF LookFor
<1> HIDE DEF x
<1>5. /\ p.kind = q.kind /\ p.id = q.id /\ p.read = x /\ p.input = q.input
      /\ p.overlapped = q.overlapped
  BY <1>1, <1>3 DEF Working
<1> HIDE DEF p
<1>6. \A s \in Request : request'[s] = IF s = r THEN p ELSE request[s]
  BY <1>1, <1>2 DEF StateTyped
<1>7. ASSUME Alone(p)
      PROVE  Seen(p)
  <2> DEFINE rows == RowFor(q.id, q.input.job)
  <2>1. q.kind = "put" /\ profile[q.id] # None
    <3>1. Alone(q)
      BY <1>1, <1>5, <1>7 DEF Alone
    <3> QED
      BY <3>1 DEF AloneInv, Alone, Seen
  <2>2. \A k, l \in rows : k = l
    BY <1>1 DEF RowFor, RowsOf, Unique
  <2>3. \A k \in rows : k \in RowId /\ k # 0
    BY <1>1, IdTypes DEF RowFor, RowsOf, Taken, StateTyped, RowId
  <2> HIDE DEF rows, q
  <2>4. CASE rows = {}
    BY <1>4, <1>5, <2>1, <2>4 DEF Seen, rows
  <2>5. CASE rows # {}
    <3>1. PICK k \in rows : x =
            [row |-> k, columns |-> [status |-> row[k].status, note |-> row[k].note]]
      BY <1>4, <2>1, <2>5 DEF rows
    <3>2. rows = {k}
      BY <2>2, <3>1
    <3>3. /\ x.row = k
          /\ x.columns = [status |-> row[k].status, note |-> row[k].note]
      BY <3>1
    <3>4. x # Nothing
      BY <2>3, <3>3 DEF Nothing
    <3>5. RowFor(p.id, p.input.job) = rows /\ profile[p.id] # None /\ p.read = x
      BY <1>5, <2>1 DEF rows
    <3> QED
      BY <3>2, <3>3, <3>4, <3>5 DEF Seen
  <2> QED
    BY <2>4, <2>5
<1> QED
  BY <1>2, <1>6, <1>7, AloneQuiet

\* The step answers the PUT q with success, and its state is what is stored, once.
SucceedsAs(q) ==
  /\ sent'.status = "ok"
  /\ {<<row'[k].status, row'[k].note>> :
        k \in {j \in RowId : row'[j] # None /\ row'[j].candidate = q.id
                             /\ row'[j].job = q.input.job}}
     = {<<q.input.status, q.input.note>>}

LEMMA InsertAlone ==
  ASSUME AloneInv, StateTyped', NEW r \in Request, Insert(r)
  PROVE  AloneInv' /\ (Alone(request[r]) => SucceedsAs(request[r]))
<1> DEFINE q == request[r]
           id == NextId(row, last.row)
           rows == RowFor(q.id, q.input.job)
           orphan == dialect = "postgresql" /\ profile[q.id] = None
           new == [candidate |-> q.id, job |-> q.input.job, status |-> q.input.status,
                   note |-> q.input.note, by |-> q.token]
<1>1. StateTyped /\ Unique /\ q # None /\ q.kind = "put" /\ q.read = Nothing /\ id \in RowId
      /\ UNCHANGED profile
  BY DEF AloneInv, Insert
<1>2. \/ rows # {} /\ UNCHANGED row /\ Reply(r, "error", None)
      \/ orphan /\ UNCHANGED row /\ Reply(r, "error", None)
      \/ rows = {} /\ row' = [row EXCEPT ![id] = new] /\ Commit(r, None)
  BY DEF Insert
<1>3. Alone(q) => rows = {} /\ ~orphan
  BY <1>1 DEF AloneInv, Seen
<1>4. q.id \in Id /\ q.token \in 1..MaxToken /\ q.input \in Body
  BY <1>1, RequestTyped, RequestFields
<1>5. new \in Row
  BY <1>4 DEF Row, Body
<1>6. /\ new.candidate = q.id /\ new.job = q.input.job
      /\ new.status = q.input.status /\ new.note = q.input.note
  OBVIOUS
<1>7. \A k \in RowId : row[k] # None => k \in Taken(row)
  BY <1>1 DEF Taken, StateTyped
<1>8. \A k \in RowId : k \in rows <=>
        row[k] # None /\ row[k].candidate = q.id /\ row[k].job = q.input.job
  BY <1>1 DEF RowFor, RowsOf, Taken, StateTyped
<1> HIDE DEF id, new, orphan, rows, q
<1>9. CASE UNCHANGED row /\ Reply(r, "error", None)
  <2>1. AloneInv'
    BY <1>1, <1>9, ReplyAlone
  <2>2. ~Alone(q)
    <3>1. row' = row /\ (rows # {} \/ orphan \/ Commit(r, None))
      BY <1>2, <1>9
    <3>2. ~Commit(r, None)
      BY <1>9 DEF Reply, Commit, Response
    <3> QED
      BY <1>3, <3>1, <3>2
  <2> QED
    BY <2>1, <2>2 DEF q
<1>10. CASE rows = {} /\ row' = [row EXCEPT ![id] = new] /\ Commit(r, None)
  <2>1. \A k \in RowId : row'[k] = IF k = id THEN new ELSE row[k]
    BY <1>1, <1>10 DEF StateTyped
  <2>2. new # None
    BY <1>5, NoneAssumption
  <2>3. Unique'
    <3>1. Taken(row)' = {k \in RowId : row'[k] # None}
      BY DEF Taken, StateTyped
    <3>2. SUFFICES ASSUME NEW k \in RowId, NEW l \in RowId, row'[k] # None, row'[l] # None,
                          row'[k].candidate = row'[l].candidate, row'[k].job = row'[l].job
                   PROVE  k = l
      BY <3>1 DEF Unique
    <3>3. CASE k = id \/ l = id
      BY <1>6, <1>8, <1>10, <2>1, <3>2, <3>3
    <3>4. CASE k # id /\ l # id
      BY <1>1, <1>7, <2>1, <3>2, <3>4 DEF Unique
    <3> QED
      BY <3>3, <3>4
  <2>4. AloneInv'
    BY <1>10, <2>3, AloneCommit
  <2>5. {j \in RowId : row'[j] # None /\ row'[j].candidate = q.id /\ row'[j].job = q.input.job}
          = {id}
    BY <1>1, <1>6, <1>8, <1>10, <2>1, <2>2
  <2>6. row'[id] = new
    BY <1>1, <2>1
  <2>7. sent'.status = "ok"
    BY <1>10 DEF Commit, Response
  <2>8. SucceedsAs(q)
    BY <1>6, <2>5, <2>6, <2>7 DEF SucceedsAs
  <2> QED
    BY <2>4, <2>8 DEF q
<1> QED
  BY <1>2, <1>9, <1>10

LEMMA ReplaceAlone ==
  ASSUME AloneInv, StateTyped', NEW r \in Request, Replace(r)
  PROVE  AloneInv' /\ (Alone(request[r]) => SucceedsAs(request[r]))
<1> DEFINE q == request[r]
           k == q.read.row
           rows == RowFor(q.id, q.input.job)
           status == Written(q.read.columns.status, q.input.status, row[k].status)
           note == Written(q.read.columns.note, q.input.note, row[k].note)
           new == [row[k] EXCEPT !.status = status, !.note = note]
<1>1. StateTyped /\ Unique /\ q # None /\ q.kind = "put" /\ q.read # None /\ q.read # Nothing
      /\ UNCHANGED profile
  BY DEF AloneInv, Replace
<1>2. k \in RowId /\ q.input \in Body
  BY <1>1, RequestTyped, RequestFields
<1>3. Alone(q) => rows = {k} /\ q.read.columns = [status |-> row[k].status, note |-> row[k].note]
  BY <1>1 DEF AloneInv, Seen
<1>4. \A i \in RowId : i \in rows <=>
        row[i] # None /\ row[i].candidate = q.id /\ row[i].job = q.input.job
  BY <1>1 DEF RowFor, RowsOf, Taken, StateTyped
<1>5. CASE row[k] = None
  <2>1. UNCHANGED row /\ Reply(r, "error", None)
    BY <1>5 DEF Replace
  <2>2. AloneInv'
    BY <1>1, <2>1, ReplyAlone
  <2>3. ~Alone(q)
    BY <1>2, <1>3, <1>4, <1>5
  <2> QED
    BY <2>2, <2>3
<1>6. CASE row[k] # None
  <2>1. row[k] \in Row
    BY <1>1, <1>2, <1>6 DEF StateTyped
  <2>2. row' = [row EXCEPT ![k] = new] /\ Commit(r, None)
    BY <1>6 DEF Replace
  <2>3. Alone(q) => status = q.input.status /\ note = q.input.note
    BY <1>3 DEF Written
  <2>4. status \in Status /\ note \in Note
    BY <1>2, <2>1 DEF Written, Row, Body
  <2> HIDE DEF status, note, k, rows, q
  <2>5. /\ new \in Row /\ new.candidate = row[k].candidate /\ new.job = row[k].job
        /\ new.status = status /\ new.note = note
    BY <2>1, <2>4 DEF Row
  <2> HIDE DEF new
  <2>6. \A i \in RowId : row'[i] = IF i = k THEN new ELSE row[i]
    BY <1>1, <2>2 DEF StateTyped
  <2>7. Unique'
    BY <1>1, <1>6, <2>5, <2>6, UniqueKept
  <2>8. AloneInv'
    BY <2>2, <2>7, AloneCommit
  <2>9. ASSUME Alone(q)
        PROVE  SucceedsAs(q)
    <3>1. new # None
      BY <2>5, NoneAssumption
    <3>2. {j \in RowId : row'[j] # None /\ row'[j].candidate = q.id
                         /\ row'[j].job = q.input.job} = {k}
      BY <1>2, <1>3, <1>4, <2>5, <2>6, <2>9, <3>1
    <3>3. row'[k].status = q.input.status /\ row'[k].note = q.input.note
      BY <1>2, <2>3, <2>5, <2>6, <2>9
    <3>4. sent'.status = "ok"
      BY <2>2 DEF Commit, Response
    <3> QED
      BY <3>2, <3>3, <3>4 DEF SucceedsAs
  <2> QED
    BY <2>8, <2>9 DEF q
<1> QED
  BY <1>5, <1>6

\* The other steps that commit.
LEMMA OtherAlone ==
  ASSUME AloneInv, StateTyped', NEW r \in Request,
         (\E content \in Content : Create(r, content)) \/ Update(r) \/ Delete(r) \/ Drop(r)
  PROVE  AloneInv'
<1>1. StateTyped /\ Unique
  BY DEF AloneInv
<1>2. CASE Delete(r)
  <2>1. \A k \in RowId : row'[k] # None => row[k] # None /\ row'[k] = row[k]
    BY <1>2 DEF Delete, Cascade
  <2> QED
    BY <1>1, <1>2, <2>1, UniqueKept, AloneCommit DEF Delete
<1>3. ASSUME NEW content \in Content, Create(r, content)
      PROVE  AloneInv'
  <2>1. row' = row /\ Commit(r, None)
    BY <1>3 DEF Create
  <2> QED
    BY <1>1, <2>1, UniqueKept, AloneCommit
<1>4. CASE Update(r)
  <2>1. row' = row /\ (Commit(r, None) \/ (Reply(r, "error", None) /\ UNCHANGED profile))
    BY <1>4 DEF Update
  <2> QED
    BY <1>1, <2>1, UniqueKept, AloneCommit, ReplyAlone
<1>5. CASE Drop(r)
  <2>1. UNCHANGED profile
        /\ \/ Reply(r, "ok", None) /\ UNCHANGED row
           \/ row' = [row EXCEPT ![request[r].read.row] = None] /\ Commit(r, None)
    BY <1>5 DEF Drop
  <2>2. CASE Reply(r, "ok", None) /\ UNCHANGED row
    BY <2>1, <2>2, ReplyAlone
  <2>3. CASE row' = [row EXCEPT ![request[r].read.row] = None] /\ Commit(r, None)
    <3>1. \A k \in RowId : row'[k] # None => row[k] # None /\ row'[k] = row[k]
      BY <1>1, <2>3 DEF StateTyped
    <3> QED
      BY <1>1, <2>3, <3>1, UniqueKept, AloneCommit
  <2> QED
    BY <2>1, <2>2, <2>3
<1> QED
  BY <1>2, <1>3, <1>4, <1>5

LEMMA AloneStep == AloneInv /\ StateTyped' /\ [Next]_vars => AloneInv'
<1> SUFFICES ASSUME AloneInv, StateTyped', [Next]_vars PROVE AloneInv'
  OBVIOUS
<1>1. ASSUME NEW r \in Request, Handle(r)
      PROVE  AloneInv'
  <2>1. ASSUME NEW kind \in Kinds, NEW id \in Id, NEW token \in 1..tokens,
               NEW input \in Inputs(kind), Arrive(r, kind, id, token, input)
        PROVE  AloneInv'
    BY <2>1, ArriveAlone
  <2>2. CASE Refuse(r) \/ Busy(r) \/ Export(r) \/ Recommend(r)
    <3>1. UNCHANGED <<profile, row>> /\ \E status, result : Reply(r, status, result)
      BY <2>2, Zenon DEF Refuse, Busy, Export, Recommend
    <3> QED
      BY <3>1, ReplyAlone
  <2> QED
    BY <1>1, <2>1, <2>2, OtherAlone, LookAlone, InsertAlone, ReplaceAlone DEF Handle
<1>2. CASE Import \/ UNCHANGED vars
  <2>1. UNCHANGED <<profile, row, request>>
    BY <1>2 DEF Import, vars
  <2> QED
    BY <2>1, AloneQuiet
<1>3. CASE Restart
  <2>1. UNCHANGED <<profile, row>> /\ \A s \in Request : request'[s] = None
    BY <1>3 DEF Restart
  <2> QED
    BY <2>1, AloneQuiet DEF Alone
<1> QED
  BY <1>1, <1>2, <1>3 DEF Next

\* The request that is answered in a step is the one that is handled in it.
LEMMA Answerer ==
  ASSUME NEW s, Handle(s)
  PROVE  sent' = None \/ \E status, result : sent' = Response(s, status, result)
<1>1. CASE Refuse(s) \/ Busy(s) \/ Export(s) \/ Recommend(s)
  BY <1>1, Zenon DEF Refuse, Busy, Export, Recommend, Reply
<1>2. CASE (\E content \in Content : Create(s, content)) \/ Delete(s)
  BY <1>2, Zenon DEF Create, Delete, Commit
<1>3. CASE Update(s) \/ Drop(s)
  BY <1>3, Zenon DEF Update, Drop, Reply, Commit
<1>4. CASE Insert(s) \/ Replace(s)
  BY <1>4, Zenon DEF Insert, Replace, Reply, Commit
<1>5. CASE \/ Look(s)
           \/ \E kind \in Kinds, id \in Id, token \in 1..tokens :
                \E input \in Inputs(kind) : Arrive(s, kind, id, token, input)
  BY <1>5, Zenon DEF Look, Arrive
<1> QED
  BY <1>1, <1>2, <1>3, <1>4, <1>5 DEF Handle

\* A PUT that nothing overlaps does what it was asked: on both databases, whatever
\* other requests did before, one row holds the state that was sent.
THEOREM PutSucceeds == Spec => AloneSucceeds
<1> DEFINE AloneAsked(r) ==
             /\ sent' # None /\ sent'.from = r
             /\ request[r] # None /\ request[r].kind = "put"
             /\ ~request[r].overlapped
             /\ sent'.status # "busy"
<1>1. Init => AloneInv
  BY InitInv DEF Init, AloneInv, IInv, Unique, Taken, Alone
<1>2. IInv /\ AloneInv /\ [Next]_vars => AloneInv'
  <2>1. IInv /\ [Next]_vars => StateTyped'
    BY StepInv DEF IInv
  <2> QED
    BY <2>1, AloneStep
<1>3. ASSUME AloneInv, StateTyped', Next, NEW r \in Request, AloneAsked(r)
      PROVE  SucceedsAs(request[r])
  <2>1. Alone(request[r])
    BY <1>3 DEF Alone
  <2>2. PICK s \in Request : Handle(s)
    BY <1>3 DEF Next, Import, Restart
  <2>3. s = r
    BY <1>3, <2>2, Answerer DEF Response
  <2>4. Insert(r) \/ Replace(r)
    <3>1. request[r] # None /\ request[r].kind = "put" /\ sent' # None /\ sent'.status # "busy"
      BY <1>3
    <3>2. ~Busy(r)
      BY <3>1 DEF Busy, Reply, Response
    <3> QED
      BY <2>2, <2>3, <3>1, <3>2 DEF Handle, Arrive, Refuse, Create, Update, Delete, Export,
         Recommend, Look, Drop
  <2> QED
    BY <1>3, <2>1, <2>4, InsertAlone, ReplaceAlone
<1>4. IInv /\ AloneInv /\ [Next]_vars =>
        [\A r \in Request :
           /\ sent' # None /\ sent'.from = r
           /\ request[r] # None /\ request[r].kind = "put" /\ ~request[r].overlapped
           /\ sent'.status # "busy"
           => /\ sent'.status = "ok"
              /\ {<<row'[k].status, row'[k].note>> :
                    k \in {j \in RowId : /\ row'[j] # None /\ row'[j].candidate = request[r].id
                                         /\ row'[j].job = request[r].input.job}}
                 = {<<request[r].input.status, request[r].input.note>>}]_vars
  <2>1. IInv /\ [Next]_vars => StateTyped'
    BY StepInv DEF IInv
  <2> QED
    BY <1>3, <2>1, Zenon DEF SucceedsAs
<1> QED
  BY <1>1, <1>2, <1>4, InitInv, StepInv, PTL DEF Spec, AloneSucceeds

-------------------------------------------------------------------------------
(* The scores.                                                            *)

\* A quotient lies within the bounds of its dividend.
LEMMA DivisionWithin ==
  ASSUME NEW a \in Nat, NEW b \in Nat \ {0}, NEW k \in Nat, a <= k * b
  PROVE  a \div b \in 0..k
<1> DEFINE q == a \div b
           r == a % b
<1>1. q \in Int /\ r \in 0..(b - 1) /\ a = b * q + r
  OBVIOUS
<1> HIDE DEF q, r
<1>2. q >= 0
  <2>1. ASSUME q <= -1 PROVE b * q <= -b
    BY <1>1, <2>1
  <2> QED
    BY <1>1, <2>1
<1>3. q <= k
  <2>1. ASSUME q >= k + 1 PROVE b * q >= k * b + b
    BY <1>1, <2>1
  <2> QED
    BY <1>1, <2>1
<1> QED
  BY <1>1, <1>2, <1>3 DEF q

\* A quotient is natural.
LEMMA QuotientNatural ==
  ASSUME NEW a \in Nat, NEW b \in Nat \ {0}
  PROVE  a \div b \in Nat
<1>1. a <= a * b
  OBVIOUS
<1> QED
  BY <1>1, DivisionWithin

\* The share of the wanted skills is a score.
LEMMA CoverageScored ==
  ASSUME NEW skills, NEW wanted \in SUBSET Skill
  PROVE  Coverage(skills, wanted) \in Score
<1>1. CASE wanted = {}
  BY <1>1 DEF Coverage, Score
<1>2. CASE wanted # {}
  <2> DEFINE m == Cardinality(skills \cap wanted)
             n == Cardinality(wanted)
  <2>1. IsFiniteSet(wanted) /\ skills \cap wanted \in SUBSET wanted
    BY RankingAssumption, FS_Subset
  <2>2. m \in Nat /\ n \in Nat /\ m <= n /\ n # 0
    BY <1>2, <2>1, FS_Subset, FS_CardinalityType, FS_EmptySet
  <2> HIDE DEF m, n
  <2> DEFINE a == 10000 * m
  <2>3. a \in Nat /\ n \in Nat \ {0}
    BY <2>2
  <2>4. a <= 10000 * n
    BY <2>2
  <2> HIDE DEF a
  <2>5. a \div n \in 0..10000
    BY <2>3, <2>4, DivisionWithin
  <2>6. Coverage(skills, wanted) = a \div n
    BY <1>2 DEF Coverage, m, n, a
  <2> QED
    BY <2>5, <2>6 DEF Score
<1> QED
  BY <1>1, <1>2

\* Seven parts of a score and three of another are a score.
LEMMA Mixed ==
  ASSUME NEW a \in Score, NEW b \in Score
  PROVE  (7 * a + 3 * b) \div 10 \in Score
<1>1. 7 * a + 3 * b \in Nat
  BY DEF Score
<1>2. 7 * a + 3 * b <= 10000 * 10
  BY DEF Score
<1> QED
  BY <1>1, <1>2, DivisionWithin DEF Score

\* What a vacancy asks for, from its own record or read off its text.
LEMMA AskedTyped ==
  ASSUME NEW job \in Vacancies
  PROVE  Asked(job) \in Requirements
<1>1. job.stored \in Requirements /\ job.read \in Requirements
  BY DEF Vacancies
<1> QED
  BY <1>1 DEF Asked, Requirements

\* skill_score is a score, whatever is required and preferred.
LEMMA SkillScored ==
  ASSUME NEW candidate, NEW asked \in Requirements
  PROVE  SkillScore(candidate, asked) \in Score
<1> DEFINE r == Coverage(SkillsOf(candidate), asked.required)
           p == Coverage(SkillsOf(candidate), asked.preferred)
<1>1. r \in Score /\ p \in Score
  BY CoverageScored DEF Requirements
<1> HIDE DEF r, p
<1>2. (7 * r + 3 * p) \div 10 \in Score
  BY <1>1, Mixed
<1> QED
  BY <1>1, <1>2 DEF SkillScore, r, p

\* experience_score is a score unless the vacancy asks for no years, the division of
\* _experience_match that fails.
LEMMA ExperienceScored ==
  ASSUME NEW candidate \in Profiles, NEW asked \in Requirements, asked.minimum # 0
  PROVE  ExperienceScore(candidate, asked) \in Score
<1> DEFINE level == SeniorityMatch(candidate.seniority, asked.seniority)
           q == (10000 * candidate.years) \div asked.minimum
           years == Lower(10000, q)
<1>1. level \in Score
  BY DEF SeniorityMatch, Score
<1>2. CASE asked.minimum = None
  BY <1>1, <1>2 DEF ExperienceScore
<1>3. CASE asked.minimum # None
  <2>1. asked.minimum \in Nat \ {0} /\ candidate.years \in Nat
    BY <1>3 DEF Requirements, Profiles
  <2>2. 10000 * candidate.years \in Nat
    BY <2>1
  <2>3. q \in Nat
    BY <2>1, <2>2, QuotientNatural
  <2> HIDE DEF q
  <2>4. years \in Score
    BY <2>3 DEF Lower, Score
  <2> HIDE DEF years, level
  <2>5. (7 * years + 3 * level) \div 10 \in Score
    BY <1>1, <2>4, Mixed
  <2> QED
    BY <1>1, <1>3, <2>4, <2>5 DEF ExperienceScore, q, years, level
<1> QED
  BY <1>2, <1>3

\* role_similarity is a score.
LEMMA RoleScored ==
  ASSUME NEW candidate, NEW job
  PROVE  RoleSimilarity(candidate, job) \in Score
BY DEF RoleSimilarity, Score

\* country_score is a score, with the bonus of remote work.
LEMMA CountryScored ==
  ASSUME NEW candidate, NEW job
  PROVE  CountryScore(candidate, job) \in Score
BY DEF CountryScore, Score, Lower

\* visa_score is a score.
LEMMA VisaScored ==
  ASSUME NEW candidate, NEW job \in Vacancies
  PROVE  VisaScore(candidate, job) \in Score
BY DEF VisaScore, Score, Vacancies

\* Five things are finitely many.
LEMMA FewFinite ==
  ASSUME NEW a, NEW b, NEW c, NEW d, NEW e
  PROVE  IsFiniteSet({a, b, c, d, e})
<1>1. IsFiniteSet({} \cup {a})
  BY FS_EmptySet, FS_AddElement
<1>2. IsFiniteSet(({} \cup {a}) \cup {b})
  BY <1>1, FS_AddElement
<1>3. IsFiniteSet((({} \cup {a}) \cup {b}) \cup {c})
  BY <1>2, FS_AddElement
<1>4. IsFiniteSet(((({} \cup {a}) \cup {b}) \cup {c}) \cup {d})
  BY <1>3, FS_AddElement
<1>5. IsFiniteSet((((({} \cup {a}) \cup {b}) \cup {c}) \cup {d}) \cup {e})
  BY <1>4, FS_AddElement
<1>6. {a, b, c, d, e} = (((({} \cup {a}) \cup {b}) \cup {c}) \cup {d}) \cup {e}
  OBVIOUS
<1> QED
  BY <1>5, <1>6

\* CompanyIntelligenceScorer clamps: however many signals there are for and against,
\* the sum is a score.
LEMMA CompanyScored ==
  ASSUME NEW job
  PROVE  CompanyScore(job) \in Score
<1> DEFINE Count(codes) == Cardinality(job.evidence \cap codes)
<1>1. /\ IsFiniteSet(Abroad) /\ IsFiniteSet(Explicit)
      /\ IsFiniteSet(Refusing) /\ IsFiniteSet(Restricting)
  <2>1. Abroad \in SUBSET {"relocation_support", "relocation_provided",
                           "international_candidates", "apply_from_abroad", "apply_from_abroad"}
    BY DEF Abroad
  <2>2. Explicit \in SUBSET {"visa_sponsorship", "sponsor_work_visa", "work_permit_support",
                             "immigration_support", "immigration_support"}
    BY DEF Explicit
  <2>3. Refusing \in SUBSET {"no_sponsorship", "no_sponsorship_direct", "no_sponsorship",
                             "no_sponsorship", "no_sponsorship"}
    BY DEF Refusing
  <2>4. Restricting \in SUBSET {"without_sponsorship", "existing_work_rights", "eu_eea_only",
                                "local_candidates_only", "citizenship_required"}
    BY DEF Restricting
  <2> QED
    BY <2>1, <2>2, <2>3, <2>4, FewFinite, FS_Subset
<1>2. /\ Count(Abroad) \in Nat /\ Count(Explicit) \in Nat
      /\ Count(Refusing) \in Nat /\ Count(Restricting) \in Nat
  BY <1>1, FS_Intersection, FS_CardinalityType
<1> HIDE DEF Count
<1>3. \A x \in Int : Clamp(x) \in Score
  BY DEF Clamp, Score
<1> QED
  BY <1>2, <1>3 DEF CompanyScore, Count

\* A weighed score is within its weight.
LEMMA Weighed ==
  ASSUME NEW w \in Nat, NEW x \in Score
  PROVE  w * x \in 0..(w * 10000)
<1>1. x \in Nat /\ x <= 10000
  BY DEF Score
<1> QED
  BY <1>1

\* RankingEngine.score: weights that are natural and sum to a hundred, as
\* RankingConfig demands, keep every total of a vacancy that can be scored between 0
\* and a hundred percent.
THEOREM TotalScored ==
  ASSUME NEW candidate \in Profiles, NEW job \in Vacancies, ~Unscorable(job)
  PROVE  Total(candidate, job) \in Score
<1> DEFINE a == VisaScore(candidate, job)
           b == SkillScore(candidate, Asked(job))
           c == ExperienceScore(candidate, Asked(job))
           d == CountryScore(candidate, job)
           e == CompanyScore(job)
           f == RoleSimilarity(candidate, job)
           p == Weight["visa"]
           q == Weight["skill"]
           r == Weight["experience"]
           s == Weight["country"]
           t == Weight["company"]
           u == Weight["role"]
<1>1. /\ a \in Score /\ b \in Score /\ c \in Score
      /\ d \in Score /\ e \in Score /\ f \in Score
  BY AskedTyped, VisaScored, SkillScored, ExperienceScored, CountryScored, CompanyScored,
     RoleScored DEF Unscorable
<1>2. /\ p \in Nat /\ q \in Nat /\ r \in Nat /\ s \in Nat /\ t \in Nat /\ u \in Nat
      /\ p + q + r + s + t + u = 100
  BY RankingAssumption
<1>3. Total(candidate, job) = (p * a + q * b + r * c + s * d + t * e + u * f) \div 100
  BY DEF Total
<1> HIDE DEF a, b, c, d, e, f, p, q, r, s, t, u
<1>4. /\ p * a \in 0..(p * 10000) /\ q * b \in 0..(q * 10000) /\ r * c \in 0..(r * 10000)
      /\ s * d \in 0..(s * 10000) /\ t * e \in 0..(t * 10000) /\ u * f \in 0..(u * 10000)
  BY <1>1, <1>2, Weighed
<1> DEFINE sum == p * a + q * b + r * c + s * d + t * e + u * f
<1>5. sum \in Nat
  BY <1>2, <1>4
<1>6. sum <= 10000 * 100
  BY <1>2, <1>4
<1> HIDE DEF sum
<1>7. sum \div 100 \in 0..10000
  BY <1>5, <1>6, DivisionWithin
<1>8. Total(candidate, job) = sum \div 100
  BY <1>3 DEF sum
<1>9. sum \div 100 \in Score
  BY <1>7 DEF Score
<1> QED
  BY <1>8, <1>9

-------------------------------------------------------------------------------
(* The shortlist.                                                         *)

\* Tuples of three are compared by their first, second and third items.
LEMMA ThreeKeys ==
  ASSUME NEW s, NEW t, Len(s) = 3
  PROVE  Precedes(s, t) <=> \/ s[1] < t[1]
                            \/ s[2] < t[2] /\ s[1] = t[1]
                            \/ s[3] < t[3] /\ s[1] = t[1] /\ s[2] = t[2]
<1>1. 1..3 = {1, 2, 3} /\ 1..(1 - 1) = {} /\ 1..(2 - 1) = {1} /\ 1..(3 - 1) = {1, 2}
  OBVIOUS
<1>2. Precedes(s, t) <=> \E i \in {1, 2, 3} : s[i] < t[i] /\ \A j \in 1..(i - 1) : s[j] = t[j]
  BY <1>1 DEF Precedes
<1> QED
  BY <1>1, <1>2

\* ... and tuples of four by the fourth too.
LEMMA FourKeys ==
  ASSUME NEW s, NEW t, Len(s) = 4
  PROVE  Precedes(s, t) <=> \/ s[1] < t[1]
                            \/ s[2] < t[2] /\ s[1] = t[1]
                            \/ s[3] < t[3] /\ s[1] = t[1] /\ s[2] = t[2]
                            \/ s[4] < t[4] /\ s[1] = t[1] /\ s[2] = t[2] /\ s[3] = t[3]
<1>1. /\ 1..4 = {1, 2, 3, 4} /\ 1..(1 - 1) = {} /\ 1..(2 - 1) = {1}
      /\ 1..(3 - 1) = {1, 2} /\ 1..(4 - 1) = {1, 2, 3}
  OBVIOUS
<1>2. Precedes(s, t) <=> \E i \in {1, 2, 3, 4} : s[i] < t[i] /\ \A j \in 1..(i - 1) : s[j] = t[j]
  BY <1>1 DEF Precedes
<1> QED
  BY <1>1, <1>2

\* The keys order S: any two differ, and so does no item from itself.
Sorted(S, key) ==
  /\ \A x, y \in S : x = y \/ Precedes(key[x], key[y]) \/ Precedes(key[y], key[x])
  /\ \A x, y, z \in S :
       Precedes(key[x], key[y]) /\ Precedes(key[y], key[z]) => Precedes(key[x], key[z])
  /\ \A x \in S : ~Precedes(key[x], key[x])

\* Each sort key orders the vacancies: what ties in scores and dates is decided by the
\* primary key.
LEMMA ShortlistSorts ==
  ASSUME NEW candidate \in Profiles, NEW S \in SUBSET Vacancies,
         \A job \in S : ~Unscorable(job), \A a, b \in S : a.id = b.id => a = b,
         NEW sort \in {"match", "newest", "visa"}
  PROVE  Sorted(S, [job \in S |-> SortKey(candidate, job, sort)])
<1> DEFINE total(x) == -Total(candidate, x)
           visa(x) == -VisaScore(candidate, x)
           posted(x) == -x.posted
           key == [job \in S |-> SortKey(candidate, job, sort)]
<1>1. \A x \in S : total(x) \in Int /\ visa(x) \in Int /\ posted(x) \in Int /\ x.id \in Int
  <2> SUFFICES ASSUME NEW x \in S
               PROVE  total(x) \in Int /\ visa(x) \in Int /\ posted(x) \in Int /\ x.id \in Int
    OBVIOUS
  <2>1. Total(candidate, x) \in Score /\ VisaScore(candidate, x) \in Score
    BY TotalScored, VisaScored
  <2>2. x.posted \in Nat /\ x.id \in Nat
    BY DEF Vacancies
  <2>3. Total(candidate, x) \in Int /\ VisaScore(candidate, x) \in Int
    <3>1. \A v \in Score : v \in Int
      BY DEF Score
    <3> QED
      BY <2>1, <3>1
  <2> QED
    BY <2>2, <2>3
<1>2. CASE sort = "newest"
  <2>1. \A x \in S : key[x] = <<posted(x), total(x), x.id>>
    BY <1>2 DEF SortKey
  <2>2. \A x \in S : /\ Len(key[x]) = 3
                      /\ key[x][1] = posted(x)
                      /\ key[x][2] = total(x) /\ key[x][3] = x.id
    BY <2>1
  <2> HIDE DEF key, posted, total
  <2>3. \A x, y \in S : Precedes(key[x], key[y])
          <=> \/ posted(x) < posted(y)
              \/ total(x) < total(y) /\ posted(x) = posted(y)
              \/ x.id < y.id /\ posted(x) = posted(y) /\ total(x) = total(y)
    BY <2>2, ThreeKeys
  <2> QED
    BY <1>1, <2>3 DEF Sorted, key
<1>3. CASE sort = "match"
  <2>1. \A x \in S : key[x] = <<total(x), posted(x), x.id>>
    BY <1>3 DEF SortKey
  <2>2. \A x \in S : /\ Len(key[x]) = 3
                      /\ key[x][1] = total(x)
                      /\ key[x][2] = posted(x) /\ key[x][3] = x.id
    BY <2>1
  <2> HIDE DEF key, total, posted
  <2>3. \A x, y \in S : Precedes(key[x], key[y])
          <=> \/ total(x) < total(y)
              \/ posted(x) < posted(y) /\ total(x) = total(y)
              \/ x.id < y.id /\ total(x) = total(y) /\ posted(x) = posted(y)
    BY <2>2, ThreeKeys
  <2> QED
    BY <1>1, <2>3 DEF Sorted, key
<1>4. CASE sort = "visa"
  <2>1. \A x \in S : key[x] = <<visa(x), total(x), posted(x), x.id>>
    BY <1>4 DEF SortKey
  <2>2. \A x \in S : /\ Len(key[x]) = 4
                      /\ key[x][1] = visa(x)
                      /\ key[x][2] = total(x)
                      /\ key[x][3] = posted(x) /\ key[x][4] = x.id
    BY <2>1
  <2> HIDE DEF key, visa, total, posted
  <2>3. \A x, y \in S : Precedes(key[x], key[y])
          <=> \/ visa(x) < visa(y)
              \/ total(x) < total(y) /\ visa(x) = visa(y)
              \/ posted(x) < posted(y) /\ visa(x) = visa(y) /\ total(x) = total(y)
              \/ x.id < y.id /\ visa(x) = visa(y) /\ total(x) = total(y) /\ posted(x) = posted(y)
    BY <2>2, FourKeys
  <2> QED
    BY <1>1, <2>3 DEF Sorted, key
<1> QED
  BY <1>2, <1>3, <1>4

\* The vacancies before x.
Ahead(S, key, x) == {y \in S : Precedes(key[y], key[x])}

\* The vacancy in the k-th place.
Item(S, key, k) == CHOOSE x \in S : Cardinality(Ahead(S, key, x)) = k - 1

\* The places from 1 to their number hold the vacancies once each, in order.
LEMMA ItemFacts ==
  ASSUME NEW S, IsFiniteSet(S), NEW key, Sorted(S, key)
  PROVE  /\ Cardinality(S) \in Nat
         /\ \A k \in 1..Cardinality(S) : Item(S, key, k) \in S
         /\ \A x \in S : \E k \in 1..Cardinality(S) : Item(S, key, k) = x
         /\ \A j, k \in 1..Cardinality(S) :
              j < k => Precedes(key[Item(S, key, j)], key[Item(S, key, k)])
<1> DEFINE r == [x \in S |-> Cardinality(Ahead(S, key, x))]
           n == Cardinality(S)
<1>1. n \in Nat
  BY FS_CardinalityType
<1>2. ASSUME NEW b \in S
      PROVE  /\ IsFiniteSet(Ahead(S, key, b)) /\ r[b] \in Nat /\ r[b] <= n - 1
  <2>1. Ahead(S, key, b) \in SUBSET (S \ {b})
    BY DEF Ahead, Sorted
  <2>2. IsFiniteSet(S \ {b}) /\ Cardinality(S \ {b}) = n - 1
    BY <1>1, FS_RemoveElement
  <2> QED
    BY <2>1, <2>2, FS_Subset, FS_CardinalityType
<1>3. ASSUME NEW a \in S, NEW b \in S, Precedes(key[a], key[b])
      PROVE  r[a] < r[b]
  <2>1. a \notin Ahead(S, key, a) /\ Ahead(S, key, a) \cup {a} \in SUBSET Ahead(S, key, b)
    BY <1>3 DEF Ahead, Sorted
  <2>2. Cardinality(Ahead(S, key, a) \cup {a}) = r[a] + 1
    BY <1>2, <2>1, FS_AddElement
  <2> QED
    BY <1>2, <2>1, <2>2, FS_Subset
<1>4. \A x \in S : r[x] \in 0..(n - 1) /\ r[x] \in Nat
  BY <1>1, <1>2
<1>5. \A a, b \in S : r[a] = r[b] => a = b
  BY <1>3, <1>4 DEF Sorted
<1>6. r \in [S -> 0..(n - 1)]
  BY <1>4
<1>7. \A x \in S : r[x] = Cardinality(Ahead(S, key, x))
  OBVIOUS
<1> HIDE DEF r
<1>8. r \in Surjection(S, 0..(n - 1))
  <2>1. IsFiniteSet(0..(n - 1)) /\ Cardinality(0..(n - 1)) = n
    BY <1>1, FS_Interval
  <2>2. r \in Injection(S, 0..(n - 1))
    BY <1>5, <1>6 DEF Injection, IsInjective
  <2> QED
    BY <2>1, <2>2, FS_Injection
<1>9. \A k \in 1..n : Item(S, key, k) \in S /\ r[Item(S, key, k)] = k - 1
  <2> SUFFICES ASSUME NEW k \in 1..n
               PROVE  Item(S, key, k) \in S /\ r[Item(S, key, k)] = k - 1
    OBVIOUS
  <2>1. k - 1 \in 0..(n - 1)
    BY <1>1
  <2>2. PICK x \in S : r[x] = k - 1
    BY <1>8, <2>1 DEF Surjection
  <2>3. Item(S, key, k) \in S /\ Cardinality(Ahead(S, key, Item(S, key, k))) = k - 1
    BY <1>7, <2>2 DEF Item
  <2> QED
    BY <1>7, <2>3
<1>10. \A x \in S : \E k \in 1..n : Item(S, key, k) = x
  <2> SUFFICES ASSUME NEW x \in S
               PROVE  \E k \in 1..n : Item(S, key, k) = x
    OBVIOUS
  <2>1. r[x] + 1 \in 1..n /\ (r[x] + 1) - 1 = r[x]
    BY <1>1, <1>4
  <2>2. Item(S, key, r[x] + 1) \in S /\ r[Item(S, key, r[x] + 1)] = r[x]
    BY <1>9, <2>1
  <2> QED
    BY <1>5, <2>1, <2>2
<1>11. ASSUME NEW j \in 1..n, NEW k \in 1..n, j < k
       PROVE  Precedes(key[Item(S, key, j)], key[Item(S, key, k)])
  <2> DEFINE x == Item(S, key, j)
             y == Item(S, key, k)
  <2>1. x \in S /\ y \in S /\ r[x] = j - 1 /\ r[y] = k - 1
    BY <1>9
  <2> HIDE DEF x, y
  <2>2. r[x] < r[y]
    BY <1>1, <1>11, <2>1
  <2>3. x # y /\ ~Precedes(key[y], key[x])
    BY <1>3, <1>4, <2>1, <2>2
  <2>4. Precedes(key[x], key[y])
    BY <2>1, <2>3 DEF Sorted
  <2> QED
    BY <2>4 DEF x, y
<1> QED
  BY <1>1, <1>9, <1>10, <1>11

\* The items of a slice.
LEMMA Slice ==
  ASSUME NEW s, NEW m \in Nat, NEW n \in Nat
  PROVE  SubSeq(s, m, n) = [i \in 1..(1 + n - m) |-> s[i + m - 1]]
BY DEF SubSeq

\* What _rank_recommendations sorts by.
Keys(candidate, jobs, query) ==
  [job \in Qualifying(candidate, jobs, query) |-> SortKey(candidate, job, query.sort)]

\* What qualifies is finite, can be scored and is ordered by its keys.
LEMMA QualifyingFacts ==
  ASSUME NEW candidate \in Profiles, NEW jobs \in SUBSET Vacancies, IsFiniteSet(jobs),
         \A a, b \in jobs : a.id = b.id => a = b,
         NEW query \in Queries, Servable(jobs, query)
  PROVE  LET all == Qualifying(candidate, jobs, query)
         IN  /\ all \in SUBSET Vacancies /\ IsFiniteSet(all)
             /\ \A job \in all : ~Unscorable(job)
             /\ Sorted(all, Keys(candidate, jobs, query))
<1> DEFINE all == Qualifying(candidate, jobs, query)
<1>1. all \in SUBSET jobs /\ \A job \in all : ~Unscorable(job)
  BY DEF Qualifying, Selected, Servable
<1>2. query.sort \in {"match", "newest", "visa"}
  BY DEF Queries
<1>3. IsFiniteSet(all)
  BY <1>1, FS_Subset
<1>4. Keys(candidate, jobs, query) = [job \in all |-> SortKey(candidate, job, query.sort)]
  BY DEF Keys
<1> HIDE DEF all
<1>5. Sorted(all, [job \in all |-> SortKey(candidate, job, query.sort)])
  BY <1>1, <1>2, ShortlistSorts
<1> QED
  BY <1>1, <1>3, <1>4, <1>5 DEF all

LEMMA ListIsSequence ==
  ASSUME NEW S, NEW m \in Nat, NEW list \in [1..m -> S]
  PROVE  list \in Seq(S)
OBVIOUS

\* A page holds the places that follow its offset, as many as there are up to limit:
\* to rank only the best offset + limit does not change them.
LEMMA PageIs ==
  ASSUME NEW candidate \in Profiles, NEW jobs \in SUBSET Vacancies, IsFiniteSet(jobs),
         NEW query, query.offset \in Nat, query.limit \in Nat
  PROVE  LET all == Qualifying(candidate, jobs, query)
             key == Keys(candidate, jobs, query)
             from == query.offset
             page == Page(candidate, jobs, query)
             n == Lower(from + query.limit, Cardinality(all)) - from
         IN  DOMAIN page = 1..n /\ \A i \in 1..n : page[i] = Item(all, key, from + i)
<1> DEFINE all == Qualifying(candidate, jobs, query)
           key == Keys(candidate, jobs, query)
           from == query.offset
           limit == query.limit
           ranked == NSmallest(from + limit, key)
<1>1. IsFiniteSet(all)
  <2>1. all \in SUBSET jobs
    BY DEF Qualifying, Selected
  <2> QED
    BY <2>1, FS_Subset
<1>2. DOMAIN key = all
  BY DEF Keys
<1> DEFINE m == Lower(from + limit, Cardinality(all))
<1>3. Page(candidate, jobs, query)
        = SubSeq(ranked, from + 1, Lower(Len(ranked), from + limit))
  BY DEF Page, Ranked, Keys
<1>4. from \in Nat /\ limit \in Nat
  OBVIOUS
<1> HIDE DEF all, key, from, limit
<1>5. m \in Nat /\ m <= from + limit
  BY <1>1, <1>4, FS_CardinalityType DEF Lower
<1>6. ranked = [k \in 1..m |-> Item(all, key, k)]
  BY <1>2 DEF NSmallest, Item, Ahead
<1> HIDE DEF m, ranked
<1>7. Len(ranked) = m
  BY <1>5, <1>6
<1>8. Lower(Len(ranked), from + limit) = m
  BY <1>4, <1>5, <1>7 DEF Lower
<1>9. SubSeq(ranked, from + 1, m) = [i \in 1..(1 + m - (from + 1)) |-> ranked[i + (from + 1) - 1]]
  <2>1. from + 1 \in Nat
    BY <1>4
  <2> QED
    BY <1>5, <2>1, Slice
<1>10. 1 + m - (from + 1) = m - from
  BY <1>4, <1>5
<1>11. \A i \in 1..(m - from) : ranked[i + (from + 1) - 1] = Item(all, key, from + i)
  <2> SUFFICES ASSUME NEW i \in 1..(m - from)
               PROVE  ranked[i + (from + 1) - 1] = Item(all, key, from + i)
    OBVIOUS
  <2>1. i + (from + 1) - 1 = from + i /\ from + i \in 1..m
    BY <1>4, <1>5
  <2> QED
    BY <1>6, <2>1
<1> DEFINE page == SubSeq(ranked, from + 1, m)
<1>12. DOMAIN page = 1..(m - from)
       /\ \A i \in 1..(m - from) : page[i] = Item(all, key, from + i)
  BY <1>9, <1>10, <1>11
<1>13. Page(candidate, jobs, query) = page
  BY <1>3, <1>8
<1> HIDE DEF page
<1> QED
  BY <1>12, <1>13 DEF all, key, from, limit, m

\* The places of the pages are numbered through.
LEMMA PlacesNumbered ==
  ASSUME NEW N \in Nat, NEW L \in Nat \ {0}
  PROVE  LET P == {at \in (0..N) \X (1..L) : at[1] * L + at[2] <= N}
         IN  /\ Cardinality(P) = N
             /\ \A m \in 1..N : \E at \in P : at[1] * L + at[2] = m
             /\ \A at \in P : at[1] * L + at[2] \in 1..N
             /\ \A a, b \in P : a[1] < b[1] \/ (a[1] = b[1] /\ a[2] < b[2])
                                  => a[1] * L + a[2] < b[1] * L + b[2]
<1> DEFINE P == {at \in (0..N) \X (1..L) : at[1] * L + at[2] <= N}
           f == [at \in P |-> at[1] * L + at[2]]
<1>1. \A at \in P : at[1] \in Nat /\ at[1] \in 0..N /\ at[2] \in 1..L /\ at = <<at[1], at[2]>>
  OBVIOUS
<1>2. \A at \in P : at[1] * L \in Nat /\ at[2] \in Nat
  BY <1>1
<1>3. \A at \in P : f[at] \in 1..N /\ f[at] = at[1] * L + at[2]
  BY <1>1, <1>2
<1>4. ASSUME NEW a \in P, NEW b \in P, a[1] < b[1]
      PROVE  f[a] < f[b]
  <2> DEFINE x == a[1]
             y == b[1]
  <2>1. x \in Nat /\ y \in Nat /\ x + 1 <= y /\ a[2] \in 1..L /\ b[2] \in 1..L
    BY <1>1, <1>4
  <2>2. f[a] = x * L + a[2] /\ f[b] = y * L + b[2]
    BY <1>3
  <2> HIDE DEF x, y, f
  <2>3. x * L + L <= y * L /\ x * L \in Nat /\ y * L \in Nat
    BY <2>1
  <2> QED
    BY <2>1, <2>2, <2>3
<1>5. ASSUME NEW a \in P, NEW b \in P, a[1] = b[1], a[2] < b[2]
      PROVE  f[a] < f[b]
  BY <1>1, <1>2, <1>3, <1>5
<1>6. \A a, b \in P : f[a] = f[b] => a = b
  <2> SUFFICES ASSUME NEW a \in P, NEW b \in P, f[a] = f[b]
               PROVE  a = b
    OBVIOUS
  <2>1. a[1] \in Nat /\ b[1] \in Nat /\ a[2] \in Nat /\ b[2] \in Nat /\ f[a] \in Nat
    BY <1>1, <1>2, <1>3
  <2>2. ~(a[1] < b[1]) /\ ~(b[1] < a[1])
    BY <1>4, <2>1
  <2>3. a[1] = b[1]
    BY <2>1, <2>2
  <2>4. ~(a[2] < b[2]) /\ ~(b[2] < a[2])
    BY <1>5, <2>1, <2>3
  <2>5. a[2] = b[2]
    BY <2>1, <2>4
  <2> QED
    BY <1>1, <2>3, <2>5
<1>7. ASSUME NEW m \in 1..N
      PROVE  \E at \in P : f[at] = m
  <2> DEFINE k == m - 1
             q == k \div L
             r == k % L
  <2>1. k \in Nat
    OBVIOUS
  <2> HIDE DEF k
  <2>2. q \in Int /\ r \in 0..(L - 1) /\ k = L * q + r
    BY <2>1
  <2> HIDE DEF q, r
  <2>3. q >= 0
    <3>1. ASSUME q <= -1 PROVE L * q <= -L
      BY <2>2, <3>1
    <3> QED
      BY <2>1, <2>2, <3>1
  <2>4. q <= L * q
    BY <2>2, <2>3
  <2>5. q * L = L * q /\ q * L \in Nat
    BY <2>2, <2>3
  <2>6. k <= N /\ m = k + 1
    BY DEF k
  <2>7. q \in 0..N /\ r + 1 \in 1..L /\ q * L + (r + 1) = m
    BY <2>1, <2>2, <2>3, <2>4, <2>5, <2>6
  <2>8. <<q, r + 1>> \in P
    BY <2>7
  <2> QED
    BY <2>7, <2>8
<1>8. Cardinality(P) = N
  <2>1. f \in [P -> 1..N]
    BY <1>3
  <2> HIDE DEF f, P
  <2>2. f \in Bijection(P, 1..N)
    BY <1>6, <1>7, <2>1 DEF Bijection, Injection, Surjection, IsInjective
  <2>3. IsFiniteSet(1..N) /\ Cardinality(1..N) = N
    BY FS_Interval
  <2>4. ExistsBijection(P, 1..N) /\ ExistsBijection(1..N, P)
    BY <2>2, Fun_ExistsBijSymmetric DEF ExistsBijection
  <2> QED
    BY <2>3, <2>4, FS_Bijection
<1> QED
  BY <1>3, <1>4, <1>5, <1>7, <1>8

\* Leafing through in steps of the limit shows what qualifies, once and in order.
LEMMA PagesLeaf ==
  ASSUME NEW candidate \in Profiles, NEW jobs \in SUBSET Vacancies, IsFiniteSet(jobs),
         \A a, b \in jobs : a.id = b.id => a = b,
         NEW query \in Queries, Servable(jobs, query)
  PROVE  LeafsThrough(candidate, jobs, query)
<1> DEFINE all == Qualifying(candidate, jobs, query)
           N == Cardinality(all)
           L == query.limit
           key == Keys(candidate, jobs, query)
           Moved(n) == [query EXCEPT !.offset = n * query.limit]
           PageAt == [n \in 0..N |-> Page(candidate, jobs, Moved(n))]
           Key(at) == SortKey(candidate, PageAt[at[1]][at[2]], query.sort)
           Places == UNION {{n} \X DOMAIN PageAt[n] : n \in DOMAIN PageAt}
           P == {at \in (0..N) \X (1..L) : at[1] * L + at[2] <= N}
           Nth(at) == at[1] * L + at[2]
<1>1. /\ all \in SUBSET Vacancies /\ IsFiniteSet(all)
      /\ \A job \in all : ~Unscorable(job)
      /\ Sorted(all, key)
  BY QualifyingFacts
<1>2. L \in Nat \ {0} /\ L \in Nat
  BY DEF Queries
<1>3. \A x \in all : key[x] = SortKey(candidate, x, query.sort)
  BY DEF Keys
<1>4. /\ N \in Nat
      /\ \A k \in 1..N : Item(all, key, k) \in all
      /\ \A x \in all : \E k \in 1..N : Item(all, key, k) = x
      /\ \A j, k \in 1..N : j < k => Precedes(key[Item(all, key, j)], key[Item(all, key, k)])
  <2> HIDE DEF all, key
  <2> QED
    BY <1>1, ItemFacts
<1>5. ASSUME NEW n \in 0..N
      PROVE  /\ DOMAIN PageAt[n] = 1..(Lower(n * L + L, N) - n * L)
             /\ \A j \in 1..(Lower(n * L + L, N) - n * L) :
                  PageAt[n][j] = Item(all, key, n * L + j)
  <2> DEFINE q == Moved(n)
  <2>1. /\ q.offset = n * L /\ q.limit = L /\ q.sort = query.sort
        /\ q.include_unknown = query.include_unknown /\ q.country = query.country
        /\ q.family = query.family /\ q.min_score = query.min_score
    BY DEF Queries
  <2>2. PageAt[n] = Page(candidate, jobs, q)
    OBVIOUS
  <2>3. q.offset \in Nat /\ q.limit \in Nat
    BY <1>2, <1>4, <2>1
  <2> HIDE DEF q, PageAt
  <2>4. Qualifying(candidate, jobs, q) = all
    BY <2>1 DEF Qualifying, Selected
  <2>5. Keys(candidate, jobs, q) = key
    BY <2>1, <2>4 DEF Keys
  <2>6. LET page == Page(candidate, jobs, q)
            m == Lower(q.offset + q.limit, Cardinality(Qualifying(candidate, jobs, q))) - q.offset
        IN  /\ DOMAIN page = 1..m
            /\ \A i \in 1..m :
                 page[i] = Item(Qualifying(candidate, jobs, q), Keys(candidate, jobs, q),
                                q.offset + i)
    BY <2>3, PageIs
  <2> HIDE DEF all, key, L
  <2> QED
    BY <2>1, <2>2, <2>4, <2>5, <2>6 DEF N
<1>6. DOMAIN PageAt = 0..N
  OBVIOUS
<1> HIDE DEF all, N, L, key, PageAt
<1>7. Places = P
  <2>1. ASSUME NEW n \in 0..N, NEW j
        PROVE  j \in DOMAIN PageAt[n] <=> j \in 1..L /\ n * L + j <= N
    <3> DEFINE x == n * L
    <3>1. x \in Nat
      BY <1>2, <1>4
    <3>2. DOMAIN PageAt[n] = 1..(Lower(x + L, N) - x)
      BY <1>5
    <3> HIDE DEF x
    <3>3. j \in 1..(Lower(x + L, N) - x) <=> j \in 1..L /\ x + j <= N
      BY <1>2, <1>4, <3>1 DEF Lower
    <3> QED
      BY <3>2, <3>3 DEF x
  <2> QED
    BY <1>6, <2>1
<1>8. /\ Cardinality(P) = N
      /\ \A m \in 1..N : \E at \in P : Nth(at) = m
      /\ \A at \in P : Nth(at) \in 1..N
      /\ \A a, b \in P : a[1] < b[1] \/ (a[1] = b[1] /\ a[2] < b[2]) => Nth(a) < Nth(b)
  BY <1>2, <1>4, PlacesNumbered
<1>9. \A at \in P : PageAt[at[1]][at[2]] = Item(all, key, Nth(at))
  <2> SUFFICES ASSUME NEW at \in P
               PROVE  PageAt[at[1]][at[2]] = Item(all, key, Nth(at))
    OBVIOUS
  <2>1. at[1] \in 0..N /\ at[2] \in DOMAIN PageAt[at[1]]
    BY <1>6, <1>7
  <2> QED
    BY <1>5, <2>1
<1> HIDE DEF P, Nth, Places
<1>10. {PageAt[at[1]][at[2]] : at \in P} = all
  BY <1>4, <1>8, <1>9
<1>11. ASSUME NEW a \in P, NEW b \in P, a[1] < b[1] \/ (a[1] = b[1] /\ a[2] < b[2])
       PROVE  Precedes(Key(a), Key(b))
  <2>1. Nth(a) \in 1..N /\ Nth(b) \in 1..N /\ Nth(a) < Nth(b)
    BY <1>8, <1>11
  <2>2. Precedes(key[Item(all, key, Nth(a))], key[Item(all, key, Nth(b))])
    BY <1>4, <2>1
  <2>3. Key(a) = key[Item(all, key, Nth(a))] /\ Key(b) = key[Item(all, key, Nth(b))]
    BY <1>3, <1>4, <1>9, <2>1
  <2> QED
    BY <2>2, <2>3
<1>12. Listed(candidate, jobs, query).count = N
  BY DEF Listed, N, all
<1> HIDE DEF Key
<1>13. /\ Cardinality(Places) = Cardinality(all)
       /\ {PageAt[at[1]][at[2]] : at \in Places} = all
       /\ \A a, b \in Places :
            a[1] < b[1] \/ (a[1] = b[1] /\ a[2] < b[2]) => Precedes(Key(a), Key(b))
       /\ Listed(candidate, jobs, query).count = Cardinality(all)
  BY <1>7, <1>8, <1>10, <1>11, <1>12 DEF N
<1> QED
  BY <1>13 DEF LeafsThrough, all, N, PageAt, Key, Places

\* A page that is sent holds ids, and scores that are percentages.
LEMMA ListedTyped ==
  ASSUME NEW candidate \in Profiles, NEW jobs \in SUBSET Vacancies, IsFiniteSet(jobs),
         \A a, b \in jobs : a.id = b.id => a = b,
         NEW query \in Queries, Servable(jobs, query)
  PROVE  Listed(candidate, jobs, query) \in Shortlist
<1> DEFINE all == Qualifying(candidate, jobs, query)
           key == Keys(candidate, jobs, query)
           page == Page(candidate, jobs, query)
           from == query.offset
           n == Lower(from + query.limit, Cardinality(all)) - from
<1>1. /\ all \in SUBSET Vacancies /\ IsFiniteSet(all)
      /\ \A job \in all : ~Unscorable(job)
      /\ Sorted(all, key)
  BY QualifyingFacts
<1>2. from \in Nat /\ query.limit \in Nat
  BY DEF Queries
<1>3. DOMAIN page = 1..n /\ \A i \in 1..n : page[i] = Item(all, key, from + i)
  BY <1>2, PageIs
<1> HIDE DEF all, key, page
<1>4. /\ Cardinality(all) \in Nat
      /\ \A k \in 1..Cardinality(all) : Item(all, key, k) \in all
  BY <1>1, ItemFacts
<1>5. n \in Int /\ n <= Cardinality(all) - from
  BY <1>2, <1>4 DEF Lower
<1> DEFINE m == IF n >= 0 THEN n ELSE 0
<1>6. m \in Nat /\ DOMAIN page = 1..m
  BY <1>3, <1>5
<1>7. \A i \in 1..m : page[i] \in all
  BY <1>2, <1>3, <1>4, <1>5
<1> HIDE DEF from, n, m
<1>8. \A i \in 1..m : /\ page[i].id \in Nat
                      /\ Total(candidate, page[i]) \in Score
                      /\ CompanyScore(page[i]) \in Score
  <2> SUFFICES ASSUME NEW i \in 1..m
               PROVE  /\ page[i].id \in Nat
                      /\ Total(candidate, page[i]) \in Score
                      /\ CompanyScore(page[i]) \in Score
    OBVIOUS
  <2>1. page[i] \in Vacancies /\ ~Unscorable(page[i])
    BY <1>1, <1>7
  <2>2. page[i].id \in Nat
    BY <2>1 DEF Vacancies
  <2> QED
    BY <2>1, <2>2, TotalScored, CompanyScored
<1>9. /\ [k \in 1..m |-> page[k].id] \in Seq(Nat)
      /\ [k \in 1..m |-> Total(candidate, page[k])] \in Seq(Score)
      /\ [k \in 1..m |-> CompanyScore(page[k])] \in Seq(Score)
  <2> DEFINE ids == [k \in 1..m |-> page[k].id]
             totals == [k \in 1..m |-> Total(candidate, page[k])]
             companies == [k \in 1..m |-> CompanyScore(page[k])]
  <2>1. ids \in [1..m -> Nat] /\ totals \in [1..m -> Score] /\ companies \in [1..m -> Score]
    BY <1>8
  <2> HIDE DEF ids, totals, companies
  <2>2. ids \in Seq(Nat) /\ totals \in Seq(Score) /\ companies \in Seq(Score)
    BY <1>6, <2>1, ListIsSequence
  <2> QED
    BY <2>2 DEF ids, totals, companies
<1>10. Listed(candidate, jobs, query)
         = [page |-> [k \in 1..m |-> page[k].id],
            totals |-> [k \in 1..m |-> Total(candidate, page[k])],
            companies |-> [k \in 1..m |-> CompanyScore(page[k])],
            count |-> Cardinality(all)]
  BY <1>6 DEF Listed, page, all
<1> QED
  BY <1>4, <1>9, <1>10 DEF Shortlist

-------------------------------------------------------------------------------
(* What is answered.                                                       *)

\* What is answered is a page, of a shortlist that can be leafed through, or nothing.
LEMMA ServedFacts ==
  ASSUME NEW c \in Content, NEW k \in Catalog, NEW query \in Query
  PROVE  /\ Served[c][k][query] = None \/ Served[c][k][query] \in Shortlist
         /\ Served[c][k][query] # None => [content |-> c, catalog |-> k, query |-> query] \in Leafable
<1>1. /\ Says[c] \in Profiles /\ Jobs[k] \in SUBSET Vacancies /\ IsFiniteSet(Jobs[k])
      /\ \A a, b \in Jobs[k] : a.id = b.id => a = b
      /\ query \in Queries
  BY CandidateApiAssumption
<1>2. Served[c][k][query]
        = IF Servable(Jobs[k], query) THEN Listed(Says[c], Jobs[k], query) ELSE None
  BY DEF Served
<1>3. CASE ~Servable(Jobs[k], query)
  BY <1>2, <1>3
<1>4. CASE Servable(Jobs[k], query)
  <2>1. Listed(Says[c], Jobs[k], query) \in Shortlist /\ LeafsThrough(Says[c], Jobs[k], query)
    BY <1>1, <1>4, ListedTyped, PagesLeaf
  <2>2. <<c, k, query>> \in {at \in Content \X Catalog \X Query :
                              /\ Servable(Jobs[at[2]], at[3])
                              /\ LeafsThrough(Says[at[1]], Jobs[at[2]], at[3])}
    BY <1>4, <2>1
  <2>3. [content |-> c, catalog |-> k, query |-> query] \in Leafable
    BY <2>2 DEF Leafable
  <2> QED
    BY <1>2, <1>4, <2>1, <2>3
<1> QED
  BY <1>3, <1>4

\* The responses.
Sent ==
  sent \in [from : Request, status : {"ok", "not_found", "error", "busy"},
            result : Shortlist \cup Exported \cup {None}] \cup {None}

\* Every handler's response has its type.
LEMMA SentStep == StateTyped /\ Sent /\ [Next]_vars => Sent'
<1> SUFFICES ASSUME StateTyped, Sent, [Next]_vars PROVE Sent'
  OBVIOUS
<1>1. ASSUME NEW r \in Request, NEW status \in {"ok", "not_found", "error", "busy"},
             NEW result \in Shortlist \cup Exported \cup {None},
             sent' = Response(r, status, result)
      PROVE  Sent'
  BY <1>1 DEF Response, Sent
<1>2. ASSUME sent' = None
      PROVE  Sent'
  BY <1>2 DEF Sent
<1>3. ASSUME NEW r \in Request, Handle(r)
      PROVE  Sent'
  <2>1. CASE Refuse(r) \/ Busy(r)
    <3>1. sent' = Response(r, "not_found", None) \/ sent' = Response(r, "busy", None)
      BY <2>1 DEF Refuse, Busy, Reply
    <3> QED
      BY <1>1, <3>1
  <2>2. CASE Export(r)
    <3> DEFINE states == {row[k] : k \in RowsOf(request[r].id)}
    <3>1. request[r].read \in Content
      BY <2>2 DEF Export, StateTyped, Working
    <3>2. states \in SUBSET Row
      BY DEF RowsOf, Taken, StateTyped
    <3>3. sent' = Response(r, "ok", [candidate |-> request[r].read, states |-> states])
      BY <2>2 DEF Export, Reply
    <3> HIDE DEF states
    <3>4. [candidate |-> request[r].read, states |-> states] \in Exported
      BY <3>1, <3>2 DEF Exported
    <3> QED
      BY <1>1, <3>3, <3>4
  <2>3. CASE Recommend(r)
    <3> DEFINE answer == Served[request[r].read][catalog][request[r].input]
    <3>1. request[r].read \in Content /\ request[r].input \in Query /\ catalog \in Catalog
      BY <2>3 DEF Recommend, StateTyped, Working, Inputs
    <3>2. answer = None \/ answer \in Shortlist
      BY <3>1, ServedFacts
    <3>3. sent' = Response(r, IF answer = None THEN "error" ELSE "ok", answer)
      BY <2>3 DEF Recommend, Reply
    <3> HIDE DEF answer
    <3> QED
      BY <1>1, <3>2, <3>3
  <2>4. CASE (\E content \in Content : Create(r, content)) \/ Delete(r)
    <3>1. sent' = Response(r, "ok", None)
      BY <2>4 DEF Create, Delete, Commit
    <3> QED
      BY <1>1, <3>1
  <2>5. CASE Update(r) \/ Insert(r) \/ Replace(r) \/ Drop(r)
    <3>1. sent' = Response(r, "ok", None) \/ sent' = Response(r, "error", None)
      BY <2>5, Zenon DEF Update, Insert, Replace, Drop, Commit, Reply
    <3> QED
      BY <1>1, <3>1
  <2>6. CASE \/ Look(r)
             \/ \E kind \in Kinds, id \in Id, token \in 1..tokens :
                  \E input \in Inputs(kind) : Arrive(r, kind, id, token, input)
    <3>1. sent' = None
      BY <2>6, Zenon DEF Look, Arrive
    <3> QED
      BY <1>2, <3>1
  <2> QED
    BY <1>3, <2>1, <2>2, <2>3, <2>4, <2>5, <2>6 DEF Handle
<1>4. CASE Import \/ Restart
  BY <1>2, <1>4 DEF Import, Restart
<1>5. CASE UNCHANGED vars
  BY <1>5 DEF vars, Sent
<1> QED
  BY <1>3, <1>4, <1>5 DEF Next

\* Everything keeps its type, for any profiles, vacancies, weights and queries: what
\* is answered too, of which every score is a percentage.
THEOREM ApiTypeCorrect == Spec => []TypeOK
<1>1. Init => Sent
  BY DEF Init, Sent
<1>2. IInv /\ Sent => TypeOK
  BY DEF IInv, Sent, TypeOK
<1>3. IInv /\ Sent /\ [Next]_vars => Sent'
  BY SentStep DEF IInv
<1> QED
  BY <1>1, <1>2, <1>3, InitInv, StepInv, PTL DEF Spec

\* Pagination, for any weights, profiles, vacancies and queries the API accepts: the
\* pages of an unchanged shortlist show every vacancy that qualifies once, none before
\* a better one, however scores tie, and the count sent is theirs.
THEOREM PagesShow == Spec => PagesShowEachOnce
<1>1. ASSUME StateTyped, Next, NEW r \in Request, sent' # None, sent'.from = r,
             sent'.status = "ok", request[r] # None, request[r].kind = "recommend"
      PROVE  [content |-> request[r].read, catalog |-> catalog, query |-> request[r].input]
               \in Leafable
  <2>1. PICK s \in Request : Handle(s)
    BY <1>1 DEF Next, Import, Restart
  <2>2. s = r
    BY <1>1, <2>1, Answerer DEF Response
  <2>3. Recommend(r)
    <3>1. ~Refuse(r) /\ ~Busy(r)
      BY <1>1 DEF Refuse, Busy, Reply, Response
    <3> QED
      BY <1>1, <2>1, <2>2, <3>1 DEF Handle, Arrive, Create, Update, Delete, Export, Look,
         Insert, Replace, Drop
  <2> DEFINE answer == Served[request[r].read][catalog][request[r].input]
  <2>4. request[r].read \in Content /\ request[r].input \in Query /\ catalog \in Catalog
    BY <1>1, <2>3 DEF Recommend, StateTyped, Working, Inputs
  <2>5. sent' = Response(r, IF answer = None THEN "error" ELSE "ok", answer)
    BY <2>3 DEF Recommend, Reply
  <2> HIDE DEF answer
  <2>6. answer # None
    BY <1>1, <2>5 DEF Response
  <2> QED
    BY <2>4, <2>6, ServedFacts DEF answer
<1>2. StateTyped /\ [Next]_vars =>
        [\A r \in Request :
           sent' # None /\ sent'.from = r /\ sent'.status = "ok"
           /\ request[r] # None /\ request[r].kind = "recommend"
           => [content |-> request[r].read, catalog |-> catalog, query |-> request[r].input]
                \in Leafable]_vars
  BY <1>1
<1> QED
  BY <1>2, TablesTyped, PTL DEF Spec, PagesShowEachOnce
===============================================================================
