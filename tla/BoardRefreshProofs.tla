-------------------------- MODULE BoardRefreshProofs --------------------------
(***************************************************************************)
(* Proofs about the refresh of one board, for any number of jobs, any      *)
(* texts, any size of a page, and any changes of the provider's listing    *)
(* between two requests: that a 304 and a closure are justified, and that  *)
(* the store comes to what a board lists that changes no more.             *)
(***************************************************************************)
EXTENDS BoardRefresh, FiniteSetTheorems, FunctionTheorems, TLAPS

-------------------------------------------------------------------------------
(* Pages: the jobs of a listing, by their rank in its order, PageSize at a *)
(* time.                                                                   *)

LEMMA Division ==
  ASSUME NEW n \in Nat, NEW d \in Nat \ {0}
  PROVE  /\ n \div d \in Nat
         /\ d * (n \div d) <= n /\ n < d * (n \div d) + d
OBVIOUS

LEMMA DivisionMonotone ==
  ASSUME NEW m \in Nat, NEW n \in Nat, m <= n, NEW d \in Nat \ {0}
  PROVE  m \div d <= n \div d
<1> DEFINE a == m \div d
           b == n \div d
<1>1. a \in Nat /\ b \in Nat /\ d * a <= m /\ n < d * b + d
  BY Division
<1>2. d * a < d * (b + 1)
  BY <1>1
<1> HIDE DEF a, b
<1>3. a < b + 1
  <2>1. SUFFICES ASSUME a >= b + 1 PROVE FALSE
    BY <1>1
  <2>2. d * (b + 1) <= d * a
    BY <1>1, <2>1
  <2> QED
    BY <1>1, <1>2, <2>2
<1> QED
  BY <1>1, <1>3 DEF a, b

\* The ranks of the members of a finite set are 0, 1, ... without a gap.
LEMMA Ranks ==
  ASSUME NEW L, IsFiniteSet(L), NEW Ord, \A j \in L : Ord[j] \in Nat,
         \A i, j \in L : Ord[i] = Ord[j] => i = j
  PROVE  [j \in L |-> Cardinality({i \in L : Ord[i] < Ord[j]})]
           \in Bijection(L, 0..(Cardinality(L) - 1))
<1> DEFINE Below(j) == {i \in L : Ord[i] < Ord[j]}
           rank == [j \in L |-> Cardinality(Below(j))]
           n == Cardinality(L)
<1>1. n \in Nat
  BY FS_CardinalityType
<1>2. ASSUME NEW j \in L
      PROVE  Below(j) \in SUBSET L /\ IsFiniteSet(Below(j)) /\ Cardinality(Below(j)) \in Nat
  <2>1. Below(j) \in SUBSET L
    OBVIOUS
  <2> HIDE DEF Below
  <2> QED
    BY <2>1, FS_Subset, FS_CardinalityType
<1>3. ASSUME NEW S \in SUBSET L, NEW T \in SUBSET L, S \subseteq T, NEW x \in T, x \notin S
      PROVE  Cardinality(S) < Cardinality(T)
  <2>1. IsFiniteSet(T) /\ IsFiniteSet(S)
    BY FS_Subset
  <2>2. Cardinality(S) <= Cardinality(T) /\ Cardinality(T) # Cardinality(S)
    BY <1>3, <2>1, FS_Subset
  <2> QED
    BY <2>1, <2>2, FS_CardinalityType
<1>4. ASSUME NEW j \in L
      PROVE  Cardinality(Below(j)) < n
  <2>1. Below(j) \in SUBSET L /\ j \notin Below(j)
    OBVIOUS
  <2> HIDE DEF Below
  <2> QED
    BY <1>3, <2>1
<1>5. ASSUME NEW i \in L, NEW j \in L, Ord[i] < Ord[j]
      PROVE  Cardinality(Below(i)) < Cardinality(Below(j))
  <2>1. /\ Below(i) \in SUBSET L /\ Below(j) \in SUBSET L
        /\ Below(i) \subseteq Below(j) /\ i \in Below(j) /\ i \notin Below(i)
    BY <1>5
  <2> HIDE DEF Below
  <2> QED
    BY <1>3, <2>1
<1>6. rank \in [L -> 0..(n - 1)]
  <2> HIDE DEF Below, n
  <2> QED
    BY <1>1, <1>2, <1>4
<1>7. ASSUME NEW i \in L, NEW j \in L, i # j
      PROVE  rank[i] # rank[j]
  <2>1. Ord[i] < Ord[j] \/ Ord[j] < Ord[i]
    BY <1>7
  <2> HIDE DEF Below
  <2> QED
    BY <1>2, <1>5, <2>1
<1>8. rank \in Injection(L, 0..(n - 1))
  <2> HIDE DEF rank, n
  <2> QED
    BY <1>6, <1>7, Fun_IsInj
<1>9. rank \in Surjection(L, 0..(n - 1))
  <2>1. IsFiniteSet(0..(n - 1)) /\ Cardinality(0..(n - 1)) = n
    <3> HIDE DEF n
    <3> QED
      BY <1>1, FS_Interval
  <2> HIDE DEF rank
  <2> QED
    BY <1>8, <2>1, FS_Injection
<1> QED
  BY <1>6, <1>8, <1>9, Fun_IsBij

Rank(j) == Cardinality({i \in Listed : Order[i] < Order[j]})

LEMMA RankFacts ==
  ASSUME TypeOK
  PROVE  /\ Listed \subseteq Job /\ IsFiniteSet(Listed)
         /\ Cardinality(Listed) \in Nat /\ Cardinality(Job) \in Nat
         /\ Cardinality(Listed) <= Cardinality(Job)
         /\ \A j \in Listed : Rank(j) \in Nat /\ Rank(j) < Cardinality(Listed)
         /\ [j \in Listed |-> Rank(j)] \in Bijection(Listed, 0..(Cardinality(Listed) - 1))
<1>1. Listed \in SUBSET Job
  BY DEF Listed
<1>2. IsFiniteSet(Listed)
  BY <1>1, RefreshAssumption, FS_Subset
<1>3. Cardinality(Listed) \in Nat /\ Cardinality(Job) \in Nat
      /\ Cardinality(Listed) <= Cardinality(Job)
  BY <1>1, <1>2, RefreshAssumption, FS_Subset, FS_CardinalityType
<1>4. /\ \A j \in Listed : Order[j] \in Nat
      /\ \A i, j \in Listed : Order[i] = Order[j] => i = j
  BY <1>1, RefreshAssumption
<1> DEFINE rank == [j \in Listed |-> Rank(j)]
<1>5. rank \in Bijection(Listed, 0..(Cardinality(Listed) - 1))
  BY <1>2, <1>4, Ranks DEF Rank
<1>6. rank \in [Listed -> 0..(Cardinality(Listed) - 1)]
  BY <1>5, Fun_BijectionProperties DEF Bijection, Injection
<1>7. ASSUME NEW j \in Listed
      PROVE  Rank(j) \in Nat /\ Rank(j) < Cardinality(Listed)
  <2>1. rank[j] \in 0..(Cardinality(Listed) - 1) /\ rank[j] = Rank(j)
    <3>1. rank[j] = Rank(j)
      OBVIOUS
    <3> HIDE DEF rank
    <3> QED
      BY <1>6, <3>1
  <2> QED
    BY <1>3, <2>1
<1> QED
  BY <1>1, <1>2, <1>3, <1>5, <1>7

\* On which page a job is, by its rank.
LEMMA PageByRank ==
  ASSUME TypeOK, Paged, NEW j \in Listed
  PROVE  /\ PageOf(j) \in Nat \ {0}
         /\ PageSize * (PageOf(j) - 1) <= Rank(j) /\ Rank(j) < PageSize * PageOf(j)
<1>1. Rank(j) \in Nat /\ PageSize \in Nat \ {0}
  BY RankFacts, RefreshAssumption
<1>2. PageOf(j) = 1 + Rank(j) \div PageSize
  BY DEF PageOf, Rank
<1> DEFINE q == Rank(j) \div PageSize
<1>3. q \in Nat /\ PageSize * q <= Rank(j) /\ Rank(j) < PageSize * q + PageSize
  BY <1>1, Division
<1> HIDE DEF q
<1>4. PageOf(j) = 1 + q
  BY <1>2 DEF q
<1>5. PageSize * (1 + q) = PageSize * q + PageSize
  BY <1>1, <1>3
<1> QED
  BY <1>1, <1>3, <1>4, <1>5

\* Every page before one that has a job is full.
LEMMA FullPage ==
  ASSUME TypeOK, Paged, NEW p \in Nat \ {0}, NEW j \in Listed, PageOf(j) > p
  PROVE  Cardinality(OnPage(p)) = PageSize /\ PageSize * p < Cardinality(Listed)
<1> DEFINE lo == PageSize * (p - 1)
           hi == PageSize * p - 1
           ranks == 0..(Cardinality(Listed) - 1)
           rank == [i \in Listed |-> Rank(i)]
           onpage == [i \in OnPage(p) |-> Rank(i)]
<1>1. PageSize \in Nat \ {0} /\ lo \in Nat /\ hi \in Nat /\ hi = lo + PageSize - 1
  <2>1. PageSize \in Nat \ {0} /\ p - 1 \in Nat
    BY RefreshAssumption
  <2>2. PageSize * p = PageSize * (p - 1) + PageSize
    BY <2>1
  <2>3. PageSize * (p - 1) \in Nat
    BY <2>1
  <2> QED
    BY <2>1, <2>2, <2>3
<1>2. /\ Rank(j) \in Nat /\ Rank(j) < Cardinality(Listed) /\ Cardinality(Listed) \in Nat
      /\ rank \in Bijection(Listed, ranks)
  BY RankFacts
<1>3. PageSize * p <= Rank(j)
  <2>1. PageOf(j) \in Nat /\ PageOf(j) - 1 >= p /\ PageSize * (PageOf(j) - 1) <= Rank(j)
    BY PageByRank
  <2>2. PageSize * p <= PageSize * (PageOf(j) - 1)
    BY <1>1, <2>1
  <2> QED
    BY <1>1, <1>2, <2>1, <2>2
<1>4. hi < Cardinality(Listed)
  BY <1>1, <1>2, <1>3
<1>5. ASSUME NEW i \in Listed
      PROVE  i \in OnPage(p) <=> Rank(i) \in lo..hi
  <2>1. /\ PageOf(i) \in Nat \ {0} /\ Rank(i) \in Nat
        /\ PageSize * (PageOf(i) - 1) <= Rank(i) /\ Rank(i) < PageSize * PageOf(i)
    BY PageByRank, RankFacts
  <2>2. i \in OnPage(p) <=> PageOf(i) = p
    BY DEF OnPage
  <2>3. CASE PageOf(i) = p
    BY <1>1, <2>1, <2>2, <2>3
  <2>4. CASE PageOf(i) < p
    <3>1. PageOf(i) <= p - 1
      BY <2>1, <2>4
    <3>2. PageSize * PageOf(i) <= PageSize * (p - 1)
      BY <1>1, <2>1, <3>1
    <3> QED
      BY <1>1, <2>1, <2>2, <2>4, <3>2
  <2>5. CASE PageOf(i) > p
    <3>1. p <= PageOf(i) - 1
      BY <2>1, <2>5
    <3>2. PageSize * p <= PageSize * (PageOf(i) - 1)
      BY <1>1, <2>1, <3>1
    <3> QED
      BY <1>1, <2>1, <2>2, <2>5, <3>2
  <2> QED
    BY <2>1, <2>3, <2>4, <2>5
<1>6. OnPage(p) \subseteq Listed
  BY DEF OnPage
<1>7. /\ \A a, b \in Listed : rank[a] = rank[b] => a = b
      /\ \A t \in ranks : \E s \in Listed : rank[s] = t
  <2> HIDE DEF rank, ranks
  <2> QED
    BY <1>2, Fun_BijectionProperties
<1>8. \A i \in Listed : rank[i] = Rank(i)
  OBVIOUS
<1> HIDE DEF rank, lo, hi
<1>9. onpage \in [OnPage(p) -> lo..hi]
  BY <1>5, <1>6
<1>10. \A a, b \in OnPage(p) : onpage[a] = onpage[b] => a = b
  BY <1>6, <1>7, <1>8
<1>11. ASSUME NEW t \in lo..hi
       PROVE  \E s \in OnPage(p) : onpage[s] = t
  <2>1. t \in ranks
    BY <1>1, <1>2, <1>4
  <2>2. PICK s \in Listed : rank[s] = t
    BY <1>7, <2>1
  <2>3. s \in OnPage(p)
    BY <1>5, <1>8, <2>2
  <2> QED
    BY <1>8, <2>2, <2>3
<1>12. onpage \in Bijection(OnPage(p), lo..hi)
  <2> HIDE DEF onpage
  <2> QED
    BY <1>9, <1>10, <1>11, Fun_IsBij
<1>13. ExistsBijection(OnPage(p), lo..hi)
  BY <1>12 DEF ExistsBijection
<1>14. IsFiniteSet(OnPage(p))
  BY <1>6, RankFacts, FS_Subset
<1>15. Cardinality(lo..hi) = PageSize
  BY <1>1, FS_Interval
<1>16. Cardinality(lo..hi) = Cardinality(OnPage(p))
  BY <1>13, <1>14, FS_Bijection
<1>17. PageSize * p < Cardinality(Listed)
  BY <1>1, <1>2, <1>3
<1> QED
  BY <1>15, <1>16, <1>17

-------------------------------------------------------------------------------
(* The inductive invariant.                                                *)

Fields == {"phase", "page", "cache", "rows", "text", "pending", "complete",
           "last", "start", "withdrawn", "unmodified"}

\* The shape of the running fetch.
Shape ==
  /\ DOMAIN fetch = Fields
  /\ fetch.page \in Nat
  /\ fetch.phase = "idle" => fetch = Idle
  /\ fetch.phase # "idle" => fetch.page \in Nat \ {0} /\ (~Paged => fetch.page = 1)

\* Only a board that was ingested is fetched with a validator.
Conditional == fetch.cache # None => ingested

\* What a response that is the whole board says of the jobs R with the texts t.
Whole(R, t) == <<1, [j \in R |-> t[j]], Cardinality(R)>>

Active == {j \in Job : stored[j].active}
StoredText == [j \in Job |-> stored[j].text]

\* Where one response is the whole board, the validator stands for exactly the
\* jobs that are stored as active.
Snapshots ==
  kind = "single" =>
    /\ validator \in {None, <<kind>>, Whole(Active, StoredText)}
    /\ fetch.phase # "idle" => fetch.cache \in {None, validator} /\ fetch.complete = TRUE
    /\ fetch.phase = "listing" => fetch.rows = {}
    /\ fetch.phase = "details" =>
         fetch.pending = {} /\ fetch.last = Whole(fetch.rows, fetch.text)

\* Nothing can have slipped past the fetch: its pages hold still.
Still == ~Paged \/ fetch.withdrawn = {}

\* A job that stays on a board whose pages hold still was read, or is on a page
\* that is yet to be read, and a fetch that calls itself complete has read all.
Closures ==
  /\ Stayed \subseteq Listed
  /\ fetch.phase = "listing" /\ Still =>
       \A j \in Stayed : j \in fetch.rows \/ PageOf(j) >= fetch.page
  /\ fetch.phase = "details" /\ Still /\ fetch.complete = TRUE =>
       Stayed \subseteq fetch.rows

IInv == TypeOK /\ Shape /\ Conditional /\ Snapshots /\ Closures

-------------------------------------------------------------------------------
(* What each step does to the fetch.                                       *)

LEMMA IdleFacts ==
  /\ DOMAIN Idle = Fields /\ Idle.phase = "idle" /\ Idle.page = 0 /\ Idle.cache = None
  /\ Idle.rows = {} /\ Idle.text = [j \in Job |-> NoText] /\ Idle.pending = {}
  /\ Idle.complete = FALSE /\ Idle.last = None /\ Idle.start = {}
  /\ Idle.withdrawn = {} /\ Idle.unmodified = {}
BY DEF Idle, Fields

LEMMA StartFacts ==
  ASSUME Start
  PROVE  /\ DOMAIN fetch' = Fields /\ fetch'.phase = "listing" /\ fetch'.page = 1
         /\ fetch'.cache = IF ingested THEN validator ELSE None
         /\ fetch'.rows = {} /\ fetch'.text = [j \in Job |-> NoText]
         /\ fetch'.pending = {} /\ fetch'.complete = (kind # "partial")
         /\ fetch'.start = Listed /\ fetch'.withdrawn = {} /\ fetch'.unmodified = {}
<1> DEFINE cached == IF ingested THEN validator ELSE None
<1>1. fetch' = [Idle EXCEPT !.phase = "listing", !.page = 1, !.cache = cached,
                            !.complete = kind # "partial", !.start = Listed]
  BY DEF Start
<1> HIDE DEF cached
<1>2. /\ DOMAIN fetch' = Fields /\ fetch'.phase = "listing" /\ fetch'.page = 1
      /\ fetch'.cache = cached
      /\ fetch'.rows = {} /\ fetch'.text = [j \in Job |-> NoText]
      /\ fetch'.pending = {} /\ fetch'.complete = (kind # "partial")
      /\ fetch'.start = Listed /\ fetch'.withdrawn = {} /\ fetch'.unmodified = {}
  BY <1>1, IdleFacts DEF Fields
<1> QED
  BY <1>2 DEF cached

LEMMA ReadPageFacts ==
  ASSUME Shape, NEW known \in BOOLEAN, ReadPage(known)
  PROVE  LET batch == OnPage(fetch.page)
             more == MorePages(batch, known)
         IN  /\ DOMAIN fetch' = Fields
             /\ fetch'.rows = fetch.rows \cup batch
             /\ fetch'.last = Listing(fetch.page)
             /\ fetch'.text = [j \in Job |-> IF j \in batch /\ kind # "detail"
                                             THEN posted[j] ELSE fetch.text[j]]
             /\ fetch'.phase = IF more THEN "listing" ELSE "details"
             /\ fetch'.page = IF more THEN fetch.page + 1 ELSE fetch.page
             /\ fetch'.pending = IF kind = "detail" /\ ~more
                                 THEN fetch.rows \cup batch ELSE {}
             /\ fetch'.complete = (fetch.complete /\ ~CutShort(batch, known))
             /\ fetch'.cache = fetch.cache /\ fetch'.start = fetch.start
             /\ fetch'.withdrawn = fetch.withdrawn
             /\ fetch'.unmodified = fetch.unmodified
BY DEF ReadPage, Shape, Fields

\* An answer to the request for a job's text, or none.
LEMMA DetailFacts ==
  ASSUME TypeOK, Shape, NEW j \in Job, ReadDetail(j) \/ DetailFails(j)
  PROVE  /\ fetch.phase = "details" /\ j \in fetch.pending
         /\ DOMAIN fetch' = Fields /\ fetch'.phase = fetch.phase
         /\ fetch'.page = fetch.page /\ fetch'.cache = fetch.cache
         /\ fetch'.rows = fetch.rows /\ fetch'.pending = fetch.pending \ {j}
         /\ fetch'.text \in [Job -> Texts]
         /\ fetch'.complete = fetch.complete
         /\ fetch'.start = fetch.start /\ fetch'.withdrawn = fetch.withdrawn
         /\ fetch'.unmodified \subseteq Job
<1>1. CASE ReadDetail(j)
  <2> DEFINE new == IF fetch.cache = Detail(j) THEN NoText ELSE posted[j]
             last == IF j \in Listed THEN Detail(j) ELSE None
             unmodified == IF fetch.cache = Detail(j) THEN fetch.unmodified \cup {j}
                           ELSE fetch.unmodified
  <2>1. fetch.phase = "details" /\ j \in fetch.pending
    BY <1>1 DEF ReadDetail
  <2>2. fetch' = [fetch EXCEPT !.pending = @ \ {j}, !.text[j] = new,
                               !.last = last, !.unmodified = unmodified]
    BY <1>1 DEF ReadDetail
  <2>3. new \in Texts
    BY DEF TypeOK, Texts
  <2>4. unmodified \subseteq Job
    BY DEF TypeOK
  <2> HIDE DEF new, last, unmodified
  <2>5. /\ DOMAIN fetch' = Fields /\ fetch'.phase = fetch.phase
        /\ fetch'.page = fetch.page /\ fetch'.cache = fetch.cache
        /\ fetch'.rows = fetch.rows /\ fetch'.pending = fetch.pending \ {j}
        /\ fetch'.text = [fetch.text EXCEPT ![j] = new]
        /\ fetch'.complete = fetch.complete
        /\ fetch'.start = fetch.start /\ fetch'.withdrawn = fetch.withdrawn
        /\ fetch'.unmodified = unmodified
    BY <2>2 DEF Shape, Fields
  <2>6. fetch'.text \in [Job -> Texts]
    BY <2>3, <2>5 DEF TypeOK
  <2> QED
    BY <2>1, <2>4, <2>5, <2>6
<1>2. CASE DetailFails(j)
  <2>1. fetch.phase = "details" /\ j \in fetch.pending
    BY <1>2 DEF DetailFails
  <2>2. PICK last : fetch' = [fetch EXCEPT !.pending = @ \ {j}, !.last = last]
    BY <1>2 DEF DetailFails
  <2>3. /\ DOMAIN fetch' = Fields /\ fetch'.phase = fetch.phase
        /\ fetch'.page = fetch.page /\ fetch'.cache = fetch.cache
        /\ fetch'.rows = fetch.rows /\ fetch'.pending = fetch.pending \ {j}
        /\ fetch'.text = fetch.text
        /\ fetch'.complete = fetch.complete
        /\ fetch'.start = fetch.start /\ fetch'.withdrawn = fetch.withdrawn
        /\ fetch'.unmodified = fetch.unmodified
    BY <2>2 DEF Shape, Fields
  <2> QED
    BY <2>1, <2>3 DEF TypeOK
<1> QED
  BY <1>1, <1>2

\* A change of the provider, which the fetch does not see.
LEMMA ChangeFacts ==
  ASSUME TypeOK, Shape, NEW j \in Job, Change(j)
  PROVE  /\ posted' \in [Job -> Texts] /\ \A i \in Job \ {j} : posted'[i] = posted[i]
         /\ UNCHANGED <<kind, stored, validator, ingested>>
         /\ fetch.phase = "idle" => fetch' = fetch
         /\ posted'[j] # NoText => fetch' = fetch
         /\ fetch.phase # "idle" /\ posted'[j] = NoText =>
              fetch'.withdrawn = fetch.withdrawn \cup {j}
         /\ DOMAIN fetch' = Fields /\ fetch'.phase = fetch.phase
         /\ fetch'.page = fetch.page /\ fetch'.cache = fetch.cache
         /\ fetch'.rows = fetch.rows /\ fetch'.pending = fetch.pending
         /\ fetch'.text = fetch.text /\ fetch'.last = fetch.last
         /\ fetch'.complete = fetch.complete
         /\ fetch'.start = fetch.start /\ fetch'.unmodified = fetch.unmodified
<1>1. PICK r \in Texts :
        /\ posted' = [posted EXCEPT ![j] = r]
        /\ fetch' = IF fetch.phase # "idle" /\ r = NoText
                    THEN [fetch EXCEPT !.withdrawn = @ \cup {j}] ELSE fetch
        /\ UNCHANGED <<kind, stored, validator, ingested>>
  BY DEF Change, Texts
<1>2. /\ posted' \in [Job -> Texts] /\ \A i \in Job \ {j} : posted'[i] = posted[i]
      /\ posted'[j] = r
  <2> HIDE DEF Texts
  <2> QED
    BY <1>1 DEF TypeOK
<1>3. CASE fetch.phase # "idle" /\ r = NoText
  <2>1. fetch' = [fetch EXCEPT !.withdrawn = @ \cup {j}]
    BY <1>1, <1>3
  <2>2. fetch'.withdrawn = fetch.withdrawn \cup {j}
    BY <2>1 DEF Shape, Fields
  <2>3. /\ DOMAIN fetch' = Fields /\ fetch'.phase = fetch.phase
        /\ fetch'.page = fetch.page /\ fetch'.cache = fetch.cache
        /\ fetch'.rows = fetch.rows /\ fetch'.pending = fetch.pending
        /\ fetch'.text = fetch.text /\ fetch'.last = fetch.last
        /\ fetch'.complete = fetch.complete
        /\ fetch'.start = fetch.start /\ fetch'.unmodified = fetch.unmodified
    BY <2>1 DEF Shape, Fields
  <2> QED
    BY <1>1, <1>2, <1>3, <2>2, <2>3
<1>4. CASE ~(fetch.phase # "idle" /\ r = NoText)
  <2>1. fetch' = fetch
    BY <1>1, <1>4
  <2> QED
    BY <1>1, <1>2, <1>4, <2>1 DEF Shape
<1> QED
  BY <1>3, <1>4

-------------------------------------------------------------------------------
(* The pages.                                                              *)

LEMMA PageTyped ==
  ASSUME TypeOK, NEW j \in Listed
  PROVE  PageOf(j) \in Nat \ {0} /\ (~Paged => PageOf(j) = 1)
<1>1. CASE Paged
  BY <1>1, PageByRank
<1>2. CASE ~Paged
  BY <1>2 DEF PageOf
<1> QED
  BY <1>1, <1>2

\* A job that is opened or edited moves no other to an earlier page.
LEMMA PagesGrow ==
  ASSUME TypeOK, TypeOK', kind' = kind, Listed \subseteq Listed', NEW j \in Listed
  PROVE  PageOf(j) <= PageOf(j)' /\ PageOf(j) \in Nat /\ PageOf(j)' \in Nat
<1>1. CASE Paged
  <2>1. Paged'
    BY <1>1 DEF Paged
  <2>2. Rank(j) \in Nat /\ Rank(j)' \in Nat
    <3>1. /\ \A i \in Listed : Rank(i) \in Nat
      BY RankFacts
    <3>2. {i \in Listed' : Order[i] < Order[j]} \in SUBSET Job
      BY DEF Listed
    <3>3. IsFiniteSet({i \in Listed' : Order[i] < Order[j]})
      BY <3>2, RefreshAssumption, FS_Subset
    <3>4. Cardinality({i \in Listed' : Order[i] < Order[j]}) \in Nat
      BY <3>3, FS_CardinalityType
    <3> QED
      BY <3>1, <3>4 DEF Rank
  <2>3. Rank(j) <= Rank(j)'
    <3> DEFINE before == {i \in Listed : Order[i] < Order[j]}
               after == {i \in Listed' : Order[i] < Order[j]}
    <3>1. before \in SUBSET after /\ after \in SUBSET Job
      BY DEF Listed
    <3>2. Rank(j) = Cardinality(before) /\ Rank(j)' = Cardinality(after)
      BY DEF Rank
    <3> HIDE DEF before, after
    <3>3. IsFiniteSet(after)
      BY <3>1, RefreshAssumption, FS_Subset
    <3>4. Cardinality(before) <= Cardinality(after)
      BY <3>1, <3>3, FS_Subset
    <3> QED
      BY <3>2, <3>4
  <2> DEFINE r == Rank(j)
             s == Rank(j)'
  <2>4. PageOf(j) = 1 + r \div PageSize /\ PageOf(j)' = 1 + s \div PageSize
    BY <1>1, <2>1 DEF PageOf, Rank
  <2> HIDE DEF r, s
  <2>5. r \in Nat /\ s \in Nat /\ r <= s /\ PageSize \in Nat \ {0}
    BY <2>2, <2>3, RefreshAssumption DEF r, s
  <2>6. r \div PageSize \in Nat /\ s \div PageSize \in Nat
        /\ r \div PageSize <= s \div PageSize
    BY <2>5, Division, DivisionMonotone
  <2> QED
    BY <2>4, <2>6
<1>2. CASE ~Paged
  <2>1. ~Paged'
    BY <1>2 DEF Paged
  <2> QED
    BY <1>2, <2>1 DEF PageOf
<1> QED
  BY <1>1, <1>2

-------------------------------------------------------------------------------
(* The steps keep the invariant.                                           *)

LEMMA InitStep ==
  ASSUME Init
  PROVE  IInv
<1>1. Cardinality(Job) \in Nat /\ PageSize \in Nat \ {0}
  BY RefreshAssumption, FS_CardinalityType
<1>2. TypeOK
  <2>1. fetch.phase = "idle" /\ fetch.page = 0 /\ fetch.rows = {} /\ fetch.pending = {}
        /\ fetch.start = {} /\ fetch.withdrawn = {} /\ fetch.unmodified = {}
        /\ fetch.complete \in BOOLEAN
    BY IdleFacts DEF Init
  <2>2. fetch.text \in [Job -> Texts]
    BY IdleFacts DEF Init, Texts
  <2>3. PageSize * (0 - 1) < Cardinality(Job)
    BY <1>1
  <2>4. stored \in [Job -> [active : BOOLEAN, text : Texts]]
    BY DEF Init, Texts
  <2>5. ingested \in BOOLEAN /\ kind \in Kinds /\ posted \in [Job -> Texts]
    BY DEF Init, Texts
  <2> QED
    BY <2>1, <2>2, <2>3, <2>4, <2>5 DEF TypeOK
<1>3. Shape
  BY IdleFacts DEF Init, Shape
<1>4. Conditional
  BY IdleFacts DEF Init, Conditional
<1>5. Snapshots
  BY IdleFacts DEF Init, Snapshots
<1>6. Closures
  BY IdleFacts DEF Init, Closures, Stayed
<1> QED
  BY <1>2, <1>3, <1>4, <1>5, <1>6 DEF IInv

\* A step that ends the fetch keeps what the invariant says of a fetch; what it
\* says of the store and its validator is left to show.
LEMMA Ended ==
  ASSUME IInv, fetch' = Idle, UNCHANGED <<posted, kind>>,
         stored' \in [Job -> [active : BOOLEAN, text : Texts]], ingested' \in BOOLEAN,
         kind = "single" => validator' \in {None, <<kind>>, Whole(Active', StoredText')}
  PROVE  IInv'
<1>1. Cardinality(Job) \in Nat /\ PageSize \in Nat \ {0}
  BY RefreshAssumption, FS_CardinalityType
<1>2. TypeOK'
  <2>1. fetch'.phase = "idle" /\ fetch'.page = 0 /\ fetch'.rows = {} /\ fetch'.pending = {}
        /\ fetch'.start = {} /\ fetch'.withdrawn = {} /\ fetch'.unmodified = {}
        /\ fetch'.complete \in BOOLEAN
    BY IdleFacts
  <2>2. fetch'.text \in [Job -> Texts]
    BY IdleFacts DEF Texts
  <2>3. PageSize * (0 - 1) < Cardinality(Job)
    BY <1>1
  <2> QED
    BY <2>1, <2>2, <2>3 DEF TypeOK, IInv, Texts
<1>3. Shape'
  BY IdleFacts DEF Shape
<1>4. Conditional'
  BY IdleFacts DEF Conditional
<1>5. Snapshots'
  <2>1. fetch'.phase = "idle"
    BY IdleFacts
  <2> QED
    BY <2>1 DEF Snapshots
<1>6. Closures'
  BY IdleFacts DEF Closures, Stayed
<1> QED
  BY <1>2, <1>3, <1>4, <1>5, <1>6 DEF IInv

\* A step of the provider or of the running fetch.
LEMMA ChangeStep ==
  ASSUME IInv, NEW j \in Job, Change(j)
  PROVE  IInv'
<1>0. TypeOK /\ Shape
  BY DEF IInv
<1>1. TypeOK'
  BY <1>0, ChangeFacts DEF TypeOK, Texts
<1>2. Paged' = Paged
  BY <1>0, ChangeFacts DEF Paged
<1>3. Shape'
  BY <1>0, <1>2, ChangeFacts DEF Shape
<1>4. Conditional'
  BY <1>0, ChangeFacts DEF Conditional, IInv
<1>5. Snapshots'
  <2>1. Active' = Active /\ StoredText' = StoredText /\ validator' = validator /\ kind' = kind
    BY <1>0, ChangeFacts DEF Active, StoredText
  <2> QED
    BY <1>0, <2>1, ChangeFacts DEF Snapshots, IInv, Whole
<1>6. Closures'
  <2>1. CASE fetch.phase = "idle"
    <3>1. fetch' = Idle
      BY <1>0, <2>1, ChangeFacts DEF Shape
    <3> QED
      BY <3>1, IdleFacts DEF Closures, Stayed
  <2>2. CASE fetch.phase # "idle" /\ posted'[j] = NoText
    <3>1. fetch'.withdrawn = fetch.withdrawn \cup {j} /\ fetch'.start = fetch.start
          /\ fetch'.rows = fetch.rows /\ fetch'.phase = fetch.phase
          /\ fetch'.page = fetch.page /\ fetch'.complete = fetch.complete
      BY <1>0, <2>2, ChangeFacts
    <3>2. Stayed' \subseteq Stayed \ {j} /\ Listed' = Listed \ {j}
      BY <1>0, <2>2, <3>1, ChangeFacts DEF Stayed, Listed
    <3>3. CASE Paged
      <4>1. ~Still'
        BY <1>2, <3>1, <3>3 DEF Still
      <4> QED
        BY <3>2, <4>1 DEF Closures, IInv
    <3>4. CASE ~Paged
      <4>1. Still
        BY <3>4 DEF Still
      <4>2. ASSUME NEW i \in Stayed'
            PROVE  PageOf(i)' = 1 /\ fetch'.page = 1
        BY <1>0, <1>2, <2>2, <3>1, <3>4 DEF PageOf, Shape
      <4>3. \A i \in Stayed' : i \in Listed'
        BY <3>2 DEF Closures, IInv
      <4>4. fetch.phase = "details" /\ fetch.complete = TRUE => Stayed \subseteq fetch.rows
        BY <4>1 DEF Closures, IInv
      <4> QED
        BY <3>1, <3>2, <4>2, <4>3, <4>4 DEF Closures
    <3> QED
      BY <3>3, <3>4
  <2>3. CASE fetch.phase # "idle" /\ posted'[j] # NoText
    <3>1. fetch' = fetch
      BY <1>0, <2>3, ChangeFacts
    <3>2. Stayed' = Stayed /\ Listed \subseteq Listed' /\ (Still' <=> Still)
      <4>1. Listed \subseteq Listed'
        BY <1>0, <2>3, ChangeFacts DEF Listed
      <4> QED
        BY <1>2, <3>1, <4>1 DEF Stayed, Still
    <3>3. kind' = kind
      BY <1>0, ChangeFacts
    <3>4. ASSUME NEW i \in Stayed
          PROVE  i \in Listed' /\ PageOf(i) <= PageOf(i)'
                 /\ PageOf(i) \in Nat /\ PageOf(i)' \in Nat
      <4>1. i \in Listed /\ i \in Listed'
        BY <3>2 DEF Closures, IInv
      <4> QED
        BY <1>0, <1>1, <3>2, <3>3, <4>1, PagesGrow
    <3>5. fetch.page \in Nat
      BY <1>0 DEF Shape
    <3>6. ASSUME fetch.phase = "listing", Still, NEW i \in Stayed
          PROVE  i \in fetch.rows \/ PageOf(i)' >= fetch.page
      <4>1. i \in fetch.rows \/ PageOf(i) >= fetch.page
        BY <3>6 DEF Closures, IInv
      <4> QED
        BY <3>4, <3>5, <4>1
    <3> QED
      BY <3>1, <3>2, <3>4, <3>6 DEF Closures, IInv
  <2> QED
    BY <2>1, <2>2, <2>3
<1> QED
  BY <1>1, <1>3, <1>4, <1>5, <1>6 DEF IInv

LEMMA StartStep ==
  ASSUME IInv, Start
  PROVE  IInv'
<1>0. TypeOK /\ fetch.phase = "idle" /\ UNCHANGED <<posted, kind, stored, validator, ingested>>
  BY DEF IInv, Start
<1>1. TypeOK'
  <2>1. PageSize * (1 - 1) < Cardinality(Job)
    <3>1. Cardinality(Job) \in Nat /\ Cardinality(Job) # 0 /\ PageSize \in Nat
      BY RefreshAssumption, FS_CardinalityType, FS_EmptySet
    <3> QED
      BY <3>1
  <2>2. fetch'.text \in [Job -> Texts]
    BY StartFacts DEF Texts
  <2>3. fetch'.complete \in BOOLEAN
    BY StartFacts
  <2>4. /\ fetch'.pending \subseteq fetch'.rows
        /\ fetch'.rows \cup fetch'.start \cup fetch'.withdrawn \cup fetch'.unmodified
             \subseteq Job
    BY StartFacts DEF Listed
  <2>5. fetch'.phase = "listing" /\ fetch'.page = 1
    BY StartFacts
  <2> QED
    BY <1>0, <2>1, <2>2, <2>3, <2>4, <2>5 DEF TypeOK, Texts
<1>2. Shape'
  BY StartFacts DEF Shape
<1>3. Conditional'
  BY <1>0, StartFacts DEF Conditional
<1>4. Snapshots'
  <2>1. Active' = Active /\ StoredText' = StoredText
    BY <1>0 DEF Active, StoredText
  <2>2. fetch'.cache \in {None, validator}
    BY StartFacts
  <2>3. kind = "single" => fetch'.complete = TRUE
    BY StartFacts
  <2> QED
    BY <1>0, <2>1, <2>2, <2>3, StartFacts DEF Snapshots, IInv, Whole
<1>5. Closures'
  <2>1. Stayed' = Listed /\ Listed' = Listed /\ fetch'.page = 1 /\ fetch'.phase = "listing"
    BY <1>0, StartFacts DEF Stayed, Listed
  <2>2. \A j \in Listed : PageOf(j)' = PageOf(j)
    BY <1>0, <2>1 DEF PageOf, Paged
  <2>3. \A j \in Listed : PageOf(j) \in Nat \ {0}
    BY <1>0, PageTyped
  <2>4. \A j \in Listed : PageOf(j)' >= 1
    BY <2>2, <2>3
  <2> QED
    BY <2>1, <2>4 DEF Closures
<1> QED
  BY <1>1, <1>2, <1>3, <1>4, <1>5 DEF IInv

LEMMA FailStep ==
  ASSUME IInv, Fail
  PROVE  IInv'
<1>1. fetch' = Idle /\ UNCHANGED <<posted, kind, stored, validator, ingested>>
  BY DEF Fail
<1>2. Active' = Active /\ StoredText' = StoredText
  BY <1>1 DEF Active, StoredText
<1>3. kind = "single" => validator' \in {None, <<kind>>, Whole(Active', StoredText')}
  BY <1>1, <1>2 DEF IInv, Snapshots
<1> QED
  BY <1>1, <1>3, Ended DEF IInv, TypeOK

LEMMA ProbeStep ==
  ASSUME IInv, Probe
  PROVE  IInv'
<1>1. /\ fetch.phase = "idle" /\ validator' = Probed
      /\ UNCHANGED <<posted, kind, stored, ingested, fetch>>
  BY DEF Probe
<1>2. fetch' = Idle
  BY <1>1 DEF IInv, Shape
<1>3. kind = "single" => validator' = <<kind>>
  BY <1>1 DEF Probed
<1> QED
  BY <1>1, <1>2, <1>3, Ended DEF IInv, TypeOK

LEMMA NotModifiedStep ==
  ASSUME IInv, NotModified
  PROVE  IInv'
<1>1. /\ fetch.phase = "listing" /\ fetch.cache = Listing(fetch.page)
      /\ validator' = fetch.cache /\ ingested' = TRUE /\ fetch' = Idle
      /\ UNCHANGED <<posted, kind, stored>>
  BY DEF NotModified
<1>2. fetch.cache # None
  BY <1>1 DEF Listing, None
<1>3. kind = "single" => validator' = validator
  BY <1>1, <1>2 DEF IInv, Snapshots
<1>4. Active' = Active /\ StoredText' = StoredText
  BY <1>1 DEF Active, StoredText
<1>5. kind = "single" => validator' \in {None, <<kind>>, Whole(Active', StoredText')}
  BY <1>3, <1>4 DEF IInv, Snapshots
<1> QED
  BY <1>1, <1>5, Ended DEF IInv, TypeOK

\* A page that is not the last: there are more jobs than it leaves behind.
LEMMA MorePagesFacts ==
  ASSUME IInv, NEW known \in BOOLEAN, MorePages(OnPage(fetch.page), known)
  PROVE  Paged /\ PageSize * fetch.page < Cardinality(Job)
<1>1. Paged /\ PageSize * fetch.page < Cardinality(Listed)
  BY DEF MorePages
<1>2. PageSize * fetch.page \in Nat
  BY RefreshAssumption DEF IInv, Shape
<1> QED
  BY <1>1, <1>2, RankFacts DEF IInv

\* The last page, unless the connector says that the listing was cut short.
LEMMA LastPage ==
  ASSUME IInv, fetch.phase = "listing", NEW known \in BOOLEAN,
         ~MorePages(OnPage(fetch.page), known), ~CutShort(OnPage(fetch.page), known),
         NEW j \in Listed
  PROVE  PageOf(j) <= fetch.page
<1>1. fetch.page \in Nat \ {0} /\ PageOf(j) \in Nat \ {0} /\ TypeOK
  BY PageTyped DEF IInv, Shape
<1>2. CASE Paged
  <2>1. SUFFICES ASSUME PageOf(j) > fetch.page PROVE FALSE
    BY <1>1
  <2>2. /\ Cardinality(OnPage(fetch.page)) = PageSize
        /\ PageSize * fetch.page < Cardinality(Listed)
    BY <1>1, <1>2, <2>1, FullPage
  <2> QED
    BY <1>2, <2>2 DEF MorePages, CutShort
<1>3. CASE ~Paged
  BY <1>1, <1>3, PageTyped DEF IInv, Shape
<1> QED
  BY <1>2, <1>3

LEMMA ReadPageStep ==
  ASSUME IInv, NEW known \in BOOLEAN, ReadPage(known)
  PROVE  IInv'
<1> DEFINE batch == OnPage(fetch.page)
           more == MorePages(batch, known)
           cut == CutShort(batch, known)
<1>0. /\ TypeOK /\ Shape /\ fetch.phase = "listing"
      /\ UNCHANGED <<posted, kind, stored, validator, ingested>>
  BY DEF IInv, ReadPage
<1>1. /\ DOMAIN fetch' = Fields
      /\ fetch'.rows = fetch.rows \cup batch
      /\ fetch'.last = Listing(fetch.page)
      /\ fetch'.text = [j \in Job |-> IF j \in batch /\ kind # "detail"
                                      THEN posted[j] ELSE fetch.text[j]]
      /\ fetch'.phase = IF more THEN "listing" ELSE "details"
      /\ fetch'.page = IF more THEN fetch.page + 1 ELSE fetch.page
      /\ fetch'.pending = IF kind = "detail" /\ ~more THEN fetch.rows \cup batch ELSE {}
      /\ fetch'.complete = (fetch.complete /\ ~cut)
      /\ fetch'.cache = fetch.cache /\ fetch'.start = fetch.start
      /\ fetch'.withdrawn = fetch.withdrawn /\ fetch'.unmodified = fetch.unmodified
  BY <1>0, ReadPageFacts
<1>2. fetch.page \in Nat \ {0} /\ fetch'.page \in Nat \ {0}
  BY <1>0, <1>1 DEF Shape
<1>3. more => Paged /\ PageSize * fetch.page < Cardinality(Job)
  BY MorePagesFacts
<1>4. batch \subseteq Listed /\ Listed \subseteq Job
  BY DEF OnPage, Listed
<1>5. Paged' = Paged /\ Listed' = Listed /\ Stayed' = Stayed /\ Still' = Still
  BY <1>0, <1>1 DEF Paged, Listed, Stayed, Still
<1>6. \A j \in Listed : PageOf(j)' = PageOf(j)
  BY <1>0, <1>5 DEF PageOf
<1>7. ASSUME ~more, ~cut, NEW j \in Listed
      PROVE  PageOf(j) <= fetch.page
  BY <1>0, <1>7, LastPage
<1>8. \A j \in Listed : j \in batch <=> PageOf(j) = fetch.page
  BY DEF OnPage
<1>9. \A j \in Listed : PageOf(j) \in Nat \ {0} /\ (~Paged => PageOf(j) = 1)
  BY <1>0, PageTyped
<1>10. kind = "single" => batch = Listed /\ fetch.page = 1 /\ ~more /\ ~cut
  <2>1. kind = "single" => ~Paged
    BY DEF Paged
  <2>2. ~Paged => fetch.page = 1 /\ ~cut
    BY <1>0 DEF Shape, CutShort
  <2> HIDE DEF batch, more, cut
  <2> QED
    BY <1>3, <1>4, <1>8, <1>9, <2>1, <2>2
<1>11. kind = "single" => Listing(fetch.page) = Whole(Listed, posted)
  <2>1. ASSUME kind = "single"
        PROVE  Listing(fetch.page) = <<1, [j \in Listed |-> posted[j]], Cardinality(Listed)>>
    <3>1. OnPage(1) = Listed /\ fetch.page = 1
      BY <1>10, <2>1
    <3> QED
      BY <2>1, <3>1 DEF Listing
  <2> QED
    BY <2>1 DEF Whole
<1> HIDE DEF batch, more, cut
<1>12. TypeOK'
  <2>1. fetch'.text \in [Job -> Texts]
    BY <1>0, <1>1 DEF TypeOK
  <2>2. PageSize * (fetch'.page - 1) < Cardinality(Job)
    <3>1. CASE more
      <4>1. fetch'.page - 1 = fetch.page
        BY <1>1, <1>2, <3>1
      <4> QED
        BY <1>3, <3>1, <4>1
    <3>2. CASE ~more
      BY <1>0, <1>1, <3>2 DEF TypeOK
    <3> QED
      BY <3>1, <3>2
  <2>3. fetch'.complete \in BOOLEAN
    BY <1>1
  <2>4. fetch'.rows \subseteq Job /\ fetch'.pending \subseteq fetch'.rows
    BY <1>0, <1>1, <1>4 DEF TypeOK
  <2>5. fetch'.phase \in {"idle", "listing", "details"}
    BY <1>1
  <2> QED
    BY <1>0, <1>1, <2>1, <2>2, <2>3, <2>4, <2>5 DEF TypeOK, Texts
<1>13. Shape'
  <2>1. fetch'.phase # "idle"
    BY <1>1
  <2>2. ~Paged => fetch'.page = 1
    BY <1>0, <1>1, <1>3 DEF Shape
  <2> QED
    BY <1>1, <1>2, <1>5, <2>1, <2>2 DEF Shape
<1>14. Conditional'
  BY <1>0, <1>1 DEF IInv, Conditional
<1>15. Snapshots'
  <2>1. SUFFICES ASSUME kind = "single" PROVE Snapshots'
    BY <1>0 DEF Snapshots
  <2>2. Active' = Active /\ StoredText' = StoredText
    BY <1>0 DEF Active, StoredText
  <2>3. /\ validator \in {None, <<kind>>, Whole(Active, StoredText)}
        /\ fetch.cache \in {None, validator} /\ fetch.complete = TRUE /\ fetch.rows = {}
    BY <1>0, <2>1 DEF IInv, Snapshots
  <2>4. /\ fetch'.phase = "details" /\ fetch'.pending = {}
        /\ fetch'.complete = TRUE /\ fetch'.rows = Listed
    BY <1>1, <1>10, <2>1, <2>3
  <2>5. \A j \in Listed : fetch'.text[j] = posted[j]
    BY <1>1, <1>4, <1>10, <2>1
  <2>6. Whole(Listed, posted) = Whole(Listed, fetch'.text)
    BY <2>5 DEF Whole
  <2>7. fetch'.last = Whole(fetch'.rows, fetch'.text)
    BY <1>1, <1>11, <2>1, <2>4, <2>6
  <2>8. validator' \in {None, <<kind'>>, Whole(Active', StoredText')}
        /\ fetch'.cache \in {None, validator'}
    BY <1>0, <1>1, <2>2, <2>3
  <2> QED
    BY <2>4, <2>7, <2>8 DEF Snapshots, Whole
<1>16. Closures'
  <2>1. Stayed \subseteq Listed
    BY DEF IInv, Closures
  <2>2. ASSUME Still, NEW j \in Stayed
        PROVE  j \in fetch.rows \/ PageOf(j) >= fetch.page
    BY <1>0, <2>2 DEF IInv, Closures
  <2>3. ASSUME Still, more, NEW j \in Stayed
        PROVE  j \in fetch'.rows \/ PageOf(j)' >= fetch'.page
    <3>1. j \in Listed /\ fetch'.page = fetch.page + 1 /\ PageOf(j)' = PageOf(j)
      BY <1>1, <1>6, <2>1, <2>3
    <3>2. j \in batch \/ PageOf(j) # fetch.page
      BY <1>8, <3>1
    <3>3. PageOf(j) \in Nat
      BY <1>9, <3>1
    <3>4. CASE j \in fetch.rows \cup batch
      BY <1>1, <3>4
    <3>5. CASE j \notin fetch.rows \cup batch
      <4>1. PageOf(j) >= fetch.page /\ PageOf(j) # fetch.page
        BY <2>2, <2>3, <3>2, <3>5
      <4> QED
        BY <1>2, <3>1, <3>3, <4>1
    <3> QED
      BY <3>4, <3>5
  <2>4. ASSUME Still, ~more, fetch'.complete = TRUE, NEW j \in Stayed
        PROVE  j \in fetch'.rows
    <3>1. j \in Listed /\ ~cut
      BY <1>1, <2>1, <2>4
    <3>2. PageOf(j) <= fetch.page
      BY <1>7, <2>4, <3>1
    <3>3. PageOf(j) \in Nat /\ (j \in fetch.rows \/ PageOf(j) >= fetch.page)
      BY <1>9, <2>2, <2>4, <3>1
    <3>4. j \in fetch.rows \/ PageOf(j) = fetch.page
      BY <1>2, <3>2, <3>3
    <3> QED
      BY <1>1, <1>8, <3>1, <3>4
  <2>5. fetch'.phase = "listing" <=> more
    BY <1>1
  <2>6. fetch'.phase = "details" <=> ~more
    BY <1>1
  <2> QED
    BY <1>5, <2>1, <2>3, <2>4, <2>5, <2>6 DEF Closures
<1> QED
  BY <1>12, <1>13, <1>14, <1>15, <1>16 DEF IInv

LEMMA DetailStep ==
  ASSUME IInv, NEW j \in Job, ReadDetail(j) \/ DetailFails(j)
  PROVE  IInv'
<1>1. /\ TypeOK /\ Shape /\ UNCHANGED <<posted, kind, stored, validator, ingested>>
  BY DEF IInv, ReadDetail, DetailFails
<1>2. /\ fetch.phase = "details" /\ j \in fetch.pending
      /\ DOMAIN fetch' = Fields /\ fetch'.phase = fetch.phase
      /\ fetch'.page = fetch.page /\ fetch'.cache = fetch.cache
      /\ fetch'.rows = fetch.rows /\ fetch'.pending = fetch.pending \ {j}
      /\ fetch'.text \in [Job -> Texts]
      /\ fetch'.complete = fetch.complete
      /\ fetch'.start = fetch.start /\ fetch'.withdrawn = fetch.withdrawn
      /\ fetch'.unmodified \subseteq Job
  BY <1>1, DetailFacts
<1>3. TypeOK'
  BY <1>1, <1>2 DEF TypeOK, Texts
<1>4. Shape'
  BY <1>1, <1>2 DEF Shape, Paged
<1>5. Conditional'
  BY <1>1, <1>2 DEF IInv, Conditional
<1>6. Snapshots'
  <2>1. kind # "single"
    BY <1>2 DEF IInv, Snapshots
  <2> QED
    BY <1>1, <2>1 DEF Snapshots
<1>7. Closures'
  <2>1. Stayed' = Stayed /\ Listed' = Listed /\ (Still' <=> Still)
    BY <1>1, <1>2 DEF Stayed, Listed, Still, Paged
  <2> QED
    BY <1>2, <2>1 DEF IInv, Closures
<1> QED
  BY <1>3, <1>4, <1>5, <1>6, <1>7 DEF IInv

\* What a successful refresh leaves of a job.
LEMMA StoreFacts ==
  ASSUME TypeOK, stored' = StoreJobs, NEW j \in Job
  PROVE  /\ stored'[j] \in [active : BOOLEAN, text : Texts]
         /\ j \in fetch.rows =>
              stored'[j].active = TRUE /\ stored'[j].text = fetch.text[j]
         /\ j \notin fetch.rows /\ fetch.complete = TRUE => stored'[j].active = FALSE
         /\ j \notin fetch.rows /\ fetch.complete = FALSE =>
              stored'[j].active = stored[j].active
<1>1. stored[j] \in [active : BOOLEAN, text : Texts] /\ fetch.text[j] \in Texts
  BY DEF TypeOK
<1>2. CASE j \in fetch.rows
  <2>1. stored'[j] = [active |-> TRUE, text |-> fetch.text[j]]
    BY <1>2 DEF StoreJobs
  <2>2. stored'[j].active = TRUE /\ stored'[j].text = fetch.text[j]
    BY <2>1
  <2>3. stored'[j] \in [active : BOOLEAN, text : Texts]
    BY <1>1, <2>1
  <2> QED
    BY <1>2, <2>2, <2>3
<1>3. CASE j \notin fetch.rows
  <2>1. stored'[j] = [stored[j] EXCEPT !.active = @ /\ ~fetch.complete]
    BY <1>3 DEF StoreJobs
  <2>2. CASE fetch.complete = TRUE
    <3>1. stored'[j] = [stored[j] EXCEPT !.active = FALSE]
      BY <2>1, <2>2
    <3>2. /\ stored'[j] \in [active : BOOLEAN, text : Texts]
          /\ stored'[j].active = FALSE
      BY <1>1, <3>1
    <3> QED
      BY <1>3, <2>2, <3>2
  <2>3. CASE fetch.complete = FALSE
    <3>1. stored[j].active \in BOOLEAN
      BY <1>1
    <3>2. (stored[j].active /\ ~fetch.complete) = stored[j].active
      BY <2>3, <3>1
    <3>3. stored'[j] = [stored[j] EXCEPT !.active = stored[j].active]
      BY <2>1, <3>2
    <3>4. /\ stored'[j] \in [active : BOOLEAN, text : Texts]
          /\ stored'[j].active = stored[j].active
      BY <1>1, <3>3
    <3> QED
      BY <1>3, <2>3, <3>4
  <2> QED
    BY <2>2, <2>3 DEF TypeOK
<1> QED
  BY <1>2, <1>3

LEMMA StoreStep ==
  ASSUME IInv, Store
  PROVE  IInv'
<1>1. /\ fetch.phase = "details" /\ fetch.pending = {} /\ stored' = StoreJobs
      /\ validator' = IF fetch.last # None THEN fetch.last ELSE validator
      /\ ingested' = TRUE /\ fetch' = Idle /\ UNCHANGED <<posted, kind>>
  BY DEF Store
<1>2. TypeOK
  BY DEF IInv
<1>3. kind = "single" => validator' = Whole(Active', StoredText')
  <2>1. SUFFICES ASSUME kind = "single" PROVE validator' = Whole(Active', StoredText')
    OBVIOUS
  <2>2. fetch.complete = TRUE /\ fetch.last = Whole(fetch.rows, fetch.text)
    BY <1>1, <2>1 DEF IInv, Snapshots
  <2>3. fetch.last # None
    BY <2>2 DEF Whole, None
  <2>4. fetch.rows \subseteq Job
    BY <1>2 DEF TypeOK
  <2>5. Active' = fetch.rows
    <3>1. \A j \in Job : stored'[j].active <=> j \in fetch.rows
      BY <1>1, <1>2, <2>2, StoreFacts
    <3> QED
      BY <2>4, <3>1 DEF Active
  <2>6. \A j \in fetch.rows : StoredText'[j] = fetch.text[j]
    <3>1. \A j \in fetch.rows : stored'[j].text = fetch.text[j]
      BY <1>1, <1>2, <2>4, StoreFacts
    <3> QED
      BY <2>4, <3>1 DEF StoredText
  <2>7. Whole(Active', StoredText') = Whole(fetch.rows, fetch.text)
    BY <2>5, <2>6 DEF Whole
  <2> QED
    BY <1>1, <2>2, <2>3, <2>7
<1>4. stored' \in [Job -> [active : BOOLEAN, text : Texts]]
  <2>1. \A j \in Job : stored'[j] \in [active : BOOLEAN, text : Texts]
    BY <1>1, <1>2, StoreFacts
  <2>2. stored' = [j \in Job |-> stored'[j]]
    BY <1>1 DEF StoreJobs
  <2> QED
    BY <2>1, <2>2
<1> QED
  BY <1>1, <1>3, <1>4, Ended

-------------------------------------------------------------------------------
(* The theorems.                                                           *)

\* Whatever the provider does between two requests, and wherever a refresh fails,
\* the validators, the pages that are still to be read and the stored jobs fit.
THEOREM BoardInvariant == Spec => []IInv
<1>1. Init => IInv
  BY InitStep
<1>2. IInv /\ [Next]_vars => IInv'
  <2>1. SUFFICES ASSUME IInv, [Next]_vars PROVE IInv'
    OBVIOUS
  <2>2. CASE UNCHANGED vars
    <3>1. TypeOK' /\ Shape' /\ Conditional'
      BY <2>1, <2>2 DEF vars, IInv, TypeOK, Shape, Conditional, Paged, Texts
    <3>2. Snapshots'
      BY <2>1, <2>2 DEF vars, IInv, Snapshots, Active, StoredText, Whole
    <3>3. Closures'
      BY <2>1, <2>2 DEF vars, IInv, Closures, Stayed, Still, Paged, Listed, PageOf
    <3> QED
      BY <3>1, <3>2, <3>3 DEF IInv
  <2>3. CASE Next
    BY <2>1, <2>3, ChangeStep, DetailStep, ReadPageStep, ProbeStep, StartStep,
       NotModifiedStep, StoreStep, FailStep DEF Next
  <2> QED
    BY <2>1, <2>2, <2>3
<1> QED
  BY <1>1, <1>2, PTL DEF Spec

\* Type correctness: no page is asked for beyond those the jobs can fill.
THEOREM BoardTypeCorrect == Spec => []TypeOK
<1>1. IInv => TypeOK
  BY DEF IInv
<1> QED
  BY <1>1, BoardInvariant, PTL

\* A 304 marks no board as ingested whose jobs were never stored.
THEOREM FirstIngestionIsFull == Spec => FirstIngestionStores
<1>1. IInv /\ [Next]_vars => [NotModified => ingested]_vars
  <2>1. ASSUME IInv, NotModified PROVE ingested
    <3>1. fetch.cache # None
      BY <2>1 DEF NotModified, Listing, None
    <3> QED
      BY <2>1, <3>1 DEF IInv, Conditional
  <2> QED
    BY <2>1
<1> QED
  BY <1>1, BoardInvariant, PTL DEF Spec, FirstIngestionStores

\* Where one response is the whole board, a 304 finds the store as the provider
\* lists the board at that moment.
THEOREM SnapshotIsCurrent == Spec => SingleSnapshotCurrent
<1> DEFINE Same == \A j \in Job : IF j \in Listed THEN Current(j) ELSE ~stored[j].active
<1>1. IInv => (NotModified /\ kind = "single" => Same)
  <2>1. SUFFICES ASSUME IInv, NotModified, kind = "single" PROVE Same
    OBVIOUS
  <2>2. fetch.phase = "listing" /\ fetch.cache = Listing(fetch.page)
    BY <2>1 DEF NotModified
  <2>3. fetch.page = 1 /\ ~Paged
    BY <2>1, <2>2 DEF IInv, Shape, Paged
  <2>4. OnPage(1) = Listed
    BY <2>3 DEF OnPage, PageOf
  <2>5. fetch.cache = <<1, [j \in Listed |-> posted[j]], Cardinality(Listed)>>
    BY <2>1, <2>2, <2>3, <2>4 DEF Listing
  <2>6. fetch.cache \in {None, <<kind>>, Whole(Active, StoredText)}
    BY <2>1, <2>2 DEF IInv, Snapshots
  <2>7. fetch.cache = Whole(Active, StoredText)
    BY <2>5, <2>6 DEF None
  <2>8. [j \in Listed |-> posted[j]] = [j \in Active |-> StoredText[j]]
    BY <2>5, <2>7 DEF Whole
  <2>9. Listed = Active /\ \A j \in Listed : posted[j] = StoredText[j]
    BY <2>8
  <2>10. ASSUME NEW j \in Job
         PROVE  IF j \in Listed THEN Current(j) ELSE ~stored[j].active
    <3>1. stored[j] \in [active : BOOLEAN, text : Texts]
      BY <2>1 DEF IInv, TypeOK
    <3>2. CASE j \in Listed
      <4>1. stored[j].active /\ stored[j].text = posted[j]
        BY <2>9, <3>2 DEF Active, StoredText
      <4> QED
        BY <3>1, <3>2, <4>1 DEF Current
    <3>3. CASE j \notin Listed
      BY <2>9, <3>3 DEF Active
    <3> QED
      BY <3>2, <3>3
  <2> QED
    BY <2>10
<1> HIDE DEF Same
<1>2. IInv => [NotModified /\ kind = "single" => Same]_vars
  BY <1>1
<1>3. SingleSnapshotCurrent <=> [][NotModified /\ kind = "single" => Same]_vars
  BY PTL DEF SingleSnapshotCurrent, Same
<1> QED
  BY <1>2, <1>3, BoardInvariant, PTL

\* A job that the provider lists from the start of a refresh to its end is closed
\* only by a board with pages from which another was withdrawn in between.
THEOREM ClosureIsJustified == Spec => ClosureJustified
<1> DEFINE Justified == \A j \in Stayed : stored[j].active /\ ~stored'[j].active =>
                          Paged /\ fetch.withdrawn # {}
<1>1. IInv /\ [Next]_vars => [Justified]_vars
  <2>1. SUFFICES ASSUME IInv, Next, NEW j \in Stayed,
                        stored[j].active, ~stored'[j].active
                 PROVE  Paged /\ fetch.withdrawn # {}
    OBVIOUS
  <2>2. stored' # stored
    BY <2>1
  <2>3. Store
    BY <2>1, <2>2 DEF Next, Change, ReadDetail, DetailFails, ReadPage, Probe, Start,
                      NotModified, Fail
  <2>4. TypeOK /\ stored' = StoreJobs /\ fetch.phase = "details"
    BY <2>1, <2>3 DEF IInv, Store
  <2>5. j \in Job /\ fetch.complete \in BOOLEAN
    BY <2>4 DEF TypeOK, Stayed
  <2>6. j \notin fetch.rows /\ fetch.complete = TRUE
    <3>1. CASE j \in fetch.rows
      BY <2>1, <2>4, <2>5, <3>1, StoreFacts
    <3>2. CASE j \notin fetch.rows /\ fetch.complete = FALSE
      <4>1. stored'[j].active = stored[j].active
        BY <2>4, <2>5, <3>2, StoreFacts
      <4> QED
        BY <2>1, <4>1
    <3> QED
      BY <2>5, <3>1, <3>2
  <2>7. ~Still
    BY <2>1, <2>4, <2>5, <2>6 DEF IInv, Closures
  <2> QED
    BY <2>7 DEF Still
<1>2. ClosureJustified <=> [][Justified]_vars
  BY PTL DEF ClosureJustified
<1> QED
  BY <1>1, <1>2, BoardInvariant, PTL DEF Spec

-------------------------------------------------------------------------------
(* What a quiet board comes to.                                            *)

\* The store is what the provider lists.
Settled == \A j \in Job : IF j \in Listed THEN Current(j) ELSE ~stored[j].active

\* A fetch that has read the board has read it as it is now.
Fresh ==
  fetch.phase = "details" =>
    fetch.rows = Listed /\ \A j \in Listed : fetch.text[j] = posted[j]

Single == IInv /\ kind = "single"

\* A board keeps its connector.
LEMMA KindKept == [Next]_vars => kind' = kind
<1>1. \A j \in Job : Change(j) \/ ReadDetail(j) \/ DetailFails(j) => kind' = kind
  BY DEF Change, ReadDetail, DetailFails
<1>2. \A known \in BOOLEAN : ReadPage(known) => kind' = kind
  BY Zenon DEF ReadPage
<1>3. Probe \/ Start \/ NotModified \/ Store \/ Fail \/ UNCHANGED vars => kind' = kind
  BY DEF Probe, Start, NotModified, Store, Fail, vars
<1> QED
  BY <1>1, <1>2, <1>3 DEF Next

\* While a board does not change, a fetch reads it whole or not at all.
LEMMA QuietStep ==
  ASSUME Single, [Next]_vars, [posted' = posted]_vars
  PROVE  /\ posted' = posted /\ kind' = kind /\ Listed' = Listed
         /\ \/ /\ stored' = stored
               /\ fetch' = fetch \/ fetch'.phase # "details"
                    \/ \E known \in BOOLEAN : ReadPage(known)
            \/ Store
<1>1. posted' = posted
  BY DEF vars
<1>2. kind' = kind
  BY KindKept
<1>3. ASSUME NEW j \in Job
      PROVE  ~Change(j) /\ ~ReadDetail(j) /\ ~DetailFails(j)
  <2>1. ~Change(j)
    <3>1. posted \in [Job -> Texts]
      BY DEF Single, IInv, TypeOK
    <3> QED
      BY <1>1, <3>1 DEF Change
  <2>2. fetch.phase = "details" => fetch.pending = {}
    BY DEF Single, IInv, Snapshots
  <2> QED
    BY <2>1, <2>2 DEF ReadDetail, DetailFails
<1>4. CASE NotModified \/ Fail
  BY <1>1, <1>2, <1>4, IdleFacts DEF NotModified, Fail, Listed
<1>5. CASE Start
  BY <1>1, <1>2, <1>5, StartFacts DEF Start, Listed
<1>6. CASE Probe \/ UNCHANGED vars
  BY <1>1, <1>2, <1>6 DEF Probe, vars, Listed
<1>7. CASE \E known \in BOOLEAN : ReadPage(known)
  <2>1. stored' = stored
    BY <1>7, Zenon DEF ReadPage
  <2>2. Listed' = Listed
    BY <1>1 DEF Listed
  <2> QED
    BY <1>1, <1>2, <1>7, <2>1, <2>2, Zenon
<1>8. CASE Store
  BY <1>1, <1>2, <1>8 DEF Listed
<1> QED
  BY <1>3, <1>4, <1>5, <1>6, <1>7, <1>8 DEF Next

\* A board of one response is read at once.
LEMMA ReadWhole ==
  ASSUME Single, posted' = posted, Listed' = Listed,
         NEW known \in BOOLEAN, ReadPage(known)
  PROVE  Fresh'
<1>1. /\ TypeOK /\ Shape /\ fetch.phase = "listing" /\ fetch.rows = {}
      /\ fetch.page = 1 /\ ~Paged
  BY DEF Single, IInv, ReadPage, Snapshots, Shape, Paged
<1>2. OnPage(fetch.page) = Listed /\ Listed \subseteq Job
  BY <1>1 DEF OnPage, PageOf, Listed
<1>3. /\ fetch'.rows = fetch.rows \cup OnPage(fetch.page)
      /\ fetch'.text = [j \in Job |-> IF j \in OnPage(fetch.page) /\ kind # "detail"
                                      THEN posted[j] ELSE fetch.text[j]]
  BY <1>1, ReadPageFacts
<1>4. fetch'.rows = Listed /\ \A j \in Listed : fetch'.text[j] = posted[j]
  BY <1>1, <1>2, <1>3 DEF Single
<1> QED
  BY <1>4 DEF Fresh

\* What is stored of a fetch that has read the board as it is.
LEMMA StoreSettled ==
  ASSUME Single, Fresh, Store, posted' = posted, Listed' = Listed
  PROVE  Settled'
<1>1. /\ TypeOK /\ stored' = StoreJobs /\ fetch.complete = TRUE
      /\ fetch.rows = Listed /\ \A j \in Listed : fetch.text[j] = posted[j]
  BY DEF Single, IInv, Store, Snapshots, Fresh
<1>2. ASSUME NEW j \in Job
      PROVE  IF j \in Listed' THEN Current(j)' ELSE ~stored'[j].active
  <2>1. /\ stored'[j] \in [active : BOOLEAN, text : Texts]
        /\ j \in fetch.rows => stored'[j].active = TRUE /\ stored'[j].text = fetch.text[j]
        /\ j \notin fetch.rows => stored'[j].active = FALSE
    BY <1>1, StoreFacts
  <2> QED
    BY <1>1, <2>1 DEF Current
<1> QED
  BY <1>2 DEF Settled

\* A 304 of such a board finds it settled.
LEMMA UnmodifiedSettled ==
  ASSUME Single, NotModified
  PROVE  Settled
<1>2. fetch.phase = "listing" /\ fetch.cache = Listing(fetch.page)
  BY DEF NotModified
<1>3. fetch.page = 1 /\ ~Paged
  BY <1>2 DEF Single, IInv, Shape, Paged
<1>4. OnPage(1) = Listed
  BY <1>3 DEF OnPage, PageOf
<1>5. fetch.cache = <<1, [j \in Listed |-> posted[j]], Cardinality(Listed)>>
  BY <1>2, <1>3, <1>4 DEF Listing, Single
<1>6. fetch.cache \in {None, <<kind>>, Whole(Active, StoredText)}
  BY <1>2 DEF Single, IInv, Snapshots
<1>7. fetch.cache = Whole(Active, StoredText)
  BY <1>5, <1>6 DEF None
<1>8. [j \in Listed |-> posted[j]] = [j \in Active |-> StoredText[j]]
  BY <1>5, <1>7 DEF Whole
<1>9. Listed = Active /\ \A j \in Listed : posted[j] = StoredText[j]
  BY <1>8
<1>10. ASSUME NEW j \in Job
       PROVE  IF j \in Listed THEN Current(j) ELSE ~stored[j].active
  <2>1. stored[j] \in [active : BOOLEAN, text : Texts]
    BY DEF Single, IInv, TypeOK
  <2>2. CASE j \in Listed
    <3>1. stored[j].active = TRUE /\ stored[j].text = posted[j]
      BY <1>9, <2>1, <2>2 DEF Active, StoredText
    <3> QED
      BY <2>1, <2>2, <3>1 DEF Current
  <2>3. CASE j \notin Listed
    BY <1>9, <2>3 DEF Active
  <2> QED
    BY <2>2, <2>3
<1> QED
  BY <1>10 DEF Settled

\* A board of one response that stops changing: once a refresh has ended, whatever
\* the next reads is the board as it is, and the one after it leaves the store as
\* the provider lists the board, for ever.  It asks for no fairness, since the
\* property names what it rests on.
THEOREM StoreComesToRest == Spec => StoreSettles
<1> DEFINE Quiet == posted' = posted
           Ends == Store \/ NotModified
           One == kind = "single"
<1>1. Single /\ [Next]_vars => One'
  BY KindKept DEF Single
<1>2. ASSUME Single, [Next]_vars, [Quiet]_vars, Fresh
      PROVE  Fresh'
  <2>1. CASE Store
    BY <2>1, IdleFacts DEF Store, Fresh
  <2>2. CASE \E known \in BOOLEAN : ReadPage(known)
    BY <1>2, <2>2, QuietStep, ReadWhole
  <2>3. CASE fetch'.phase # "details"
    BY <2>3 DEF Fresh
  <2>4. CASE fetch' = fetch
    BY <1>2, <2>4, QuietStep DEF Fresh
  <2> QED
    BY <1>2, <2>1, <2>2, <2>3, <2>4, QuietStep
<1>3. ASSUME Single, <<Ends>>_vars
      PROVE  Fresh'
  BY <1>3, IdleFacts DEF Store, NotModified, Fresh
<1>4. ASSUME Single, [Next]_vars, [Quiet]_vars, Fresh, <<Ends>>_vars
      PROVE  Settled'
  <2>1. posted' = posted /\ Listed' = Listed
    BY <1>4, QuietStep
  <2>2. CASE Store
    BY <1>4, <2>1, <2>2, StoreSettled
  <2>3. CASE NotModified
    <3>1. Settled /\ stored' = stored
      BY <1>4, <2>3, UnmodifiedSettled DEF NotModified
    <3> QED
      BY <2>1, <3>1 DEF Settled, Current
  <2> QED
    BY <1>4, <2>2, <2>3
<1>5. ASSUME Single, [Next]_vars, [Quiet]_vars, Fresh, Settled
      PROVE  Settled'
  <2>1. posted' = posted /\ Listed' = Listed /\ (stored' = stored \/ Store)
    BY <1>5, QuietStep
  <2>2. CASE Store
    BY <1>5, <2>1, <2>2, StoreSettled
  <2>3. CASE stored' = stored
    BY <1>5, <2>1, <2>3 DEF Settled, Current
  <2> QED
    BY <2>1, <2>2, <2>3
<1>6. Single <=> IInv /\ One
  BY DEF Single
<1>7. StoreSettles <=> (One /\ <>[][Quiet]_vars /\ []<><<Ends>>_vars => <>[]Settled)
  BY PTL DEF StoreSettles, Settled
<1> HIDE DEF One, Quiet, Ends
<1> QED
  BY <1>1, <1>2, <1>3, <1>4, <1>5, <1>6, <1>7, BoardInvariant, PTL DEF Spec
===============================================================================
