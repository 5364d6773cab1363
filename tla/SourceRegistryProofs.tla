------------------------- MODULE SourceRegistryProofs -------------------------
(***************************************************************************)
(* Proofs about the source registry, for any boards, seeds, delays and     *)
(* batch sizes.  The inductive invariant says of every row what each       *)
(* method of SourceRegistry preserves, so a lemma about each method does   *)
(* most of the work; the commands then only combine them.                  *)
(***************************************************************************)
EXTENDS SourceRegistry, NaturalsInduction, WellFoundedInduction, TLAPS

-------------------------------------------------------------------------------
(* The requests to a provider, for any number of attempts and any delays a *)
(* provider supplies: a fetch is as good as the first of its attempts that *)
(* settles it, and what probes and ingestions report is always of the type *)
(* the registry's retry policy is written for.                             *)

\* The attempt that the loop of the code stops at.
Settles(answers, n, ending, k) ==
  /\ k \in 1..n
  /\ k = n \/ Category(answers[k]) \in ending
  /\ \A j \in 1..(k - 1) : ~(j = n \/ Category(answers[j]) \in ending)

LEMMA SettlingExists ==
  ASSUME NEW n \in Nat \ {0}, NEW answers, NEW ending
  PROVE  \E k : Settles(answers, n, ending, k)
<1> DEFINE Ends(k) == k = n \/ Category(answers[k]) \in ending
           T == {k \in 1..n : Ends(k)}
           R == OpToRel(<, Nat)
<1>1. n \in T
  OBVIOUS
<1>2. IsWellFoundedOn(R, Nat)
  BY NatLessThanWellFounded
<1>3. T \subseteq Nat
  OBVIOUS
<1>4. PICK k \in T : \A j \in T : ~(<<j, k>> \in R)
  <2> HIDE DEF T, R
  <2> QED
    BY <1>1, <1>2, <1>3, WFMin
<1>5. ASSUME NEW j \in 1..(k - 1)
      PROVE  ~Ends(j)
  <2>1. j \in 1..n /\ j < k /\ j \in Nat /\ k \in Nat
    OBVIOUS
  <2>2. <<j, k>> \in R
    BY <2>1 DEF OpToRel
  <2> QED
    BY <1>4, <2>1, <2>2
<1> QED
  BY <1>4, <1>5 DEF Settles

\* The outcome of n attempts is that of the attempt at which the loop stops:
\* one that settles it or the last one, after none that would have settled it
\* (the loops of fetch_public and of BaseConnector._get).
THEOREM OutcomeSettles ==
  ASSUME NEW n \in Nat \ {0}, NEW answers, NEW ending
  PROVE  \E k \in 1..n :
           /\ Outcome(answers, n, ending) = answers[k]
           /\ Settles(answers, n, ending, k)
<1> DEFINE k == CHOOSE i \in 1..n : Settles(answers, n, ending, i)
<1>1. \E i \in 1..n : Settles(answers, n, ending, i)
  BY SettlingExists DEF Settles
<1>2. k \in 1..n /\ Settles(answers, n, ending, k)
  BY <1>1
<1>3. Outcome(answers, n, ending) = answers[k]
  <2>1. ASSUME NEW i \in 1..n
        PROVE  Settles(answers, n, ending, i)
                 <=> /\ i = n \/ Category(answers[i]) \in ending
                     /\ \A j \in 1..(i - 1) : ~(j = n \/ Category(answers[j]) \in ending)
    BY DEF Settles
  <2> QED
    BY <2>1 DEF Outcome
<1> QED
  BY <1>2, <1>3

LEMMA OutcomeIsAnswer ==
  ASSUME NEW n \in Nat \ {0}, NEW S, NEW answers \in [1..n -> S], NEW ending
  PROVE  Outcome(answers, n, ending) \in S
BY OutcomeSettles

LEMMA CategoryType ==
  ASSUME NEW a \in Answer
  PROVE  Category(a) \in Problems \cup {"success", "blocked", "not_found",
                                        "rate_limited", "server_error", "http_error"}
BY DEF Answer, Category, Problems, Statuses

LEMMA AnswerFields ==
  ASSUME NEW a \in Answer
  PROVE  /\ a.status \in Statuses \cup {0}
         /\ a.retry_after \in SuppliedDelay \cup {Never}
         /\ a.problem \in Problems \cup {"none"}
BY DEF Answer

LEMMA FetchedAnswers == Fetched \subseteq Answer
<1> SUFFICES ASSUME NEW answers \in [1..Attempts -> Answer]
             PROVE  FetchPublic(answers) \in Answer
  BY DEF Fetched
<1> QED
  BY OutcomeIsAnswer, FetchAssumption DEF FetchPublic

LEMMA FailedType ==
  ASSUME NEW category \in Problems \cup {"success", "blocked", "not_found",
            "rate_limited", "server_error", "http_error", "invalid_response",
            "validation_exception", "unsupported_provider_boundary", "ingestion"},
         NEW http_status \in Statuses \cup {0},
         NEW delay \in SuppliedDelay \cup {Never}
  PROVE  Failed(category, http_status, delay) \in Failure
BY DEF Failed, Failure

LEMMA ReportTypes ==
  ASSUME NEW a \in Answer
  PROVE  /\ PublicFetchError(a) \in Failure
         /\ WorkdayError(a) \in Failure
         /\ ConnectorError(a) \in Failure
<1>1. PublicFetchError(a) \in Failure
  BY CategoryType, AnswerFields, FailedType DEF PublicFetchError
<1>2. WorkdayError(a) \in Failure
  BY AnswerFields, FailedType DEF WorkdayError
<1>3. ConnectorError(a) \in Failure
  BY CategoryType, AnswerFields, FailedType DEF ConnectorError
<1> QED
  BY <1>1, <1>2, <1>3

LEMMA OtherReports ==
  \A category \in {"invalid_response", "validation_exception",
                   "unsupported_provider_boundary", "ingestion"} :
    Failed(category, 0, Never) \in Failure
BY FailedType

\* What a probe reports to the registry, after the retries of fetch_public and
\* the second request of an Ashby board, is a failure of its retry policy.
THEOREM ProbeReports == ProbeFailures \subseteq Failure
<1>1. ASSUME NEW a \in Failing(Fetched \cup AshbyFetched)
      PROVE  PublicFetchError(a) \in Failure
  BY FetchedAnswers, ReportTypes DEF Failing, AshbyFetched, AshbyAnswer
<1>2. ASSUME NEW a \in Failing(Fetched)
      PROVE  HeadError(a) \in Failure
  BY FetchedAnswers, ReportTypes, OtherReports DEF Failing, HeadError
<1>3. ASSUME NEW a \in Failing(WorkdayAnswer)
      PROVE  WorkdayError(a) \in Failure
  BY ReportTypes DEF Failing, WorkdayAnswer
<1>4. \A category \in {"invalid_response", "validation_exception"} :
        Failed(category, 0, Never) \in Failure
  BY OtherReports
<1> QED
  BY <1>1, <1>2, <1>3, <1>4, Zenon DEF ProbeFailures

\* What an ingestion reports, after the three attempts of a connector, is one too.
THEOREM IngestReports == IngestFailures \subseteq Failure
<1> DEFINE Bare == {a \in Answer : a.retry_after = Never}
           Got == {ConnectorGet(answers) : answers \in [1..3 -> Bare]}
<1>1. Got \subseteq Answer
  <2> SUFFICES ASSUME NEW answers \in [1..3 -> Bare]
               PROVE  ConnectorGet(answers) \in Bare
    OBVIOUS
  <2>1. 3 \in Nat \ {0}
    OBVIOUS
  <2> HIDE DEF Bare
  <2> QED
    BY <2>1, OutcomeIsAnswer DEF ConnectorGet
<1>2. ASSUME NEW a \in Failing(Got \cup Answer)
      PROVE  ConnectorError(a) \in Failure
  BY <1>1, ReportTypes DEF Failing
<1>3. \A category \in {"invalid_response", "unsupported_provider_boundary", "ingestion"} :
        Failed(category, 0, Never) \in Failure
  BY OtherReports
<1> QED
  BY <1>2, <1>3, Zenon DEF IngestFailures

-------------------------------------------------------------------------------
(* The rows of the registry.                                               *)

\* What holds of a row at time t.
RowInv(r, t) ==
  /\ r \in Row
  /\ r.last_checked_at <= t
  /\ r.validation_state = "verified" =>
       /\ r.enabled /\ r.verified
       /\ r.status \in {"healthy", "empty"}
       /\ r.last_success_at # Never
       /\ r.last_success_at = r.last_checked_at
  /\ r.status \in FailedStatuses =>
       /\ r.last_checked_at # Never
       /\ r.retry_after >= r.last_checked_at + Shortest
  /\ r.status = "degraded" => r.consecutive_failures \in 1..2
  /\ r.status = "failing" => r.consecutive_failures = FailureLimit

Gated(r) == r.status \in {"failing", "blocked", "disabled"} => ~r.enabled

\* The row s may replace r at time t: its health is no older ...
Follows(r, s, t) == RowInv(s, t) /\ s.last_checked_at >= r.last_checked_at

\* ... and, for a board that is no seed, its gate is not opened without proof.
Guarded(r, s) ==
  /\ Gated(r) => Gated(s)
  /\ ~r.enabled /\ s.enabled =>
       s.validation_state = "verified" /\ s.last_success_at >= r.last_checked_at

\* A pending row is one that was pending before, with the same deadline.
Retains(r, s) ==
  s.validation_state = "pending_validation" =>
    /\ r.validation_state = "pending_validation"
    /\ s.retry_after = r.retry_after

Ready(r, t) == r.validation_state = "pending_validation" => r.retry_after <= t

IInv ==
  /\ TypeOK
  /\ \A b \in Board : RowInv(source[b], now)
  /\ \A b \in Board \ Seed : Gated(source[b])

-------------------------------------------------------------------------------
(* The methods of SourceRegistry, one row at a time.                       *)

\* Writing a value of its type into a field leaves a row a row.  The methods
\* write several fields, which is to write them one after the other.
LEMMA Updates ==
  \A r \in Row :
    /\ \A x \in ValidationState : [r EXCEPT !.validation_state = x] \in Row
    /\ \A x \in SourceStatus : [r EXCEPT !.status = x] \in Row
    /\ \A x \in BOOLEAN : [r EXCEPT !.enabled = x] \in Row
    /\ \A x \in BOOLEAN : [r EXCEPT !.verified = x] \in Row
    /\ \A x \in Int : [r EXCEPT !.discovered_at = x] \in Row
    /\ \A x \in Int : [r EXCEPT !.last_checked_at = x] \in Row
    /\ \A x \in Int : [r EXCEPT !.last_success_at = x] \in Row
    /\ \A x \in Int : [r EXCEPT !.last_ingested_at = x] \in Row
    /\ \A x \in Int : [r EXCEPT !.retry_after = x] \in Row
    /\ \A x \in 0..FailureLimit : [r EXCEPT !.consecutive_failures = x] \in Row
    /\ \A x \in {0, 1} : [r EXCEPT !.raw_job_count = x] \in Row
<1> TAKE r \in Row
<1> QED
  BY DEF Row

LEMMA FieldTypes ==
  \A r \in Row :
    /\ r.validation_state \in ValidationState \cup {"absent"}
    /\ r.status \in SourceStatus
    /\ r.enabled \in BOOLEAN /\ r.verified \in BOOLEAN
    /\ r.last_checked_at \in Int /\ r.last_success_at \in Int
    /\ r.last_ingested_at \in Int /\ r.retry_after \in Int
    /\ r.consecutive_failures \in 0..FailureLimit
    /\ r.raw_job_count \in {0, 1}
BY DEF Row

LEMMA StateNames ==
  /\ {"discovered", "pending_validation", "verified"} \subseteq ValidationState
  /\ {"healthy", "empty"} \subseteq SourceStatus
  /\ FailedStatuses \subseteq SourceStatus
  /\ TRUE \in BOOLEAN /\ FALSE \in BOOLEAN
BY DEF ValidationState, SourceStatus, FailedStatuses

LEMMA UpsertedRow ==
  ASSUME NEW t \in Nat, NEW r \in Row, NEW e \in BOOLEAN
  PROVE  Upserted(r, e, t) \in Row
<1>1. CASE r.validation_state = "absent"
  <2>1. t \in Int /\ "discovered" \in ValidationState
    BY StateNames
  <2> QED
    BY <1>1, <2>1, Updates, Zenon DEF Upserted
<1>2. CASE r.validation_state # "absent"
  <2>1. (IF e THEN TRUE ELSE r.enabled) \in BOOLEAN
    BY FieldTypes
  <2> QED
    BY <1>2, <2>1, Updates, Zenon DEF Upserted
<1> QED
  BY <1>1, <1>2

LEMMA UpsertedFields ==
  ASSUME NEW t \in Nat, NEW r \in Row, NEW e \in BOOLEAN
  PROVE  LET s == Upserted(r, e, t)
         IN  /\ s.last_checked_at = r.last_checked_at
             /\ s.last_success_at = r.last_success_at
             /\ s.last_ingested_at = r.last_ingested_at
             /\ s.retry_after = r.retry_after
             /\ s.status = r.status
             /\ s.consecutive_failures = r.consecutive_failures
             /\ s.verified = r.verified
             /\ s.validation_state =
                  (IF r.validation_state = "absent" THEN "discovered"
                                                    ELSE r.validation_state)
             /\ r.validation_state # "absent" => (r.enabled => s.enabled)
             /\ ~e /\ ~r.enabled => ~s.enabled
             /\ e => s.enabled
<1>1. CASE r.validation_state = "absent"
  BY <1>1 DEF Upserted, Row
<1>2. CASE r.validation_state # "absent"
  BY <1>2 DEF Upserted, Row
<1> QED
  BY <1>1, <1>2

LEMMA UpsertedInv ==
  ASSUME NEW t \in Nat, NEW r, RowInv(r, t), NEW e \in BOOLEAN
  PROVE  /\ Follows(r, Upserted(r, e, t), t)
         /\ ~e => Guarded(r, Upserted(r, e, t))
         /\ Retains(r, Upserted(r, e, t))
<1> DEFINE s == Upserted(r, e, t)
<1>1. r \in Row
  BY DEF RowInv
<1>2. s \in Row
  BY <1>1, UpsertedRow
<1>3. /\ s.last_checked_at = r.last_checked_at
      /\ s.last_success_at = r.last_success_at
      /\ s.retry_after = r.retry_after
      /\ s.status = r.status
      /\ s.consecutive_failures = r.consecutive_failures
      /\ s.verified = r.verified
  BY <1>1, UpsertedFields
<1>4. /\ s.validation_state = "verified" =>
           r.validation_state = "verified" /\ (r.enabled => s.enabled)
      /\ ~e /\ ~r.enabled => ~s.enabled
      /\ s.validation_state = "pending_validation" =>
           r.validation_state = "pending_validation"
  BY <1>1, UpsertedFields
<1>5. RowInv(s, t)
  <2>1. s.last_checked_at <= t
    BY <1>3 DEF RowInv
  <2>2. s.validation_state = "verified" =>
          /\ s.enabled /\ s.verified
          /\ s.status \in {"healthy", "empty"}
          /\ s.last_success_at # Never
          /\ s.last_success_at = s.last_checked_at
    BY <1>3, <1>4 DEF RowInv
  <2>3. s.status \in FailedStatuses =>
          /\ s.last_checked_at # Never
          /\ s.retry_after >= s.last_checked_at + Shortest
    BY <1>3 DEF RowInv
  <2>4. /\ s.status = "degraded" => s.consecutive_failures \in 1..2
        /\ s.status = "failing" => s.consecutive_failures = FailureLimit
    BY <1>3 DEF RowInv
  <2> QED
    BY <1>2, <2>1, <2>2, <2>3, <2>4 DEF RowInv
<1>6. s.last_checked_at >= r.last_checked_at
  BY <1>1, <1>3, FieldTypes
<1>7. ~e => Guarded(r, s)
  BY <1>3, <1>4 DEF Gated, Guarded
<1>8. Retains(r, s)
  BY <1>3, <1>4 DEF Retains
<1> QED
  BY <1>5, <1>6, <1>7, <1>8 DEF Follows

\* mark_pending keeps everything but the validation state.
LEMMA MarkPendingInv ==
  ASSUME NEW t \in Nat, NEW r, RowInv(r, t),
         NEW s, s = [r EXCEPT !.validation_state = "pending_validation"]
  PROVE  Follows(r, s, t) /\ Guarded(r, s)
<1>1. r \in Row
  BY DEF RowInv
<1>2. s \in Row
  <2>1. "pending_validation" \in ValidationState
    BY StateNames
  <2> QED
    BY <1>1, <2>1, Updates, Zenon
<1>3. /\ s.last_checked_at = r.last_checked_at
      /\ s.retry_after = r.retry_after
      /\ s.status = r.status
      /\ s.consecutive_failures = r.consecutive_failures
      /\ s.enabled = r.enabled
      /\ s.validation_state = "pending_validation"
  BY <1>1 DEF Row
<1>4. RowInv(s, t)
  BY <1>2, <1>3 DEF RowInv
<1>5. s.last_checked_at >= r.last_checked_at
  BY <1>1, <1>3, FieldTypes
<1> QED
  BY <1>3, <1>4, <1>5 DEF Follows, Guarded, Gated

LEMMA ValidatedInv ==
  ASSUME NEW t \in Nat, NEW r, RowInv(r, t), NEW n \in {0, 1}
  PROVE  /\ Follows(r, Validated(r, n, t), t)
         /\ Guarded(r, Validated(r, n, t))
         /\ Retains(r, Validated(r, n, t))
         /\ Validated(r, n, t).validation_state = "verified"
<1> DEFINE s == Validated(r, n, t)
<1>1. r \in Row
  BY DEF RowInv
<1>2. s \in Row
  <2>1. t \in Int /\ t + Week \in Int /\ 0 \in 0..FailureLimit
    BY RegistryAssumption DEF FailureLimit
  <2>2. "verified" \in ValidationState /\ TRUE \in BOOLEAN
    BY StateNames
  <2>3. (IF n > 0 THEN "healthy" ELSE "empty") \in SourceStatus
    BY StateNames
  <2> QED
    BY <1>1, <2>1, <2>2, <2>3, Updates, Zenon DEF Validated
<1>3. /\ s.last_checked_at = t
      /\ s.last_success_at = t
      /\ s.status \in {"healthy", "empty"}
      /\ s.validation_state = "verified"
      /\ s.verified /\ s.enabled
  BY <1>1 DEF Validated, Row
<1>4. RowInv(s, t)
  BY <1>2, <1>3 DEF RowInv, Never, FailedStatuses
<1>5. s.last_checked_at >= r.last_checked_at
  BY <1>1, <1>3, FieldTypes DEF RowInv
<1> QED
  BY <1>3, <1>4, <1>5 DEF Follows, Guarded, Gated, Retains

\* record_ingestion_counts follows record_validation in a successful ingestion.
LEMMA IngestedInv ==
  ASSUME NEW t \in Nat, NEW r, RowInv(r, t), NEW n \in {0, 1}
  PROVE  /\ Follows(r, Counted(Validated(r, n, t), n, t), t)
         /\ Guarded(r, Counted(Validated(r, n, t), n, t))
         /\ Retains(r, Counted(Validated(r, n, t), n, t))
<1> DEFINE v == Validated(r, n, t)
           s == Counted(v, n, t)
<1>1. RowInv(v, t) /\ v.last_checked_at >= r.last_checked_at
  BY ValidatedInv DEF Follows
<1>2. v \in Row /\ r \in Row
  BY <1>1 DEF RowInv
<1>3. v.validation_state = "verified"
  BY ValidatedInv
<1> HIDE DEF v
<1>4. s \in Row
  <2>1. t \in Int
    OBVIOUS
  <2>2. (IF v.status = "empty" /\ n > 0 THEN "healthy" ELSE v.status) \in SourceStatus
    BY <1>2, StateNames, FieldTypes
  <2> QED
    BY <1>2, <2>1, <2>2, Updates, Zenon DEF Counted
<1>5. /\ s.last_checked_at = v.last_checked_at
      /\ s.last_success_at = v.last_success_at
      /\ s.retry_after = v.retry_after
      /\ s.validation_state = v.validation_state
      /\ s.verified = v.verified
      /\ s.enabled = v.enabled
      /\ s.status = (IF v.status = "empty" /\ n > 0 THEN "healthy" ELSE v.status)
  BY <1>2 DEF Counted, Row
<1>6. RowInv(s, t) /\ s.status \in {"healthy", "empty"}
  BY <1>1, <1>3, <1>4, <1>5 DEF RowInv, FailedStatuses
<1>7. /\ s.last_checked_at >= r.last_checked_at
      /\ s.last_success_at >= r.last_checked_at
      /\ s.validation_state = "verified"
  BY <1>1, <1>3, <1>5 DEF RowInv
<1> QED
  BY <1>6, <1>7 DEF Follows, Guarded, Gated, Retains, v

LEMMA RetryDelayBound ==
  ASSUME NEW f \in Failure
  PROVE  /\ RetryDelay(f) \in Nat /\ RetryDelay(f) >= Shortest
         /\ RetryState(f) \in {"invalid", "blocked", "retry_later", "transient_failure"}
<1>1. RetryState(f) \in {"invalid", "blocked", "retry_later", "transient_failure"}
  BY DEF RetryState
<1>2. f.retry_after_seconds \in Nat \cup {-1}
  BY FetchAssumption DEF Failure, Never
<1>3. CASE RetryState(f) = "retry_later"
  BY <1>2, <1>3, RegistryAssumption DEF RetryDelay, Least, Greatest, Never
<1>4. CASE RetryState(f) # "retry_later"
  BY <1>1, <1>4, RegistryAssumption DEF RetryDelay
<1> QED
  BY <1>1, <1>3, <1>4

LEMMA RefusedInv ==
  ASSUME NEW t \in Nat, NEW r, RowInv(r, t), NEW f \in Failure
  PROVE  /\ Follows(r, Refused(r, f, t), t)
         /\ Guarded(r, Refused(r, f, t))
         /\ Retains(r, Refused(r, f, t))
<1> DEFINE failures == Least(r.consecutive_failures + 1, FailureLimit)
           status == FailedStatus(f, failures)
           s == Refused(r, f, t)
<1>1. r \in Row
  BY DEF RowInv
<1>2. /\ failures \in 1..FailureLimit
      /\ failures < FailureLimit => failures \in 1..2
  BY <1>1, FieldTypes DEF Least, FailureLimit
<1>3. /\ status \in FailedStatuses
      /\ status = "degraded" => failures < FailureLimit
      /\ status = "failing" => failures = FailureLimit
  BY <1>2, RetryDelayBound DEF FailedStatus, FailedStatuses, FailureLimit
<1>4. /\ s.last_checked_at = t
      /\ s.retry_after = t + RetryDelay(f)
      /\ s.status = status
      /\ s.consecutive_failures = failures
      /\ s.validation_state = RetryState(f)
      /\ status # "degraded" => ~s.enabled
      /\ status = "degraded" => s.enabled = r.enabled
  BY <1>1 DEF Refused, Row
<1>5. s \in Row
  <2>1. /\ t \in Int /\ t + RetryDelay(f) \in Int
        /\ failures \in 0..FailureLimit
    BY <1>2, RetryDelayBound DEF FailureLimit
  <2>2. RetryState(f) \in ValidationState
    BY RetryDelayBound DEF ValidationState
  <2>3. status \in SourceStatus
    BY <1>3, StateNames
  <2>4. (IF status = "degraded" THEN r.enabled ELSE FALSE) \in BOOLEAN
    BY <1>1, FieldTypes
  <2> HIDE DEF failures, status
  <2>5. s = [r EXCEPT !.validation_state = RetryState(f), !.status = status,
                !.retry_after = t + RetryDelay(f), !.last_checked_at = t,
                !.consecutive_failures = failures,
                !.enabled = IF status = "degraded" THEN @ ELSE FALSE]
    BY Zenon DEF Refused, failures, status
  <2> HIDE DEF s
  <2> QED
    BY <1>1, <2>1, <2>2, <2>3, <2>4, <2>5, Updates, Zenon
<1> HIDE DEF failures, status
<1>6. RowInv(s, t)
  <2>1. s.validation_state # "verified"
    BY <1>4, RetryDelayBound
  <2>2. s.retry_after >= s.last_checked_at + Shortest
    BY <1>4, RetryDelayBound, RegistryAssumption
  <2> QED
    BY <1>2, <1>3, <1>4, <1>5, <2>1, <2>2 DEF RowInv, Never
<1>7. s.last_checked_at >= r.last_checked_at
  BY <1>1, <1>4, FieldTypes DEF RowInv
<1>8. Gated(s)
  BY <1>4 DEF Gated
<1>9. ~r.enabled => ~s.enabled
  BY <1>4
<1>10. Retains(r, s)
  BY <1>4, RetryDelayBound DEF Retains
<1> QED
  BY <1>6, <1>7, <1>8, <1>9, <1>10 DEF Follows, Guarded

\* A snapshot's health record is of a time already past.
LEMMA RestoredInv ==
  ASSUME NEW t \in Nat, NEW r, RowInv(r, t), NEW at \in 0..t,
         NEW health \in {"healthy", "empty"}, NEW n \in {0, 1}
  PROVE  /\ Follows(r, Restored(r, at, health, n, t), t)
         /\ Guarded(r, Restored(r, at, health, n, t))
         /\ Retains(r, Restored(r, at, health, n, t))
<1> DEFINE u == Upserted(r, TRUE, t)
           s == Restored(r, at, health, n, t)
<1>1. r \in Row
  BY DEF RowInv
<1>2. RowInv(u, t) /\ u \in Row
  BY UpsertedInv DEF Follows, RowInv
<1>3. /\ u.last_checked_at = r.last_checked_at
      /\ u.last_success_at = r.last_success_at
      /\ u.retry_after = r.retry_after
      /\ u.status = r.status
      /\ u.consecutive_failures = r.consecutive_failures
      /\ u.verified = r.verified
      /\ u.validation_state = "verified" => r.validation_state = "verified"
      /\ u.validation_state = "pending_validation" =>
           r.validation_state = "pending_validation"
  BY <1>1, UpsertedFields
<1> HIDE DEF u
<1>4. CASE r.last_checked_at # Never /\ r.last_checked_at > at
  <2>1. s = [u EXCEPT !.enabled = r.enabled]
    BY <1>4 DEF Restored, Configured, u
  <2>2. s \in Row
    <3>1. r.enabled \in BOOLEAN
      BY <1>1, FieldTypes
    <3> QED
      BY <1>2, <2>1, <3>1, Updates, Zenon
  <2>3. /\ s.last_checked_at = u.last_checked_at
        /\ s.last_success_at = u.last_success_at
        /\ s.retry_after = u.retry_after
        /\ s.status = u.status
        /\ s.consecutive_failures = u.consecutive_failures
        /\ s.verified = u.verified
        /\ s.validation_state = u.validation_state
        /\ s.enabled = r.enabled
    BY <1>2, <2>1 DEF Row
  <2>4. RowInv(s, t)
    BY <1>3, <2>2, <2>3, <1>2 DEF RowInv
  <2>5. s.last_checked_at >= r.last_checked_at
    BY <1>1, <1>3, <2>3, FieldTypes
  <2> QED
    BY <1>3, <2>3, <2>4, <2>5 DEF Follows, Guarded, Gated, Retains
<1>5. CASE ~(r.last_checked_at # Never /\ r.last_checked_at > at)
  <2>1. s = [u EXCEPT !.validation_state = "verified", !.status = health,
              !.verified = TRUE, !.last_checked_at = at,
              !.last_success_at = at, !.retry_after = at + Week,
              !.raw_job_count = n, !.enabled = TRUE]
    BY <1>5, Zenon DEF Restored, Configured, u
  <2>2. s \in Row
    <3>1. at \in Int /\ at + Week \in Int
      BY RegistryAssumption
    <3>2. /\ "verified" \in ValidationState /\ TRUE \in BOOLEAN
          /\ health \in SourceStatus
      BY StateNames
    <3> HIDE DEF s
    <3> QED
      BY <1>2, <2>1, <3>1, <3>2, Updates, Zenon
  <2>3. /\ s.last_checked_at = at
        /\ s.last_success_at = at
        /\ s.status = health
        /\ s.validation_state = "verified"
        /\ s.verified /\ s.enabled
    BY <1>2, <2>1 DEF Row
  <2>4. RowInv(s, t)
    BY <2>2, <2>3 DEF RowInv, Never, FailedStatuses
  <2>5. at >= r.last_checked_at
    BY <1>1, <1>5, FieldTypes DEF Never
  <2>6. Gated(s)
    BY <2>3 DEF Gated
  <2> QED
    BY <2>3, <2>4, <2>5, <2>6 DEF Follows, Guarded, Retains
<1> QED
  BY <1>4, <1>5

-------------------------------------------------------------------------------
(* The commands.                                                           *)

LEMMA UnchangedRow ==
  ASSUME NEW t \in Nat, NEW r, RowInv(r, t)
  PROVE  Follows(r, r, t) /\ Guarded(r, r) /\ Retains(r, r)
<1>1. r \in Row
  BY DEF RowInv
<1>2. r.last_checked_at >= r.last_checked_at
  BY <1>1, FieldTypes
<1> QED
  BY <1>2 DEF Follows, Guarded, Retains

\* What a step makes of the rows.
RowsFollow ==
  /\ \A b \in Board : Follows(source[b], source'[b], now)
  /\ \A b \in Board \ Seed : Guarded(source[b], source'[b])

LEMMA BootstrapRows ==
  ASSUME IInv, BootstrapStep
  PROVE  TypeOK' /\ RowsFollow
<1>1. PICK checked \in [Board -> {Never} \cup 0..now],
           health \in {"healthy", "empty"}, observed \in {0, 1} :
             Bootstrap(checked, health, observed)
  BY DEF BootstrapStep
<1> DEFINE restored(b) == IF checked[b] = Never THEN source[b]
                          ELSE Restored(source[b], checked[b], health, observed, now)
<1>2. now \in Nat /\ \A b \in Board : RowInv(source[b], now)
  BY DEF IInv, TypeOK
<1>3. ASSUME NEW b \in Board
      PROVE  Follows(source[b], restored(b), now) /\ Guarded(source[b], restored(b))
  <2>1. CASE checked[b] = Never
    BY <1>2, <2>1, UnchangedRow
  <2>2. CASE checked[b] # Never
    <3>1. checked[b] \in 0..now
      BY <2>2
    <3> QED
      BY <1>2, <2>2, <3>1, RestoredInv
  <2> QED
    BY <2>1, <2>2
<1>4. source' = [b \in Board |-> IF b \in Seed THEN Configured(restored(b), now)
                                               ELSE restored(b)]
  BY <1>1, Zenon DEF Bootstrap
<1> HIDE DEF restored
<1>5. ASSUME NEW b \in Seed
      PROVE  Follows(source[b], source'[b], now)
  <2>1. b \in Board /\ source'[b] = Upserted(restored(b), TRUE, now)
    BY <1>4, RegistryAssumption DEF Configured
  <2>2. Follows(source[b], restored(b), now)
    BY <1>3, <2>1
  <2>3. Follows(restored(b), source'[b], now)
    BY <1>2, <2>1, <2>2, UpsertedInv DEF Follows
  <2>4. source[b] \in Row /\ restored(b) \in Row /\ source'[b] \in Row
    BY <1>2, <2>1, <2>2, <2>3 DEF Follows, RowInv
  <2>5. source'[b].last_checked_at >= source[b].last_checked_at
    BY <2>2, <2>3, <2>4, FieldTypes DEF Follows
  <2> QED
    BY <2>3, <2>5 DEF Follows
<1>6. ASSUME NEW b \in Board \ Seed
      PROVE  Follows(source[b], source'[b], now) /\ Guarded(source[b], source'[b])
  BY <1>3, <1>4
<1>7. RowsFollow
  BY <1>5, <1>6 DEF RowsFollow
<1>8. source' \in [Board -> Row]
  BY <1>4, <1>7 DEF RowsFollow, Follows, RowInv
<1> QED
  BY <1>1, <1>7, <1>8 DEF IInv, TypeOK, Bootstrap

LEMMA DiscoverRows ==
  ASSUME IInv, DiscoverStep
  PROVE  TypeOK' /\ RowsFollow
<1>1. PICK harvested \in SUBSET Board, force \in {FALSE, ForceAllowed} :
             Discover(harvested, force)
  BY DEF DiscoverStep
<1> DEFINE upserted == [b \in Board |-> IF b \in harvested \cup PreviousRegistry
                                         THEN Upserted(source[b], FALSE, now)
                                         ELSE source[b]]
           due == {b \in harvested \cup PreviousRegistry :
                     force \/ ShouldValidate(upserted[b])}
           batch == First(due, [b \in Board |-> IF b \in due
                                THEN Priority(upserted[b].validation_state) ELSE 0],
                          ProbeLimit)
<1>2. now \in Nat /\ \A b \in Board : RowInv(source[b], now)
  BY DEF IInv, TypeOK
<1>3. ASSUME NEW b \in Board
      PROVE  /\ Follows(source[b], upserted[b], now) /\ Guarded(source[b], upserted[b])
             /\ ~source[b].enabled => ~upserted[b].enabled
  <2>1. CASE b \in harvested \cup PreviousRegistry
    <3>1. source[b] \in Row
      BY <1>2 DEF RowInv
    <3> QED
      BY <1>2, <2>1, <3>1, UpsertedInv, UpsertedFields
  <2>2. CASE b \notin harvested \cup PreviousRegistry
    BY <1>2, <2>2, UnchangedRow
  <2> QED
    BY <2>1, <2>2
<1>4. /\ source' = [b \in Board |->
           IF b \in batch
           THEN [upserted[b] EXCEPT !.validation_state = "pending_validation"]
           ELSE upserted[b]]
      /\ command' = "discover" /\ work' = batch /\ now' = now
  BY <1>1, Zenon DEF Discover, Begin
<1>5. batch \subseteq Board
  BY DEF First, PreviousRegistry
<1> HIDE DEF upserted, due, batch
<1>6. ASSUME NEW b \in Board
      PROVE  Follows(source[b], source'[b], now) /\ Guarded(source[b], source'[b])
  <2>1. CASE b \notin batch
    BY <1>3, <1>4, <2>1
  <2>2. CASE b \in batch
    <3> DEFINE u == upserted[b]
    <3>1. source'[b] = [u EXCEPT !.validation_state = "pending_validation"]
      BY <1>4, <2>2
    <3>2. Follows(source[b], u, now) /\ Guarded(source[b], u)
      BY <1>3
    <3> HIDE DEF u
    <3>3. Follows(u, source'[b], now) /\ Guarded(u, source'[b])
      BY <1>2, <3>1, <3>2, MarkPendingInv DEF Follows
    <3>4. source[b] \in Row /\ u \in Row /\ source'[b] \in Row
      BY <1>2, <3>2, <3>3 DEF Follows, RowInv
    <3>5. source'[b].last_checked_at >= source[b].last_checked_at
      BY <3>2, <3>3, <3>4, FieldTypes DEF Follows
    <3>6. source'[b].enabled = u.enabled /\ source'[b].status = u.status
      BY <3>1, <3>4 DEF Row
    <3>7. Gated(source[b]) => Gated(source'[b])
      BY <3>2, <3>6 DEF Guarded, Gated
    <3>8. ~source[b].enabled => ~source'[b].enabled
      BY <1>3, <3>6 DEF u
    <3> QED
      BY <3>3, <3>5, <3>7, <3>8 DEF Follows, Guarded
  <2> QED
    BY <2>1, <2>2
<1>7. RowsFollow
  BY <1>6 DEF RowsFollow
<1>8. source' \in [Board -> Row]
  BY <1>4, <1>7 DEF RowsFollow, Follows, RowInv
<1> QED
  BY <1>2, <1>4, <1>5, <1>7, <1>8 DEF TypeOK

\* A command commits one of these to a board of its batch.
LEMMA CommitCases ==
  ASSUME CommitStep
  PROVE  \E b \in Board :
           \/ \E n \in {0, 1} : ProbeValid(b, n) \/ Ingested(b, n)
           \/ NotModified(b)
           \/ \E f \in Failure : ProbeInvalid(b, f) \/ IngestFailed(b, f)
BY ProbeReports, IngestReports DEF CommitStep

LEMMA CommitRows ==
  ASSUME IInv, CommitStep
  PROVE  TypeOK' /\ RowsFollow
<1>1. now \in Nat /\ \A b \in Board : RowInv(source[b], now)
  BY DEF IInv, TypeOK
<1>2. ASSUME NEW b \in Board, NEW names, NEW row, Commit(b, names, row),
             Follows(source[b], row, now), Guarded(source[b], row)
      PROVE  TypeOK' /\ RowsFollow
  <2>1. source' = [source EXCEPT ![b] = row] /\ source \in [Board -> Row]
    BY <1>2 DEF Commit, IInv, TypeOK
  <2>2. ASSUME NEW c \in Board
        PROVE  Follows(source[c], source'[c], now) /\ Guarded(source[c], source'[c])
    <3>1. CASE c = b
      BY <1>2, <2>1, <3>1
    <3>2. CASE c # b
      BY <1>1, <2>1, <3>2, UnchangedRow
    <3> QED
      BY <3>1, <3>2
  <2>3. RowsFollow
    BY <2>2 DEF RowsFollow
  <2>4. source' \in [Board -> Row]
    BY <1>2, <2>1 DEF Follows, RowInv
  <2> QED
    BY <1>2, <2>3, <2>4 DEF Commit, IInv, TypeOK
<1>3. PICK b \in Board :
        \/ \E n \in {0, 1} : ProbeValid(b, n) \/ Ingested(b, n)
        \/ NotModified(b)
        \/ \E f \in Failure : ProbeInvalid(b, f) \/ IngestFailed(b, f)
  BY CommitCases
<1>4. ASSUME NEW n \in {0, 1}, ProbeValid(b, n)
      PROVE  TypeOK' /\ RowsFollow
  BY <1>1, <1>2, <1>4, ValidatedInv DEF ProbeValid
<1>5. ASSUME NEW n \in {0, 1}, Ingested(b, n)
      PROVE  TypeOK' /\ RowsFollow
  BY <1>1, <1>2, <1>5, IngestedInv DEF Ingested
<1>6. ASSUME NotModified(b)
      PROVE  TypeOK' /\ RowsFollow
  <2>1. source[b].raw_job_count \in {0, 1}
    BY <1>1, FieldTypes DEF RowInv
  <2> QED
    BY <1>1, <1>2, <1>6, <2>1, IngestedInv DEF NotModified
<1>7. ASSUME NEW f \in Failure, ProbeInvalid(b, f) \/ IngestFailed(b, f)
      PROVE  TypeOK' /\ RowsFollow
  BY <1>1, <1>2, <1>7, RefusedInv DEF ProbeInvalid, IngestFailed
<1> QED
  BY <1>3, <1>4, <1>5, <1>6, <1>7

\* The selections only ever select boards.
LEMMA SelectionsAreBoards ==
  /\ DueForIngestion \subseteq Board
  /\ UnIngestedVerified \subseteq Board
  /\ FailedSources \subseteq Board
  /\ RegistrySources \subseteq Board
<1>1. DueForIngestion \subseteq DueCandidates
  BY DEF DueForIngestion, Batch, First
<1> QED
  BY <1>1 DEF DueCandidates, UnIngestedVerified, FailedSources, RegistrySources

\* The steps that write no row.
LEMMA QuietRows ==
  ASSUME IInv, Tick \/ IngestStep \/ Stop \/ UNCHANGED vars
  PROVE  TypeOK' /\ RowsFollow
<1>1. source' = source
  BY DEF Tick, IngestStep, Ingest, Stop, vars
<1>2. RowsFollow
  BY <1>1, UnchangedRow DEF RowsFollow, IInv, TypeOK
<1>3. now' \in Nat
  BY DEF Tick, IngestStep, Ingest, Begin, Stop, vars, IInv, TypeOK
<1>4. /\ command' \in {"none", "discover"} \cup Ingestion
      /\ work' \in SUBSET Board
  BY SelectionsAreBoards
     DEF Tick, IngestStep, Ingest, Begin, Stop, vars, IInv, TypeOK, Ingestion
<1> QED
  BY <1>1, <1>2, <1>3, <1>4 DEF IInv, TypeOK

LEMMA NextRows ==
  ASSUME IInv, [Next]_vars
  PROVE  TypeOK' /\ RowsFollow
BY BootstrapRows, DiscoverRows, CommitRows, QuietRows DEF Next

LEMMA InductiveInit == Init => IInv
<1> SUFFICES ASSUME Init
             PROVE  IInv
  OBVIOUS
<1>1. Unknown \in Row
  BY DEF Unknown, Row, Never, SourceStatus, FailureLimit
<1>2. ASSUME NEW b \in Board
      PROVE  RowInv(source[b], now) /\ Gated(source[b])
  <2>1. source[b] = Unknown /\ now = 0
    BY DEF Init
  <2> QED
    BY <1>1, <2>1 DEF RowInv, Gated, Unknown, Never, FailedStatuses
<1>3. TypeOK
  BY <1>1 DEF Init, TypeOK
<1> QED
  BY <1>2, <1>3 DEF IInv

LEMMA ClockAdvances == [Next]_vars => now' = now \/ now' = now + 1
<1>1. Tick => now' = now + 1
  BY DEF Tick
<1>2. BootstrapStep => now' = now
  BY Zenon DEF BootstrapStep, Bootstrap
<1>3. DiscoverStep => now' = now
  BY Zenon DEF DiscoverStep, Discover, Begin
<1>4. IngestStep => now' = now
  BY Zenon DEF IngestStep, Ingest, Begin
<1>5. CommitStep => now' = now
  BY Zenon DEF CommitStep, Commit, ProbeValid, ProbeInvalid, Ingested,
     NotModified, IngestFailed
<1>6. Stop \/ UNCHANGED vars => now' = now
  BY DEF Stop, vars
<1> QED
  BY <1>1, <1>2, <1>3, <1>4, <1>5, <1>6 DEF Next

LEMMA InductiveStep == IInv /\ [Next]_vars => IInv'
<1> SUFFICES ASSUME IInv, [Next]_vars
             PROVE  IInv'
  OBVIOUS
<1>1. TypeOK' /\ RowsFollow
  BY NextRows
<1>2. now \in Nat /\ now' \in Nat /\ now' >= now
  BY <1>1, ClockAdvances DEF IInv, TypeOK
<1>3. ASSUME NEW b \in Board
      PROVE  RowInv(source'[b], now')
  <2>1. RowInv(source'[b], now)
    BY <1>1 DEF RowsFollow, Follows
  <2>2. source'[b].last_checked_at \in Int
    BY <2>1, FieldTypes DEF RowInv
  <2>3. source'[b].last_checked_at <= now'
    BY <1>2, <2>1, <2>2 DEF RowInv
  <2> QED
    BY <2>1, <2>3 DEF RowInv
<1>4. \A b \in Board \ Seed : Gated(source'[b])
  BY <1>1 DEF RowsFollow, Guarded, IInv
<1> QED
  BY <1>1, <1>3, <1>4 DEF IInv

THEOREM RegistryInvariant == Spec => []IInv
BY InductiveInit, InductiveStep, PTL DEF Spec

\* The registry stays well typed.
THEOREM RegistryTypeCorrect == Spec => []TypeOK
<1>1. IInv => TypeOK
  BY DEF IInv
<1> QED
  BY <1>1, RegistryInvariant, PTL

\* Whatever is called live is enabled and answered at its last check; no failed
\* board is without a deadline that the selections honour; the failure counter
\* and the label agree; boards labelled failing, blocked or gone stay disabled,
\* but for the seeds.
THEOREM FlagsKept == Spec => []FlagsAgree
<1>1. IInv => LiveIsProven
  BY DEF IInv, RowInv, LiveIsProven
<1>2. IInv => FailureHasDeadline
  BY DEF IInv, RowInv, FailureHasDeadline
<1>3. IInv => LabelCountsFailures
  BY DEF IInv, RowInv, LabelCountsFailures
<1>4. IInv => GateHolds
  BY DEF IInv, Gated, GateHolds
<1>5. IInv => FlagsAgree
  BY <1>1, <1>2, <1>3, <1>4 DEF FlagsAgree
<1> QED
  BY <1>5, RegistryInvariant, PTL

\* No snapshot import or late answer replaces a newer health decision.
THEOREM HealthKept == Spec => HealthNeverRegresses
<1>1. IInv /\ [Next]_vars =>
        [\A b \in Board : source'[b].last_checked_at >= source[b].last_checked_at]_vars
  BY NextRows DEF RowsFollow, Follows
<1> QED
  BY <1>1, RegistryInvariant, PTL DEF Spec, HealthNeverRegresses

\* Only proof that a board answers opens its gate.
THEOREM GateProof == Spec => GateOpensOnProof
<1>1. IInv /\ [Next]_vars =>
        [\A b \in Board \ Seed :
           ~source[b].enabled /\ source'[b].enabled =>
             /\ source'[b].validation_state = "verified"
             /\ source'[b].last_success_at >= source[b].last_checked_at]_vars
  BY NextRows DEF RowsFollow, Guarded
<1> QED
  BY <1>1, RegistryInvariant, PTL DEF Spec, GateOpensOnProof

\* Scheduled ingestion never takes a failed board before its deadline.
THEOREM BackoffKept == Spec => BackoffHonoured
<1> DEFINE Honoured ==
       command = "none" /\ command' = "ingest" =>
         \A b \in work' \ Seed :
           source[b].status \in FailedStatuses => source[b].retry_after <= now
<1>1. ASSUME IInv, command = "none", command' = "ingest", [Next]_vars,
             NEW b \in work' \ Seed, source[b].status \in FailedStatuses
      PROVE  source[b].retry_after <= now
  <2>1. IngestStep
    BY <1>1 DEF Next, Tick, BootstrapStep, Bootstrap, DiscoverStep, Discover,
       Begin, CommitStep, Commit, ProbeValid, ProbeInvalid, Ingested,
       NotModified, IngestFailed, Stop, vars, Ingestion
  <2>2. work' \in {DueForIngestion, UnIngestedVerified, FailedSources}
    BY <1>1, <2>1 DEF IngestStep, Ingest, Begin
  <2>3. b \in Board
    BY <2>2, SelectionsAreBoards
  <2>4. source[b] \in Row /\ now \in Nat
    BY <1>1, <2>3 DEF IInv, RowInv, TypeOK
  <2>5. source[b].status \in {"failing", "blocked", "disabled"} => ~source[b].enabled
    BY <1>1, <2>3 DEF IInv, Gated
  <2>6. CASE work' = DueForIngestion
    <3>1. b \in DueCandidates
      BY <2>6 DEF DueForIngestion, Batch, First
    <3> QED
      BY <1>1, <2>4, <2>5, <3>1, FieldTypes
         DEF DueCandidates, BackingOff, FailedStatuses
  <2>7. CASE work' = UnIngestedVerified
    BY <1>1, <2>4, <2>5, <2>7, FieldTypes
       DEF UnIngestedVerified, BackingOff, FailedStatuses
  <2>8. CASE work' = FailedSources
    BY <2>8 DEF FailedSources
  <2> QED
    BY <2>2, <2>6, <2>7, <2>8
<1>2. IInv /\ [Next]_vars => [Honoured]_vars
  BY <1>1
<1> QED
  BY <1>2, RegistryInvariant, PTL DEF Spec, BackoffHonoured

-------------------------------------------------------------------------------
(* Pending boards, when sources discover runs without --force.             *)

PendingInv == \A b \in Board : Ready(source[b], now)

RowsRetain == \A b \in Board : Retains(source[b], source'[b])

LEMMA BootstrapRetains == IInv /\ BootstrapStep => RowsRetain
<1> SUFFICES ASSUME IInv, BootstrapStep, NEW b \in Board
             PROVE  Retains(source[b], source'[b])
  BY DEF RowsRetain
<1>1. PICK checked \in [Board -> {Never} \cup 0..now],
           health \in {"healthy", "empty"}, observed \in {0, 1} :
             Bootstrap(checked, health, observed)
  BY DEF BootstrapStep
<1> DEFINE restored(c) == IF checked[c] = Never THEN source[c]
                          ELSE Restored(source[c], checked[c], health, observed, now)
<1>2. now \in Nat /\ RowInv(source[b], now)
  BY DEF IInv, TypeOK
<1>3. Retains(source[b], restored(b)) /\ RowInv(restored(b), now)
  <2>1. CASE checked[b] = Never
    BY <1>2, <2>1, UnchangedRow
  <2>2. CASE checked[b] # Never
    <3>1. checked[b] \in 0..now
      BY <2>2
    <3> QED
      BY <1>2, <2>2, <3>1, RestoredInv DEF Follows
  <2> QED
    BY <2>1, <2>2
<1>4. source' = [c \in Board |-> IF c \in Seed THEN Configured(restored(c), now)
                                               ELSE restored(c)]
  BY <1>1, Zenon DEF Bootstrap
<1> HIDE DEF restored
<1>5. CASE b \notin Seed
  BY <1>3, <1>4, <1>5
<1>6. CASE b \in Seed
  <2>1. source'[b] = Upserted(restored(b), TRUE, now)
    BY <1>4, <1>6 DEF Configured
  <2>2. Retains(restored(b), source'[b])
    BY <1>2, <1>3, <2>1, UpsertedInv
  <2> QED
    BY <1>3, <2>2 DEF Retains
<1> QED
  BY <1>5, <1>6

\* The batch is taken from the due boards, whose deadline has passed.
LEMMA DiscoverReady ==
  ASSUME ForceAllowed = FALSE, IInv, PendingInv, DiscoverStep, NEW b \in Board
  PROVE  Ready(source'[b], now)
<1>1. PICK harvested \in SUBSET Board, force \in {FALSE, ForceAllowed} :
             Discover(harvested, force)
  BY DEF DiscoverStep
<1> DEFINE upserted == [c \in Board |-> IF c \in harvested \cup PreviousRegistry
                                         THEN Upserted(source[c], FALSE, now)
                                         ELSE source[c]]
           due == {c \in harvested \cup PreviousRegistry :
                     force \/ ShouldValidate(upserted[c])}
           batch == First(due, [c \in Board |-> IF c \in due
                                THEN Priority(upserted[c].validation_state) ELSE 0],
                          ProbeLimit)
           u == upserted[b]
<1>2. now \in Nat /\ RowInv(source[b], now)
  BY DEF IInv, TypeOK
<1>3. RowInv(u, now) /\ Ready(u, now)
  <2>1. Ready(source[b], now)
    BY DEF PendingInv
  <2>2. CASE b \in harvested \cup PreviousRegistry
    <3>1. u = Upserted(source[b], FALSE, now)
      BY <2>2
    <3> QED
      BY <1>2, <2>1, <3>1, UpsertedInv DEF Ready, Retains, Follows
  <2>3. CASE b \notin harvested \cup PreviousRegistry
    BY <1>2, <2>1, <2>3
  <2> QED
    BY <2>2, <2>3
<1>4. source'[b] = IF b \in batch
                   THEN [u EXCEPT !.validation_state = "pending_validation"]
                   ELSE u
  BY <1>1, Zenon DEF Discover
<1>5. b \in batch => ShouldValidate(u)
  BY <1>1 DEF First
<1> HIDE DEF u, batch
<1>6. CASE b \in batch
  <2>1. u \in Row /\ u.retry_after <= now
    BY <1>3, <1>5, <1>6 DEF RowInv, ShouldValidate
  <2>2. source'[b].retry_after = u.retry_after
    BY <1>4, <1>6, <2>1 DEF Row
  <2> QED
    BY <2>1, <2>2 DEF Ready
<1> QED
  BY <1>3, <1>4, <1>6

LEMMA CommitRetains == IInv /\ CommitStep => RowsRetain
<1> SUFFICES ASSUME IInv, CommitStep
             PROVE  RowsRetain
  OBVIOUS
<1>1. now \in Nat /\ \A b \in Board : RowInv(source[b], now)
  BY DEF IInv, TypeOK
<1>2. ASSUME NEW b \in Board, NEW names, NEW row, Commit(b, names, row),
             Retains(source[b], row)
      PROVE  RowsRetain
  <2>1. source' = [source EXCEPT ![b] = row] /\ source \in [Board -> Row]
    BY <1>2 DEF Commit, IInv, TypeOK
  <2> QED
    BY <1>1, <1>2, <2>1, UnchangedRow DEF RowsRetain
<1>3. PICK b \in Board :
        \/ \E n \in {0, 1} : ProbeValid(b, n) \/ Ingested(b, n)
        \/ NotModified(b)
        \/ \E f \in Failure : ProbeInvalid(b, f) \/ IngestFailed(b, f)
  BY CommitCases
<1>4. ASSUME NEW n \in {0, 1}, ProbeValid(b, n) \/ Ingested(b, n)
      PROVE  RowsRetain
  BY <1>1, <1>2, <1>4, ValidatedInv, IngestedInv DEF ProbeValid, Ingested
<1>5. ASSUME NotModified(b)
      PROVE  RowsRetain
  <2>1. source[b].raw_job_count \in {0, 1}
    BY <1>1, FieldTypes DEF RowInv
  <2> QED
    BY <1>1, <1>2, <1>5, <2>1, IngestedInv DEF NotModified
<1>6. ASSUME NEW f \in Failure, ProbeInvalid(b, f) \/ IngestFailed(b, f)
      PROVE  RowsRetain
  BY <1>1, <1>2, <1>6, RefusedInv DEF ProbeInvalid, IngestFailed
<1> QED
  BY <1>3, <1>4, <1>5, <1>6

\* However long a batch is and wherever it is interrupted, the boards it leaves
\* pending can be validated again at once, as long as nobody forces a batch.
THEOREM PendingNotStranded ==
  ASSUME ForceAllowed = FALSE
  PROVE  Spec => []PendingRetryable
<1>1. Init => PendingInv
  BY DEF Init, PendingInv, Ready, Unknown
<1>2. IInv /\ IInv' /\ PendingInv /\ [Next]_vars => PendingInv'
  <2> SUFFICES ASSUME IInv, IInv', PendingInv, [Next]_vars, NEW b \in Board
               PROVE  Ready(source'[b], now')
    BY DEF PendingInv
  <2>1. Ready(source'[b], now)
    <3>1. CASE RowsRetain
      BY <3>1 DEF RowsRetain, Retains, Ready, PendingInv
    <3>2. CASE DiscoverStep
      BY <3>2, DiscoverReady
    <3>3. CASE Tick \/ IngestStep \/ Stop \/ UNCHANGED vars
      <4>1. source' = source
        BY <3>3 DEF Tick, IngestStep, Ingest, Stop, vars
      <4> QED
        BY <4>1 DEF PendingInv
    <3> QED
      BY <3>1, <3>2, <3>3, BootstrapRetains, CommitRetains DEF Next
  <2>2. now \in Nat /\ now' \in Nat /\ now' >= now
    BY ClockAdvances DEF IInv, TypeOK
  <2>3. source'[b].retry_after \in Int
    BY FieldTypes DEF IInv, RowInv
  <2> QED
    BY <2>1, <2>2, <2>3 DEF Ready
<1>3. IInv /\ PendingInv => PendingRetryable
  BY DEF PendingInv, PendingRetryable, Ready
<1> QED
  BY <1>1, <1>2, <1>3, RegistryInvariant, PTL DEF Spec
===============================================================================
