----------------------------- MODULE PublicFetch -----------------------------
(***************************************************************************)
(* What a request to a provider comes to, after its retries                *)
(* (discovery/http.py, connectors/base.py), and the failures that a probe  *)
(* (discovery/validation.py) and an ingestion report to the registry.      *)
(***************************************************************************)
EXTENDS Integers

CONSTANTS Attempts,       \* discovery_retry_attempts
          SuppliedDelay   \* retry_after_seconds a provider may send

Never == -1               \* None, for a delay or a timestamp

ASSUME FetchAssumption ==
  /\ Attempts \in Nat \ {0}
  /\ SuppliedDelay \subseteq Nat

\* One status of each group the code tells apart, and what else may happen.
Statuses == {200, 304, 401, 403, 404, 405, 429, 500, 501}
Problems == {"timeout", "network", "unsafe_url", "redirect"}

\* What one attempt comes to; status is 0 where there was no answer.
Answer ==
  [status : Statuses, problem : {"none"}, retry_after : SuppliedDelay \cup {Never}]
    \cup [status : {0}, problem : Problems, retry_after : {Never}]

Category(answer) ==
  CASE answer.problem # "none" -> answer.problem
    [] answer.problem = "none" /\ answer.status < 400 -> "success"
    [] answer.problem = "none" /\ answer.status \in {401, 403} -> "blocked"
    [] answer.problem = "none" /\ answer.status = 404 -> "not_found"
    [] answer.problem = "none" /\ answer.status = 429 -> "rate_limited"
    [] answer.problem = "none" /\ answer.status >= 500 -> "server_error"
    [] OTHER -> "http_error"

Failing(answers) == {a \in answers : Category(a) # "success"}

\* The first of n attempts that ends the loop, or else the last.
Outcome(answers, n, ending) ==
  LET Ends(k) == k = n \/ Category(answers[k]) \in ending
  IN  answers[CHOOSE k \in 1..n : Ends(k) /\ \A j \in 1..(k - 1) : ~Ends(j)]

\* fetch_public.  An http_error is tried again too, at once.
FetchPublic(answers) ==
  Outcome(answers, Attempts, {"success", "blocked", "not_found", "unsafe_url", "redirect"})

Fetched == {FetchPublic(answers) : answers \in [1..Attempts -> Answer]}

\* BaseConnector._get, with three attempts; _post has one.
ConnectorGet(answers) ==
  Outcome(answers, 3, {"success", "blocked", "not_found", "http_error", "unsafe_url", "redirect"})

\* What the registry is told of a failure.
Failed(category, http_status, delay) ==
  [category |-> category, http_status |-> http_status, retry_after_seconds |-> delay]

\* PublicFetchError.  Only what survives the retries hands the delay on.
PublicFetchError(a) ==
  Failed(Category(a), a.status,
         IF Category(a) \in {"rate_limited", "server_error", "http_error"}
         THEN a.retry_after ELSE Never)

\* A probe with HEAD.  Where the method is not allowed no GET follows: the name
\* that would hold its answer is read unassigned, and validate_one catches that.
HeadError(a) ==
  IF a.status \in {405, 501} THEN Failed("validation_exception", 0, Never)
                             ELSE PublicFetchError(a)

\* Ashby: a board that is blocked is asked for as a page.
AshbyAnswer(a, page) == IF a.status = 403 THEN page ELSE a

AshbyFetched == {AshbyAnswer(a, page) : a \in Fetched, page \in Fetched}

\* Workday: one POST without retries, whose statuses are all alike.
WorkdayAnswer == {a \in Answer : a.problem # "redirect"}

WorkdayError(a) ==
  Failed(IF a.problem = "none" THEN "http_error" ELSE a.problem, a.status, Never)

\* validate_candidate of a provider's answers, and validate_one of what it does
\* not catch.
ProbeFailures ==
  {PublicFetchError(a) : a \in Failing(Fetched \cup AshbyFetched)}
    \cup {HeadError(a) : a \in Failing(Fetched)}
    \cup {WorkdayError(a) : a \in Failing(WorkdayAnswer)}
    \cup {Failed(category, 0, Never) : category \in {"invalid_response", "validation_exception"}}

\* ConnectorError, of requests and of what they return; an exception of any other
\* class is "ingestion".
ConnectorError(a) == Failed(Category(a), a.status, Never)

IngestFailures ==
  {ConnectorError(a) : a \in Failing({ConnectorGet(answers) :
      answers \in [1..3 -> {a \in Answer : a.retry_after = Never}]} \cup Answer)}
    \cup {Failed(category, 0, Never) :
            category \in {"invalid_response", "unsupported_provider_boundary", "ingestion"}}

\* All of them.
Failure ==
  [category : Problems \cup {"success", "blocked", "not_found", "rate_limited",
                             "server_error", "http_error", "invalid_response",
                             "validation_exception", "unsupported_provider_boundary",
                             "ingestion"},
   http_status : Statuses \cup {0},
   retry_after_seconds : SuppliedDelay \cup {Never}]
===============================================================================
