---------------------------- MODULE SourceRegistry ----------------------------
(***************************************************************************)
(* The registry of job boards (db/source_registry.py) and the commands     *)
(* that write it: sources bootstrap, sources discover and the jobs and     *)
(* retry-failed ingestions (ingestion/cli.py, discovery/orchestrator.py,   *)
(* ingestion/pipeline.py).                                                 *)
(*                                                                         *)
(* A command holds the writer lock until it ends (cli.main), so commands   *)
(* do not overlap; but a command commits board by board, time passes       *)
(* between its commits, and it may be interrupted or killed between any    *)
(* two of them.  work is what the running command has still to do.         *)
(***************************************************************************)
EXTENDS DueSelection, PublicFetch

CONSTANTS
  Seed,            \* boards listed in config/sources.json
  Shortest, Hour, SixHours, Week, Fortnight, Month,   \* the retry delays
  RefreshInterval, \* ingestion_refresh_interval_hours
  IngestLimit,     \* jobs --limit
  ProbeLimit,      \* sources discover --batch-size
  ForceAllowed,    \* whether sources discover runs with --force
  MaxTime          \* bound of the clock, for model checking

ASSUME RegistryAssumption ==
  /\ Seed \subseteq Board
  /\ {Shortest, Hour, SixHours, Week, Fortnight, Month} \subseteq Nat \ {0}
  /\ Shortest <= Hour /\ Hour <= SixHours /\ SixHours <= Week
  /\ Week <= Fortnight /\ Fortnight <= Month
  /\ RefreshInterval \in Nat \ {0}
  /\ IngestLimit \in Nat \ {0} /\ ProbeLimit \in Nat \ {0}
  /\ ForceAllowed \in BOOLEAN
  /\ MaxTime \in Nat

VARIABLES
  source,    \* the sources table
  command,   \* the command that runs
  work,      \* the boards it has selected and not yet committed
  now        \* the clock

vars == <<source, command, work, now>>

ValidationState == {"discovered", "pending_validation", "verified", "invalid",
                    "transient_failure", "blocked", "retry_later"}
SourceStatus == {"unverified", "healthy", "empty", "degraded", "failing",
                 "blocked", "disabled"}

\* consecutive_failures only matters up to three.
FailureLimit == 3

Unknown == [validation_state |-> "absent", status |-> "unverified",
            enabled |-> FALSE, verified |-> FALSE, discovered_at |-> Never,
            last_checked_at |-> Never, last_success_at |-> Never,
            last_ingested_at |-> Never, retry_after |-> Never,
            consecutive_failures |-> 0, raw_job_count |-> 0]

Known(b) == source[b].validation_state # "absent"

-------------------------------------------------------------------------------
(* What the methods of SourceRegistry make of one row.                     *)

\* upsert_candidate
Upserted(r, enabled, t) ==
  IF r.validation_state = "absent"
  THEN [r EXCEPT !.validation_state = "discovered", !.enabled = enabled,
                 !.discovered_at = t]
  ELSE [r EXCEPT !.enabled = IF enabled THEN TRUE ELSE @]

\* import_config: every configuration that load_sources returns is enabled.
Configured(r, t) == Upserted(r, TRUE, t)

\* Mutant: the snapshot always wins over the local health history.
RestoredAlways(r, at, health, observed, t) ==
  [Configured(r, t) EXCEPT
     !.validation_state = "verified", !.status = health, !.verified = TRUE,
     !.last_checked_at = at, !.last_success_at = at, !.retry_after = at + Week,
     !.raw_job_count = observed, !.enabled = TRUE]

\* Mutant: the local history is kept, but upsert_candidate has enabled the board.
RestoredEnabled(r, at, health, observed, t) ==
  IF r.last_checked_at # Never /\ r.last_checked_at > at
  THEN Configured(r, t)
  ELSE RestoredAlways(r, at, health, observed, t)

\* import_verified_snapshot of a board the snapshot says was last checked, and
\* found alive, at `at`.
Restored(r, at, health, observed, t) ==
  LET imported == Configured(r, t)
  IN  IF r.last_checked_at # Never /\ r.last_checked_at > at
      THEN [imported EXCEPT !.enabled = r.enabled]
      ELSE [imported EXCEPT
              !.validation_state = "verified", !.status = health,
              !.verified = TRUE, !.last_checked_at = at,
              !.last_success_at = at, !.retry_after = at + Week,
              !.raw_job_count = observed, !.enabled = TRUE]

\* record_validation of a valid answer that shows this many jobs
Validated(r, job_count, t) ==
  [r EXCEPT !.validation_state = "verified", !.retry_after = t + Week,
            !.verified = TRUE, !.last_checked_at = t, !.last_success_at = t,
            !.consecutive_failures = 0, !.enabled = TRUE,
            !.status = IF job_count > 0 THEN "healthy" ELSE "empty"]

\* Mutant: the yield of the run replaces the count of jobs seen.
CountedTwice(r, raw_jobs, t) ==
  [r EXCEPT !.raw_job_count = @ + raw_jobs, !.last_ingested_at = t,
            !.status = IF @ = "empty" /\ raw_jobs > 0 THEN "healthy" ELSE @]

\* record_ingestion_counts
Counted(r, raw_jobs, t) ==
  [r EXCEPT !.raw_job_count = raw_jobs, !.last_ingested_at = t,
            !.status = IF @ = "empty" /\ raw_jobs > 0 THEN "healthy" ELSE @]

\* _retry_policy of a failure that PublicFetch lists.
RetryState(f) ==
  IF f.category = "not_found" \/ f.http_status = 404 THEN "invalid"
  ELSE IF f.category = "blocked" \/ f.http_status = 403 THEN "blocked"
  ELSE IF \/ f.category \in {"rate_limited", "timeout", "network", "server_error"}
          \/ f.http_status = 429
       THEN "retry_later"
  ELSE "transient_failure"

Lasting == {"invalid_response", "http_error", "validation_exception"}

RetryDelay(f) ==
  CASE RetryState(f) = "invalid" -> Month
    [] RetryState(f) = "blocked" -> Fortnight
    [] RetryState(f) = "retry_later" ->
         IF f.retry_after_seconds = Never THEN Hour
         ELSE Least(Greatest(f.retry_after_seconds, Shortest), Week)
    [] RetryState(f) = "transient_failure" ->
         IF f.category \in Lasting THEN SixHours ELSE Hour

FailedStatus(f, failures) ==
  CASE RetryState(f) = "blocked" -> "blocked"
    [] RetryState(f) = "invalid" -> "disabled"
    [] OTHER -> IF failures >= FailureLimit THEN "failing" ELSE "degraded"

\* Mutant: the gate is closed for failing boards only.
RefusedOpen(r, f, t) ==
  LET failures == Least(r.consecutive_failures + 1, FailureLimit)
      status == FailedStatus(f, failures)
  IN  [r EXCEPT !.validation_state = RetryState(f), !.status = status,
                !.retry_after = t + RetryDelay(f), !.last_checked_at = t,
                !.consecutive_failures = failures,
                !.enabled = IF status = "failing" THEN FALSE ELSE @]

\* record_validation of a failure
Refused(r, f, t) ==
  LET failures == Least(r.consecutive_failures + 1, FailureLimit)
      status == FailedStatus(f, failures)
  IN  [r EXCEPT !.validation_state = RetryState(f), !.status = status,
                !.retry_after = t + RetryDelay(f), !.last_checked_at = t,
                !.consecutive_failures = failures,
                !.enabled = IF status = "degraded" THEN @ ELSE FALSE]

-------------------------------------------------------------------------------
(* What the commands select.                                               *)

\* Mutant: the deadline counts only for boards that failed repeatedly.
BackingOffRepeated(r, statuses) ==
  r.status \in statuses \ {"degraded"} /\ r.retry_after > now

BackingOff(r, statuses) == r.status \in statuses /\ r.retry_after > now

\* Mutant: only boards that were checked have a deadline to wait for.
ShouldValidateUnchecked(r) ==
  \/ r.last_success_at = Never
  \/ r.retry_after <= now /\ r.last_checked_at <= now - Week

\* should_validate without --force
ShouldValidate(r) ==
  /\ r.retry_after <= now
  /\ r.validation_state = "verified" =>
       (r.last_checked_at = Never \/ r.last_checked_at <= now - Week)

\* The rows of the registry that are candidates of every discovery run.
PreviousRegistry ==
  {b \in Board : Known(b) /\
     (source[b].verified \/ source[b].validation_state \notin {"invalid", "blocked"})}

Priority(state) ==
  CASE state \in {"discovered", "pending_validation"} -> 0
    [] state \in {"retry_later", "transient_failure"} -> 1
    [] state = "verified" -> 2
    [] state \in {"invalid", "blocked"} -> 3

\* due_for_ingestion
DueCandidates ==
  {b \in Board :
     /\ source[b].verified
     /\ source[b].enabled \/ source[b].status \in {"degraded", "failing"}
     /\ \/ source[b].last_ingested_at = Never
        \/ source[b].last_ingested_at <= now - RefreshInterval
     /\ ~BackingOff(source[b], {"degraded", "failing"})}

DueForIngestion ==
  LET never == {b \in DueCandidates : source[b].last_ingested_at = Never}
  IN  Batch(DueCandidates \ never, never,
            [b \in Board |-> source[b].last_ingested_at],
            [b \in Board |-> source[b].discovered_at], IngestLimit)

\* un_ingested_verified_sources
UnIngestedVerified ==
  {b \in Board :
     /\ source[b].enabled /\ source[b].verified
     /\ source[b].last_ingested_at = Never
     /\ ~BackingOff(source[b], {"degraded", "failing", "blocked"})}

\* list_sources as jobs --registry calls it
RegistrySources ==
  {b \in Board : /\ source[b].verified
                 /\ source[b].status \in {"healthy", "degraded", "failing", "empty"}}

\* failed_sources
FailedSources ==
  {b \in Board : /\ source[b].status \in {"degraded", "failing", "blocked"}
                 /\ source[b].retry_after <= now}

-------------------------------------------------------------------------------
(* The commands.                                                           *)

Init ==
  /\ source = [b \in Board |-> Unknown]
  /\ command = "none"
  /\ work = {}
  /\ now = 0

\* The hours pass, during commands and between them.
Tick ==
  /\ now < MaxTime
  /\ now' = now + 1
  /\ UNCHANGED <<source, command, work>>

Ingestion == {"ingest", "ingest_all"}

Begin(name, boards) ==
  /\ command = "none"
  /\ command' = name
  /\ work' = boards
  /\ UNCHANGED now

\* sources bootstrap: the snapshot, which another registry exported some time
\* ago, and then every seed, in one transaction.  checked[b] is the time of
\* the snapshot's health record of b, Never for a board it does not list.
Bootstrap(checked, health, observed) ==
  LET restored(b) == IF checked[b] = Never THEN source[b]
                     ELSE Restored(source[b], checked[b], health, observed, now)
  IN  /\ command = "none"
      /\ source' = [b \in Board |-> IF b \in Seed THEN Configured(restored(b), now)
                                                  ELSE restored(b)]
      /\ UNCHANGED <<command, work, now>>

\* sources discover, up to the commit before its first probe: harvested and
\* known boards are upserted, the due ones ranked, the batch marked pending.
Discover(harvested, force) ==
  LET upserted == [b \in Board |-> IF b \in harvested \cup PreviousRegistry
                                   THEN Upserted(source[b], FALSE, now)
                                   ELSE source[b]]
      due == {b \in harvested \cup PreviousRegistry :
                force \/ ShouldValidate(upserted[b])}
      batch == First(due, [b \in Board |-> IF b \in due
                                THEN Priority(upserted[b].validation_state) ELSE 0],
                     ProbeLimit)
  IN  /\ Begin("discover", batch)
      /\ source' = [b \in Board |->
           IF b \in batch
           THEN [upserted[b] EXCEPT !.validation_state = "pending_validation"]
           ELSE upserted[b]]

\* jobs --registry with --due-for-refresh or --only-uningested and sources
\* retry-failed ("ingest"); jobs --registry alone ("ingest_all").
Ingest(name, boards) ==
  /\ Begin(name, boards)
  /\ UNCHANGED source

Commit(b, names, row) ==
  /\ command \in names
  /\ b \in work
  /\ source' = [source EXCEPT ![b] = row]
  /\ work' = work \ {b}
  /\ UNCHANGED <<command, now>>

\* persist_result: a probe sees no jobs, --full-content counts them.
ProbeValid(b, job_count) ==
  Commit(b, {"discover"}, Validated(source[b], job_count, now))

ProbeInvalid(b, f) ==
  Commit(b, {"discover"}, Refused(source[b], f, now))

\* ingest_source after a 200 and after a 304, which only a board that was
\* ingested before can answer (to_config sends no validators otherwise).
Ingested(b, raw_jobs) ==
  Commit(b, Ingestion, Counted(Validated(source[b], raw_jobs, now), raw_jobs, now))

NotModified(b) ==
  LET r == source[b]
  IN  /\ r.last_ingested_at # Never
      /\ Commit(b, Ingestion, Counted(Validated(r, r.raw_job_count, now),
                                     r.raw_job_count, now))

\* ingest_source after an exception; it passes no Retry-After on.
IngestFailed(b, f) ==
  Commit(b, Ingestion, Refused(source[b], f, now))

\* The command ends, or is interrupted with boards left.
Stop ==
  /\ command # "none"
  /\ command' = "none"
  /\ work' = {}
  /\ UNCHANGED <<source, now>>

BootstrapStep ==
  \E checked \in [Board -> {Never} \cup 0..now], health \in {"healthy", "empty"},
     observed \in {0, 1} :
       Bootstrap(checked, health, observed)

DiscoverStep ==
  \E harvested \in SUBSET Board, force \in {FALSE, ForceAllowed} :
    Discover(harvested, force)

IngestStep ==
  \/ Ingest("ingest", DueForIngestion)
  \/ Ingest("ingest", UnIngestedVerified)
  \/ Ingest("ingest", FailedSources)
  \/ Ingest("ingest_all", RegistrySources)

CommitStep ==
  \E b \in Board :
    \/ \E n \in {0, 1} : ProbeValid(b, n) \/ Ingested(b, n)
    \/ NotModified(b)
    \/ \E f \in ProbeFailures : ProbeInvalid(b, f)
    \/ \E f \in IngestFailures : IngestFailed(b, f)

Next ==
  Tick \/ BootstrapStep \/ DiscoverStep \/ IngestStep \/ CommitStep
    \/ Stop

Spec == Init /\ [][Next]_vars

-------------------------------------------------------------------------------

Row == [validation_state : ValidationState \cup {"absent"},
        status : SourceStatus, enabled : BOOLEAN, verified : BOOLEAN,
        discovered_at : Int, last_checked_at : Int, last_success_at : Int,
        last_ingested_at : Int, retry_after : Int,
        consecutive_failures : 0..FailureLimit, raw_job_count : {0, 1}]

\* Type correctness of the registry, the running command and its work.
TypeOK ==
  /\ source \in [Board -> Row]
  /\ command \in {"none", "discover"} \cup Ingestion
  /\ work \in SUBSET Board
  /\ now \in Nat

FailedStatuses == {"degraded", "failing", "blocked", "disabled"}

\* Whatever the coverage counts and the exported snapshot call live (a verified
\* validation state) is enabled, answered at its last check, and is not
\* labelled failed: build_snapshot and coverage() rely on it.
LiveIsProven ==
  \A b \in Board : source[b].validation_state = "verified" =>
    /\ source[b].enabled /\ source[b].verified
    /\ source[b].status \in {"healthy", "empty"}
    /\ source[b].last_success_at # Never
    /\ source[b].last_success_at = source[b].last_checked_at

\* Every failed board carries a deadline after its last check, so that "no
\* deadline" never lets it through the selections (retry_after.is_(None)).
FailureHasDeadline ==
  \A b \in Board : source[b].status \in FailedStatuses =>
    /\ source[b].last_checked_at # Never
    /\ source[b].retry_after >= source[b].last_checked_at + Shortest

\* The failure counter and the label agree: degraded is one or two failures in
\* a row, failing at least three ("three consecutive ingestion failures").
LabelCountsFailures ==
  \A b \in Board :
    /\ source[b].status = "degraded" => source[b].consecutive_failures \in 1..2
    /\ source[b].status = "failing" => source[b].consecutive_failures = FailureLimit

\* A board that is no seed stays disabled while it is labelled failing,
\* blocked or gone, whatever snapshots are imported meanwhile
\* (import_verified_snapshot "must not re-enable a source").
GateHolds ==
  \A b \in Board \ Seed :
    source[b].status \in {"failing", "blocked", "disabled"} => ~source[b].enabled

\* The flags of a row agree after any sequence of imports, probes, ingestions,
\* failures and interruptions, from registries that are hours apart.
FlagsAgree == LiveIsProven /\ FailureHasDeadline /\ LabelCountsFailures /\ GateHolds

\* Between commands no pending board has a deadline to wait for: a batch that
\* was interrupted strands nothing ("pending candidates remain retryable").
PendingRetryable ==
  command = "none" =>
    \A b \in Board : source[b].validation_state = "pending_validation"
                        => source[b].retry_after <= now

\* The clock of a board's health never runs backwards: no import replaces a
\* newer health decision with an older one.
HealthNeverRegresses ==
  [][\A b \in Board : source'[b].last_checked_at >= source[b].last_checked_at]_vars

\* A closed gate opens only on proof, not older than the last check, that the
\* board answers (for every board but the seeds).
GateOpensOnProof ==
  [][\A b \in Board \ Seed :
       ~source[b].enabled /\ source'[b].enabled =>
         /\ source'[b].validation_state = "verified"
         /\ source'[b].last_success_at >= source[b].last_checked_at]_vars

\* Scheduled ingestion takes no failed board before its deadline, unless the
\* board is a seed ("re-enter only after their backoff deadline").
BackoffHonoured ==
  [][command = "none" /\ command' = "ingest" =>
       \A b \in work' \ Seed :
         source[b].status \in FailedStatuses => source[b].retry_after <= now]_vars
===============================================================================
