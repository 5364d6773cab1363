--------------------------- MODULE RefreshSchedule ----------------------------
(***************************************************************************)
(* Hours of runs over several boards: who is refreshed when (daily-ingest, *)
(* jobs --registry --due-for-refresh).  The batch is planned from the      *)
(* number of boards and taken by DueSelection; a board that was ingested   *)
(* is due again after an interval, one that has failed after its backoff.  *)
(* What a run commits, it commits after it has selected, so a board that   *)
(* was taken by one run has been waiting for less than n hours when the    *)
(* n-th run after it selects.                                              *)
(***************************************************************************)
EXTENDS DueSelection, Functions

CONSTANTS Interval,            \* INGESTION_REFRESH_INTERVAL_HOURS (18)
          MaxRevisit,          \* INGESTION_MAX_REVISIT_HOURS (25)
          MinBatch, MaxBatch,  \* INGESTION_MIN_ and _MAX_BATCH_SIZE (150, 400)
          Backoff,             \* hours until a failed board is asked again (1, 6)
          Failing,             \* boards that may come to fail for ever
          MaxAge               \* bound of the exploration: hours that are counted

ASSUME ScheduleAssumption ==
  /\ Interval \in Nat \ {0} /\ MaxRevisit \in Nat /\ MaxRevisit > Interval
  /\ MinBatch \in Nat \ {0} /\ MaxBatch \in Nat /\ MinBatch <= MaxBatch
  /\ Backoff \in Nat /\ Failing \subseteq Board
  /\ MaxAge \in Nat \ {0}
  /\ IsFiniteSet(Board)

VARIABLES
  line,    \* the place of a board by last_ingested_at, 0 if it was not ingested
  found,   \* the place by discovered_at of one that waits for its first ingestion
  age,     \* hours since a board was ingested, or else verified
  held,    \* hours until a board that failed is asked again
  broken,  \* boards that fail now
  taken    \* the batch of the last run

vars == <<line, found, age, held, broken, taken>>

\* The boards that have a place.
In(order) == {b \in Board : order[b] # 0}

Verified == In(line) \cup In(found)

CeilDiv(a, b) == (a + b - 1) \div b

-------------------------------------------------------------------------------
(* The plan of a run.                                                      *)

Shared(slots) == CeilDiv(100 * slots, StaleShare)   \* ceil(slots / stale_share)
Recurring(batch) == CeilDiv(batch * StaleShare, 100)

Required(boards) ==
  Greatest(MinBatch, Shared(CeilDiv(boards, MaxRevisit - Interval)))

PlannedBatch(boards) == Least(Required(boards), MaxBatch)

\* The bound the workflow prints; it warns where it is more than MaxRevisit.
WorstCase(boards) == Interval + CeilDiv(boards, Recurring(PlannedBatch(boards)))

\* A batch leaves a slot to new boards, and what the workflow announces is never
\* less for one more board: so it is with its numbers, from 150 boards a run, 75%
\* of them refreshes, to 400.
ASSUME PlanAssumption ==
  /\ \A limit \in MinBatch..MaxBatch : Recurring(limit) < limit
  /\ \A n \in 0..(Cardinality(Board) - 1) : WorstCase(n) <= WorstCase(n + 1)

-------------------------------------------------------------------------------
(* An hour.                                                                *)

DueRefreshes == {b \in In(line) : age[b] > Interval /\ held[b] = 0}
DueBoards == {b \in In(found) : held[b] = 0}

Init ==
  /\ line = [b \in Board |-> 0] /\ found = [b \in Board |-> 0]
  /\ age = [b \in Board |-> 0] /\ held = [b \in Board |-> 0]
  /\ broken = {} /\ taken = {}

\* A probe proves that a board answers, one that was discovered before others
\* that wait or after them.
Verify(b) ==
  /\ b \notin Verified
  /\ \E i \in 1..(Cardinality(In(found)) + 1) :
       found' = [c \in Board |-> IF c = b THEN i
                                 ELSE IF found[c] >= i THEN found[c] + 1 ELSE found[c]]
  /\ age' = [age EXCEPT ![b] = 1]
  /\ UNCHANGED <<line, held, broken, taken>>

Break(b) ==
  /\ b \in Failing \ broken
  /\ broken' = broken \cup {b}
  /\ UNCHANGED <<line, found, age, held, taken>>

\* An hour passes for everyone but the boards ingested in it.
Passes(ingested, failed) ==
  /\ age' = [b \in Board |-> IF b \in ingested THEN 1
                             ELSE IF b \in Verified THEN Least(age[b] + 1, MaxAge)
                             ELSE 0]
  /\ held' = [b \in Board |-> IF b \in failed THEN Backoff
                              ELSE Greatest(held[b] - 1, 0)]

\* Mutant: a board that was ingested keeps its last time.
Retained(order, S) == order

\* The order without the boards of S: how many of the others come no later.
Without(order, S) ==
  [b \in Board |-> IF b \in S \/ order[b] = 0 THEN 0
                   ELSE Cardinality({a \in In(order) \ S : order[a] <= order[b]})]

\* The boards of S come last, in the order done.
Behind(order, S, done) ==
  [b \in Board |-> IF b \in S THEN Cardinality(In(order) \ S) + done[b]
                   ELSE Without(order, S)[b]]

\* A run takes a batch; its boards finish in any order.
Run ==
  \E batch \in {Batch(DueRefreshes, DueBoards, line, found,
                       PlannedBatch(Cardinality(Verified)))} :
    LET ingested == batch \ broken
    IN  /\ \E done \in Bijection(ingested, 1..Cardinality(ingested)) :
             line' = Behind(line, ingested, done)
        /\ found' = Without(found, ingested)
        /\ Passes(ingested, batch \cap broken)
        /\ taken' = batch
        /\ UNCHANGED broken

Next ==
  \/ \E b \in Board : Verify(b) \/ Break(b)
  \/ Run

\* A run is started every hour, by a schedule that nothing else disables.
Spec == Init /\ [][Next]_vars /\ WF_vars(Run)

-------------------------------------------------------------------------------
(* Properties.                                                             *)

\* Places are 1, 2, ... and no two boards have one.
Order(order) ==
  /\ order \in [Board -> Nat]
  /\ \A a, b \in In(order) : order[a] = order[b] => a = b
  /\ {order[b] : b \in In(order)} = 1..Cardinality(In(order))

\* A board waits in one of the two queues, in one place.
TypeOK ==
  /\ Order(line) /\ Order(found) /\ In(line) \cap In(found) = {}
  /\ age \in [Board -> 0..MaxAge] /\ held \in [Board -> 0..Backoff]
  /\ broken \subseteq Failing /\ taken \subseteq Verified

\* What the workflow announces of its plan comes true.  A run takes no more than
\* the batch.  While every run ingests what it takes, a board is refreshed within
\* the hours announced, however many new boards compete for the batch, and a new
\* board within as many hours as there are boards, however many wait to be
\* refreshed.
PlanKept ==
  LET boards == Cardinality(Verified)
  IN  /\ Cardinality(taken) <= PlannedBatch(boards)
      /\ broken = {} =>
           /\ \A b \in In(line) :
                /\ age[b] <= WorstCase(boards)
                /\ Required(boards) <= MaxBatch => age[b] <= MaxRevisit
           /\ \A b \in In(found) : age[b] <= Cardinality(Board)

\* A board that answers is ingested again and again, whatever fails.
NoStarvation ==
  \A b \in Board \ Failing : b \in Verified ~> b \in taken
==============================================================================
