----------------------------- MODULE DueSelection -----------------------------
(***************************************************************************)
(* Which boards a bounded run takes (db/source_registry.py,                *)
(* due_for_ingestion; discovery/orchestrator.py, the selected batch).      *)
(* Batches are sets: the code starts every member of a batch and lets them *)
(* finish in any order.                                                    *)
(***************************************************************************)
EXTENDS Integers, FiniteSets

CONSTANTS Board,       \* boards, the rows of the sources table
          Rank,        \* the order of (provider, board_identifier)
          StaleShare   \* percent of a batch reserved for recurring refreshes

ASSUME SelectionAssumption ==
  /\ Rank \in [Board -> Nat]
  /\ \A a, b \in Board : Rank[a] = Rank[b] => a = b
  /\ StaleShare \in 1..99

Least(a, b) == IF a <= b THEN a ELSE b
Greatest(a, b) == IF a >= b THEN a ELSE b

\* Mutant: sorted by (provider, board_identifier) only.
PrecedesByName(a, b, key) == Rank[a] < Rank[b]

\* a sorts before b by (key, provider, board_identifier).
Precedes(a, b, key) ==
  key[a] < key[b] \/ (key[a] = key[b] /\ Rank[a] < Rank[b])

\* sorted(S, key)[:n]
First(S, key, n) ==
  {b \in S : Cardinality({a \in S : Precedes(a, b, key)}) < n}

\* ceil(limit * stale_share), at least one, at most the stale boards there are.
StaleSlots(stale, limit) ==
  Least(Cardinality(stale), Greatest(1, (limit * StaleShare + 99) \div 100))

\* Mutant: new boards have what the stale ones leave.
NeverSlotsLeft(stale, never, limit) ==
  Least(Cardinality(never), Greatest(0, limit - Cardinality(stale)))

NeverSlots(stale, never, limit) ==
  Least(Cardinality(never), Greatest(1, limit - StaleSlots(stale, limit)))

\* The batch of due_for_ingestion: what neither reservation uses goes to the
\* stale boards first, then to the never-ingested ones.
Batch(stale, never, ingestedAt, discoveredAt, limit) ==
  LET staleSlots == StaleSlots(stale, limit)
      neverSlots == NeverSlots(stale, never, limit)
      remaining == limit - staleSlots - neverSlots
      staleTaken == Least(Cardinality(stale), staleSlots + Greatest(0, remaining))
      left == limit - staleTaken - neverSlots
      neverTaken == neverSlots + Greatest(0, left)
  IN  IF Cardinality(stale) + Cardinality(never) <= limit
        THEN stale \cup never
      ELSE IF stale = {} THEN First(never, discoveredAt, limit)
      ELSE IF never = {} THEN First(stale, ingestedAt, limit)
      ELSE First(stale, ingestedAt, staleTaken)
             \cup First(never, discoveredAt, neverTaken)
===============================================================================
