---------------------------- MODULE DesktopRefresh ----------------------------
(***************************************************************************)
(* The Windows launcher (packaging/windows/launcher.py): when it refreshes *)
(* and what it writes of a refresh to last-refresh.json, which the         *)
(* interface shows.                                                        *)
(*                                                                         *)
(* A refresh runs in a thread of the window or in a process of its own     *)
(* (--refresh-only).  Its transactions are one step each, for they hold    *)
(* the writer lock (WriterLock, CatalogDelivery, JobStore).  The file is   *)
(* rewritten without a lock: read, written next to it, and replaced.       *)
(***************************************************************************)
EXTENDS Integers

CONSTANTS Thread,   \* threads of the window that may refresh
          Process,  \* processes of their own that may (a name may be both, in turn)
          MaxDay,   \* bound: how many times 24 hours pass
          None

ASSUME DesktopAssumption ==
  /\ MaxDay \in Nat
  /\ None \notin Thread \cup Process /\ None \notin Nat

Worker == Thread \cup Process
Days == 0..MaxDay

VARIABLES
  day,          \* the clock, in REFRESH_INTERVAL
  window,       \* whether the window is there and its services answer
  refreshing,   \* LauncherWindow.refreshing
  file, temp,   \* last-refresh.json and last-refresh.json.tmp
  work,         \* the refreshes under way
  source,       \* what the local catalog was last taken from: "live" feeds, or the
                \* bundle, "contested" when another refresh was under way
  synced        \* history: the day something was first synced, or None

vars == <<day, window, refreshing, file, temp, work, source, synced>>

Recorded == [state : {"syncing", "success", "failed", "stale_fallback"},
             completed : Days \cup {None}, last : Days \cup {None}]

\* Where a refresh stands in refresh_jobs: at a mark or between two.
Marks == {"started", "refreshed", "failed", "fallback", "ingested", "gave_up"}
Places == Marks \cup {"set", "sync", "bundled", "registry", "end"}

\* alone and outcome are history: whether no other refresh overlapped it, and what
\* it should end with, unless it was not alone or could not write the file.
Refresh == [at : Places, threaded : BOOLEAN, payload : Recorded \cup {None},
            written : BOOLEAN, alone : BOOLEAN,
            outcome : {"success", "failed", "stale_fallback", None}]

ASSUME NoneAssumption == None \notin Recorded \cup Refresh /\ None # "bundled"

Blank == [state |-> "failed", completed |-> None, last |-> None]

Running == {w \in Worker : work[w] # None}

Init ==
  /\ day = 0 /\ window = FALSE /\ refreshing = FALSE /\ file = None /\ temp = None
  /\ work = [w \in Worker |-> None] /\ source = None /\ synced = None

-------------------------------------------------------------------------------
(* last-refresh.json.                                                      *)

\* Mutant: what completes, if only from the bundle, is a successful sync.
MarkedComplete(mark, previous) ==
  CASE mark = "started" -> [previous EXCEPT !.state = "syncing"]
    [] mark \in {"refreshed", "ingested", "fallback"} ->
         [state |-> "success", completed |-> day, last |-> day]
    [] OTHER -> [previous EXCEPT !.state = "failed"]

\* Mutant: a refresh that starts forgets what was recorded.
MarkedAnew(mark, previous) ==
  CASE mark = "started" -> [Blank EXCEPT !.state = "syncing"]
    [] mark \in {"refreshed", "ingested"} ->
         [state |-> "success", completed |-> day, last |-> day]
    [] mark = "fallback" -> [previous EXCEPT !.state = "stale_fallback", !.completed = day]
    [] OTHER -> [previous EXCEPT !.state = "failed"]

\* Mutant: a success does not say since when.
MarkedUndated(mark, previous) ==
  CASE mark = "started" -> [previous EXCEPT !.state = "syncing"]
    [] mark \in {"refreshed", "ingested"} -> [previous EXCEPT !.state = "success", !.completed = day]
    [] mark = "fallback" -> [previous EXCEPT !.state = "stale_fallback", !.completed = day]
    [] OTHER -> [previous EXCEPT !.state = "failed"]

\* What a mark makes of the file it has read (last_successful_sync is last).
Marked(mark, previous) ==
  CASE mark = "started" -> [previous EXCEPT !.state = "syncing"]
    [] mark \in {"refreshed", "ingested"} ->
         [state |-> "success", completed |-> day, last |-> day]
    [] mark = "fallback" -> [previous EXCEPT !.state = "stale_fallback", !.completed = day]
    [] OTHER -> [previous EXCEPT !.state = "failed"]

\* refresh_due.
Due == file = None \/ file.completed = None \/ day > file.completed

\* What comes after a mark, and after one that could not be written.
After == [m \in Marks |->
  CASE m = "started" -> "sync" [] m = "failed" -> "bundled" [] OTHER -> "end"]
Otherwise == [m \in Marks |->
  CASE m = "refreshed" -> "failed" [] m = "fallback" -> "registry"
    [] m = "ingested" -> "gave_up" [] OTHER -> "end"]

\* A refresh at a place; where that is a mark, reading the file comes first.
GoTo(w, place, change) ==
  work' = [work EXCEPT ![w] = [change EXCEPT !.at = place, !.payload = None]]

\* mark_refreshed does not read the file.
Reads(m) == m \in Marks \ {"refreshed", "ingested"}

\* The mark's payload, of the file as it is now.
Read(w) ==
  /\ work[w] # None /\ Reads(work[w].at) /\ work[w].payload = None /\ ~work[w].written
  /\ LET previous == IF file = None THEN Blank ELSE file
     IN  work' = [work EXCEPT ![w].payload = Marked(work[w].at, previous)]
  /\ UNCHANGED <<day, window, refreshing, file, temp, source, synced>>

\* Whether a refresh is at a mark, with all it takes to write it.
Composed(w) ==
  /\ work[w] # None /\ ~work[w].written
  /\ work[w].payload # None \/ work[w].at \in {"refreshed", "ingested"}

\* temporary.write_text.
Write(w) ==
  /\ Composed(w)
  /\ temp' = IF work[w].payload # None THEN work[w].payload ELSE Marked(work[w].at, Blank)
  /\ work' = [work EXCEPT ![w].written = TRUE, ![w].payload = None]
  /\ UNCHANGED <<day, window, refreshing, file, source, synced>>

\* os.replace, of whatever the temporary file holds by now.
Replace(w) ==
  /\ work[w] # None /\ work[w].written /\ temp # None
  /\ file' = temp /\ temp' = None
  /\ GoTo(w, After[work[w].at], [work[w] EXCEPT !.written = FALSE])
  /\ UNCHANGED <<day, window, refreshing, source, synced>>

\* An OSError: the disk, another who has the file open (the status endpoint
\* reads it), or a temporary file another has moved away.
CannotWrite(w) ==
  /\ Composed(w) \/ (work[w] # None /\ work[w].written)
  /\ GoTo(w, Otherwise[work[w].at], [work[w] EXCEPT !.written = FALSE, !.outcome = None])
  /\ UNCHANGED <<day, window, refreshing, file, temp, source, synced>>

-------------------------------------------------------------------------------
(* refresh_jobs.                                                           *)

\* What it should end with now.
Outcome(w, o) == [work[w] EXCEPT !.outcome = IF @ = None THEN None ELSE o]

\* A refresh begins; it and those under way are not alone.
Begin(w, threaded) ==
  work' = [v \in Worker |->
    IF v = w
    THEN [at |-> IF threaded THEN "set" ELSE "started", threaded |-> threaded,
          payload |-> None, written |-> FALSE, alone |-> Running = {},
          outcome |-> IF Running = {} THEN "failed" ELSE None]
    ELSE IF work[v] = None THEN None ELSE [work[v] EXCEPT !.alone = FALSE, !.outcome = None]]

\* The central catalog and the register, in one transaction.
Sync(w) ==
  /\ work[w] # None /\ work[w].at = "sync"
  /\ \/ /\ GoTo(w, "refreshed", Outcome(w, "success"))
        /\ source' = "live" /\ synced' = IF synced = None THEN day ELSE synced
     \/ GoTo(w, "failed", work[w]) /\ UNCHANGED <<source, synced>>
  /\ UNCHANGED <<day, window, refreshing, file, temp>>

\* The packaged catalog, where there is one and it can be imported.
Bundled(w) ==
  /\ work[w] # None /\ work[w].at = "bundled"
  /\ \/ /\ GoTo(w, "fallback", Outcome(w, "stale_fallback"))
        /\ source' = IF work[w].alone THEN "bundled" ELSE "contested"
     \/ GoTo(w, "registry", work[w]) /\ UNCHANGED source
  /\ UNCHANGED <<day, window, refreshing, file, temp, synced>>

\* The boards of the registry; an error before the ingestion goes unrecorded.
Registry(w) ==
  /\ work[w] # None /\ work[w].at = "registry"
  /\ \/ /\ GoTo(w, "ingested", Outcome(w, "success"))
        /\ source' = "live" /\ synced' = IF synced = None THEN day ELSE synced
     \/ GoTo(w, "gave_up", work[w]) /\ UNCHANGED <<source, synced>>
     \/ GoTo(w, "end", work[w]) /\ UNCHANGED <<source, synced>>
  /\ UNCHANGED <<day, window, refreshing, file, temp>>

-------------------------------------------------------------------------------
(* LauncherWindow._refresh_worker: the flag is checked as the thread       *)
(* starts, then set.                                                       *)

Set(w) ==
  /\ work[w] # None /\ work[w].at = "set"
  /\ refreshing' = TRUE
  /\ GoTo(w, "started", work[w])
  /\ UNCHANGED <<day, window, file, temp, source, synced>>

\* Mutant: an exception leaves the flag as it is.
FlagAfterSuccess(w) == refreshing /\ ~(work[w].threaded /\ work[w].outcome # "failed")

\* The finally of the worker; a process of its own has no flag.
FlagAfter(w) == refreshing /\ ~work[w].threaded

End(w) ==
  /\ work[w] # None /\ work[w].at = "end"
  /\ work' = [work EXCEPT ![w] = None]
  /\ refreshing' = FlagAfter(w)
  /\ UNCHANGED <<day, window, file, temp, source, synced>>

Idle(w) == w \notin Running

\* start_refresh, from the button, or from the timer that is set when all runs.
StartRefresh(w) ==
  /\ w \in Thread /\ Idle(w) /\ window /\ ~refreshing
  /\ Begin(w, TRUE)
  /\ UNCHANGED <<day, window, refreshing, file, temp, source, synced>>

\* --refresh-only.
RefreshOnly(w) ==
  /\ w \in Process /\ Idle(w)
  /\ Begin(w, FALSE)
  /\ UNCHANGED <<day, window, refreshing, file, temp, source, synced>>

\* A process of its own is killed.
Kill(w) ==
  /\ work[w] # None /\ ~work[w].threaded
  /\ work' = [work EXCEPT ![w] = None]
  /\ UNCHANGED <<day, window, refreshing, file, temp, source, synced>>

-------------------------------------------------------------------------------
(* The window.                                                             *)

\* _start_runtime: the database is migrated and the services answer; a file that
\* is missing, as on a first run, or old is refreshed at once.
Ready(w) ==
  /\ ~window /\ w \in Thread /\ Idle(w)
  /\ window' = TRUE
  /\ IF Due THEN Begin(w, TRUE) ELSE UNCHANGED work
  /\ UNCHANGED <<day, refreshing, file, temp, source, synced>>

\* close: the process exits and its threads with it, wherever they are.
Close ==
  /\ window
  /\ window' = FALSE /\ refreshing' = FALSE
  /\ work' = [w \in Worker |->
       IF work[w] = None \/ ~work[w].threaded THEN work[w] ELSE None]
  /\ UNCHANGED <<day, file, temp, source, synced>>

DayPasses ==
  /\ day < MaxDay
  /\ day' = day + 1
  /\ UNCHANGED <<window, refreshing, file, temp, work, source, synced>>

\* A step of a refresh that is under way.
Proceed(w) ==
  \/ Set(w)
  \/ Read(w) \/ Write(w) \/ Replace(w) \/ CannotWrite(w)
  \/ Sync(w) \/ Bundled(w) \/ Registry(w)
  \/ End(w)

Next ==
  \/ \E w \in Worker :
       Proceed(w) \/ StartRefresh(w) \/ RefreshOnly(w) \/ Kill(w) \/ Ready(w)
  \/ Close \/ DayPasses

\* Threads run.  Nothing is asked of users, of networks or of the clock.
Fairness == \A w \in Worker : WF_vars(Proceed(w))

Spec == Init /\ [][Next]_vars /\ Fairness

-------------------------------------------------------------------------------

\* Type correctness; the file says of a success when it was.
TypeOK ==
  /\ day \in Days /\ window \in BOOLEAN /\ refreshing \in BOOLEAN
  /\ synced \in Days \cup {None}
  /\ source \in {"live", "bundled", "contested", None}
  /\ \A copy \in {file, temp} \ {None} :
       /\ copy \in Recorded
       /\ copy.state = "success" => copy.last # None /\ copy.last = copy.completed
  /\ work \in [Worker -> Refresh \cup {None}]

\* "If central sync fails and the packaged catalog is used, the UI labels it as a
\* stale bundled fallback ... and does not claim a new successful sync": through
\* crashes, failing writes and refreshes that take each other's temporary file,
\* the last successful sync was one, and a bundled catalog is never presented as
\* a success unless two refreshes contend.
StatusHonest ==
  /\ (file # None /\ file.last # None) => synced # None /\ synced <= file.last
  /\ source = "bundled" => file # None /\ file.state # "success"

LastOf(f) == IF f = None THEN None ELSE f.last

\* A refresh that no other overlaps keeps the last successful sync on record while
\* it writes, until its own; and ends, where it could write, with its own outcome.
OutcomeShown ==
  [][\A w \in Running : work[w].alone =>
       /\ LastOf(file') = LastOf(file) \/ work[w].at \in {"refreshed", "ingested"}
       /\ work[w].at = "end" /\ work[w].outcome # None /\ work'[w] = None =>
            file.state = work[w].outcome]_vars

\* The button comes back: however a refresh ends, and whoever starts another,
\* the flag that refuses refreshes does not stay set for ever.
RefreshEnds == refreshing ~> ~refreshing
===============================================================================
