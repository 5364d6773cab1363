------------------------- MODULE DesktopRefreshProofs -------------------------
(***************************************************************************)
(* Proofs about the status of refreshes, for any number of threads and     *)
(* processes that refresh, at any time, and any number of days; that a     *)
(* refresh runs forward to its end, whatever fails and whoever interferes; *)
(* and that the flag which refuses others is cleared.                      *)
(***************************************************************************)
EXTENDS DesktopRefresh, TLAPS

-------------------------------------------------------------------------------
(* The inductive invariant: what the two files, and each refresh that is   *)
(* about to write one, may say.                                            *)

Succeeding == {"refreshed", "ingested"}

\* The last successful sync a copy f of the file records was one, where s is the
\* day of the first.
Since(f, s) == LastOf(f) # None => s # None /\ s <= LastOf(f)

Unsuccessful(f) == f # None => f.state # "success"

\* The state that a mark records, and a copy c that has it and keeps the last
\* successful sync of the file f, unless the mark is one of success.
StateAt == [m \in Marks |->
  CASE m = "started" -> "syncing" [] m = "fallback" -> "stale_fallback"
    [] m \in Succeeding -> "success" [] OTHER -> "failed"]

Tells(c, m, f) ==
  /\ c # None /\ m \in Marks
  /\ c.state = StateAt[m] /\ (Reads(m) => c.last = LastOf(f))

\* The outcome o that a refresh which nothing disturbs should end with.
Expected(o, at, f) ==
  CASE at \in Succeeding -> o = "success"
    [] at = "fallback" -> o = "stale_fallback"
    [] at = "end" -> f # None /\ f.state = o
    [] OTHER -> o = "failed"

\* Of a refresh r without others, with the file f and the temporary file t.
Lone(r, f, t) ==
  /\ r.payload # None => Tells(r.payload, r.at, f) /\ Reads(r.at)
  /\ r.written => Tells(t, r.at, f)
  /\ r.at = "bundled" => t = None
  /\ r.at = "bundled" \/ (r.at = "registry" /\ r.outcome # None)
       => f # None /\ f.state = "failed"
  /\ r.outcome # None => Expected(r.outcome, r.at, f)

Sound(r, f, t, s) ==
  /\ r.written \/ r.payload # None => r.at \in Marks
  /\ Since(r.payload, s) /\ Unsuccessful(r.payload)
  /\ r.at \in Succeeding => s # None
  /\ r.alone => Lone(r, f, t)

FilesSound ==
  /\ synced # None => synced <= day
  /\ Since(file, synced) /\ Since(temp, synced)
  /\ source = "bundled" => file # None /\ Unsuccessful(file) /\ Unsuccessful(temp)

IInv ==
  /\ TypeOK /\ FilesSound
  /\ \A w \in Running :
       /\ Sound(work[w], file, temp, synced)
       /\ source = "bundled" => work[w].at \notin Succeeding
       /\ work[w].alone => Running = {w}

\* TypeOK but for the refreshes.
FilesTyped ==
  /\ day \in Days /\ window \in BOOLEAN /\ refreshing \in BOOLEAN
  /\ synced \in Days \cup {None}
  /\ source \in {"live", "bundled", "contested", None}
  /\ \A copy \in {file, temp} \ {None} :
       /\ copy \in Recorded
       /\ copy.state = "success" => copy.last # None /\ copy.last = copy.completed

-------------------------------------------------------------------------------
(* Steps of a refresh.                                                     *)

\* A step by which w becomes r keeps the invariant if what it leaves in r and in
\* the files is sound; what the others hold is sound because w is there too.
LEMMA Locally ==
  ASSUME IInv, NEW w \in Running, NEW r \in Refresh,
         work' = [work EXCEPT ![w] = r], r.alone = work[w].alone,
         FilesTyped', FilesSound', Sound(r, file', temp', synced'),
         synced' = synced \/ synced = None,
         source' = "bundled" =>
           r.at \notin Succeeding /\ (source = "bundled" \/ work[w].alone)
  PROVE  IInv'
<1>1. work \in [Worker -> Refresh \cup {None}] /\ w \in Worker
  BY DEF IInv, TypeOK, Running
<1>2. /\ work' \in [Worker -> Refresh \cup {None}]
      /\ work'[w] = r
      /\ \A v \in Worker \ {w} : work'[v] = work[v]
  <2> HIDE DEF Refresh
  <2> QED
    BY <1>1
<1>3. Running' = Running
  BY <1>1, <1>2, NoneAssumption DEF Running
<1>4. TypeOK'
  BY <1>2 DEF TypeOK, FilesTyped
<1>5. ASSUME NEW v \in Running, v # w
      PROVE  /\ Sound(work[v], file', temp', synced')
             /\ source' = "bundled" => work[v].at \notin Succeeding
             /\ ~work[v].alone
  <2>1. ~work[v].alone /\ ~work[w].alone
    BY <1>5 DEF IInv
  <2>2. Sound(work[v], file, temp, synced)
    BY DEF IInv
  <2>3. source' = "bundled" => source = "bundled"
    BY <2>1
  <2> QED
    BY <2>1, <2>2, <2>3 DEF Sound, Since, IInv
<1>6. \A v \in Running \ {w} : work'[v] = work[v]
  BY <1>2 DEF Running
<1>7. r.alone => Running' = {w}
  BY <1>3 DEF IInv
<1>8. ASSUME NEW v \in Running'
      PROVE  /\ Sound(work'[v], file', temp', synced')
             /\ source' = "bundled" => work'[v].at \notin Succeeding
             /\ work'[v].alone => Running' = {v}
  <2>1. CASE v = w
    BY <2>1, <1>2, <1>7
  <2>2. CASE v # w
    BY <2>2, <1>3, <1>5, <1>6
  <2> QED
    BY <2>1, <2>2
<1> QED
  BY <1>4, <1>8 DEF IInv

\* The same for a step that leaves the files and the history as they are.
LEMMA Inwardly ==
  ASSUME IInv, NEW w \in Running, NEW r \in Refresh,
         work' = [work EXCEPT ![w] = r], r.alone = work[w].alone,
         Sound(r, file, temp, synced),
         r.at \notin Succeeding \/ r.at = work[w].at,
         refreshing' \in BOOLEAN, UNCHANGED <<day, window, file, temp, source, synced>>
  PROVE  IInv'
<1>1. FilesTyped' /\ FilesSound'
  BY DEF IInv, TypeOK, FilesTyped, FilesSound
<1>2. source' = "bundled" => r.at \notin Succeeding /\ source = "bundled"
  BY DEF IInv
<1> QED
  BY <1>1, <1>2, Locally

\* Moves on, with nothing composed.
Going(place, change) == [change EXCEPT !.at = place, !.payload = None]

LEMMA GoingFacts ==
  ASSUME NEW change \in Refresh, NEW place \in Places
  PROVE  LET r == Going(place, change)
         IN  /\ r \in Refresh /\ r.at = place /\ r.payload = None
             /\ r.alone = change.alone /\ r.outcome = change.outcome
             /\ r.written = change.written /\ r.threaded = change.threaded
BY DEF Going, Refresh, Places

LEMMA WorkerTyped ==
  ASSUME IInv, NEW w \in Worker, work[w] # None
  PROVE  /\ w \in Running /\ work[w] \in Refresh
         /\ Sound(work[w], file, temp, synced)
         /\ work[w].at \in Places /\ work[w].alone \in BOOLEAN
BY DEF IInv, TypeOK, Running, Refresh

\* The file that a mark reads.
LEMMA PreviousTyped ==
  ASSUME IInv, NEW m \in Marks, Reads(m), NEW previous,
         previous = IF file = None THEN Blank ELSE file
  PROVE  LET c == Marked(m, previous)
         IN  c \in Recorded /\ Tells(c, m, file) /\ Since(c, synced) /\ Unsuccessful(c)
<1>1. previous \in Recorded /\ previous.last = LastOf(file)
  <2>1. Blank \in Recorded /\ Blank.last = None
    BY DEF Blank, Recorded
  <2>2. file # None => file \in Recorded
    BY DEF IInv, TypeOK
  <2> QED
    BY <2>1, <2>2 DEF LastOf
<1>2. day \in Days
  BY DEF IInv, TypeOK
<1>3. m \in {"started", "failed", "fallback", "gave_up"}
  BY DEF Reads, Marks
<1> DEFINE c == Marked(m, previous)
<1>4. c \in Recorded /\ c.last = previous.last /\ c.state = StateAt[m] /\ c.state # "success"
  BY <1>1, <1>2, <1>3 DEF Marked, Recorded, StateAt, Marks, Succeeding
<1>5. c # None
  BY <1>4, NoneAssumption
<1>6. LastOf(c) = LastOf(file)
  BY <1>1, <1>4, <1>5 DEF LastOf
<1>7. Since(c, synced)
  BY <1>6 DEF Since, IInv, FilesSound
<1> QED
  BY <1>1, <1>4, <1>5, <1>7 DEF Tells, Unsuccessful

LEMMA ReadKeeps ==
  ASSUME IInv, NEW w \in Worker, Read(w)
  PROVE  IInv'
<1> DEFINE previous == IF file = None THEN Blank ELSE file
           c == Marked(work[w].at, previous)
           r == [work[w] EXCEPT !.payload = c]
<1>1. /\ w \in Running /\ work[w] \in Refresh /\ work[w].at \in Marks
      /\ Reads(work[w].at) /\ ~work[w].written
      /\ Sound(work[w], file, temp, synced)
  BY WorkerTyped DEF Read, Reads
<1>2. c \in Recorded /\ Tells(c, work[w].at, file) /\ Since(c, synced) /\ Unsuccessful(c)
  BY <1>1, PreviousTyped
<1>3. /\ r \in Refresh /\ r.payload = c /\ r.at = work[w].at /\ r.alone = work[w].alone
      /\ r.outcome = work[w].outcome /\ ~r.written
  <2> HIDE DEF c
  <2> QED
    BY <1>1, <1>2 DEF Refresh
<1>4. Sound(r, file, temp, synced)
  <2> HIDE DEF r, c
  <2> QED
    BY <1>1, <1>2, <1>3 DEF Sound, Lone
<1>5. work' = [work EXCEPT ![w] = r]
  BY <1>1 DEF Read, IInv, TypeOK
<1>6. refreshing' \in BOOLEAN /\ UNCHANGED <<day, window, file, temp, source, synced>>
  BY DEF Read, IInv, TypeOK
<1> QED
  <2> HIDE DEF r
  <2> QED
    BY <1>1, <1>3, <1>4, <1>5, <1>6, Inwardly

LEMMA WriteKeeps ==
  ASSUME IInv, NEW w \in Worker, Write(w)
  PROVE  IInv'
<1> DEFINE r == [work[w] EXCEPT !.written = TRUE, !.payload = None]
           m == work[w].at
<1>1. /\ w \in Running /\ work[w] \in Refresh /\ m \in Marks /\ m \in Places
      /\ Sound(work[w], file, temp, synced)
      /\ work[w].payload # None \/ m \in Succeeding
  <2>1. work[w] # None /\ (work[w].payload # None \/ m \in Succeeding)
    BY DEF Write, Composed, Succeeding
  <2> QED
    BY <2>1, WorkerTyped DEF Sound, Marks, Succeeding
<1>2. day \in Days /\ synced \in Days \cup {None} /\ (synced # None => synced <= day)
  BY DEF IInv, TypeOK, FilesSound
<1>3. CASE work[w].payload # None
  <2>1. temp' = work[w].payload /\ temp' \in Recorded /\ temp'.state # "success"
    BY <1>1, <1>3 DEF Write, Refresh, Sound, Unsuccessful
  <2>2. Since(temp', synced) /\ Unsuccessful(temp')
    BY <1>1, <2>1 DEF Sound
  <2>3. work[w].alone => Tells(temp', m, file) /\ Reads(m)
    BY <1>1, <1>3, <2>1 DEF Sound, Lone
  <2>4. /\ r \in Refresh /\ r.payload = None /\ r.at = m /\ r.alone = work[w].alone
        /\ r.outcome = work[w].outcome
    BY <1>1 DEF Refresh
  <2>5. FilesTyped' /\ FilesSound'
    BY <2>1, <2>2 DEF IInv, TypeOK, FilesTyped, FilesSound, Write
  <2>6. Sound(r, file, temp', synced)
    <3>1. None = r.payload
      BY <2>4
    <3>2. Since(r.payload, synced) /\ Unsuccessful(r.payload)
      BY <3>1 DEF Since, LastOf, Unsuccessful
    <3>3. m # "bundled" /\ m # "registry"
      BY <1>1 DEF Marks
    <3> HIDE DEF r
    <3> QED
      BY <1>1, <2>3, <2>4, <3>2, <3>3 DEF Sound, Lone
  <2>7. work' = [work EXCEPT ![w] = r] /\ UNCHANGED <<file, synced, source>>
    BY DEF Write, IInv, TypeOK
  <2>8. source' = "bundled" => r.at \notin Succeeding
    BY <1>1, <2>4, <2>7 DEF IInv
  <2> HIDE DEF r
  <2> QED
    BY <1>1, <2>4, <2>5, <2>6, <2>7, <2>8, Locally
<1>4. CASE work[w].payload = None
  <2>1. m \in Succeeding
    BY <1>1, <1>4
  <2>2. /\ temp' \in Recorded /\ temp'.state = "success"
        /\ temp'.last = day /\ temp'.completed = day
    BY <1>2, <1>4, <2>1 DEF Write, Marked, Succeeding, Recorded
  <2>3. temp' # None
    BY <2>2, NoneAssumption
  <2>4. Since(temp', synced)
    BY <1>1, <1>2, <2>1, <2>2, <2>3 DEF Since, LastOf, Sound
  <2>5. Tells(temp', m, file)
    BY <1>1, <2>1, <2>2, <2>3 DEF Tells, StateAt, Succeeding, Reads, Marks
  <2>6. /\ r \in Refresh /\ r.payload = None /\ r.at = m /\ r.alone = work[w].alone
        /\ r.outcome = work[w].outcome
    BY <1>1 DEF Refresh
  <2>7. source # "bundled"
    BY <1>1, <2>1 DEF IInv
  <2>8. day # None
    BY <1>2, DesktopAssumption DEF Days
  <2>9. FilesTyped' /\ FilesSound'
    BY <2>2, <2>4, <2>7, <2>8 DEF IInv, TypeOK, FilesTyped, FilesSound, Write
  <2>10. Sound(r, file, temp', synced)
    <3>1. Since(r.payload, synced) /\ Unsuccessful(r.payload)
      BY <2>6 DEF Since, LastOf, Unsuccessful
    <3>2. m # "bundled" /\ m # "registry"
      BY <1>1 DEF Marks
    <3> HIDE DEF r
    <3> QED
      BY <1>1, <2>5, <2>6, <3>1, <3>2 DEF Sound, Lone
  <2>11. work' = [work EXCEPT ![w] = r] /\ UNCHANGED <<file, synced, source>>
    BY DEF Write, IInv, TypeOK
  <2> HIDE DEF r
  <2> QED
    BY <1>1, <2>6, <2>7, <2>9, <2>10, <2>11, Locally
<1> QED
  BY <1>3, <1>4

LEMMA ReplaceKeeps ==
  ASSUME IInv, NEW w \in Worker, Replace(w)
  PROVE  IInv'
<1> DEFINE change == [work[w] EXCEPT !.written = FALSE]
           m == work[w].at
           r == Going(After[m], change)
<1>1. /\ w \in Running /\ work[w] \in Refresh /\ m \in Marks /\ work[w].written
      /\ Sound(work[w], file, temp, synced) /\ temp # None
  BY WorkerTyped DEF Replace, Sound
<1>2. After[m] \in {"sync", "bundled", "end"} /\ After[m] \in Places
  BY <1>1 DEF After, Marks, Places
<1>3. /\ change \in Refresh /\ change.alone = work[w].alone /\ ~change.written
      /\ change.outcome = work[w].outcome
  BY <1>1 DEF Refresh
<1>4. /\ r \in Refresh /\ r.at = After[m] /\ r.payload = None /\ ~r.written
      /\ r.alone = work[w].alone /\ r.outcome = work[w].outcome
  BY <1>2, <1>3, GoingFacts
<1>5. file' = temp /\ temp' = None /\ UNCHANGED <<day, window, refreshing, source, synced>>
  BY DEF Replace
<1>6. work' = [work EXCEPT ![w] = r]
  BY DEF Replace, GoTo, Going
<1>7. FilesTyped' /\ FilesSound'
  BY <1>1, <1>5 DEF IInv, TypeOK, FilesTyped, FilesSound, Since, LastOf, Unsuccessful
<1>8. ASSUME work[w].alone
      PROVE  Lone(r, file', temp')
  <2>1. file' # None /\ file'.state = StateAt[m]
    BY <1>1, <1>5, <1>8 DEF Sound, Lone, Tells
  <2>2. r.outcome # None => Expected(r.outcome, m, file)
    BY <1>1, <1>4, <1>8 DEF Sound, Lone
  <2>3. After[m] = "bundled" => StateAt[m] = "failed"
    BY <1>1 DEF After, Marks, StateAt, Succeeding
  <2>4. r.outcome # None /\ After[m] = "end" => StateAt[m] = r.outcome
    BY <1>1, <2>2 DEF After, Marks, StateAt, Succeeding, Expected
  <2>5. r.outcome # None /\ After[m] # "end" => r.outcome = "failed"
    BY <1>1, <2>2 DEF After, Marks, Succeeding, Expected
  <2>6. r.outcome # None => Expected(r.outcome, After[m], file')
    BY <1>2, <2>1, <2>4, <2>5 DEF Expected, Succeeding
  <2> HIDE DEF r, change, m
  <2> QED
    BY <1>2, <1>4, <1>5, <2>1, <2>3, <2>6 DEF Lone
<1>9. Sound(r, file', temp', synced')
  <2>1. Since(None, synced') /\ Unsuccessful(None)
    BY DEF Since, LastOf, Unsuccessful
  <2> HIDE DEF r, change, m
  <2> QED
    BY <1>2, <1>4, <1>8, <2>1 DEF Sound, Succeeding
<1>10. r.at \notin Succeeding
  BY <1>2, <1>4 DEF Succeeding
<1> HIDE DEF r, change, m
<1> QED
  BY <1>1, <1>4, <1>5, <1>6, <1>7, <1>9, <1>10, Locally

LEMMA CannotWriteKeeps ==
  ASSUME IInv, NEW w \in Worker, CannotWrite(w)
  PROVE  IInv'
<1> DEFINE change == [work[w] EXCEPT !.written = FALSE, !.outcome = None]
           m == work[w].at
           r == Going(Otherwise[m], change)
<1>1. w \in Running /\ work[w] \in Refresh /\ m \in Marks
  BY WorkerTyped DEF CannotWrite, Composed, Sound, Marks
<1>2. Otherwise[m] \in {"failed", "registry", "gave_up", "end"} /\ Otherwise[m] \in Places
  BY <1>1 DEF Otherwise, Marks, Places
<1>3. /\ change \in Refresh /\ change.alone = work[w].alone /\ ~change.written
      /\ change.outcome = None
  BY <1>1 DEF Refresh
<1>4. /\ r \in Refresh /\ r.at = Otherwise[m] /\ r.payload = None /\ ~r.written
      /\ r.alone = work[w].alone /\ r.outcome = None
  BY <1>2, <1>3, GoingFacts
<1>5. work' = [work EXCEPT ![w] = r]
  BY DEF CannotWrite, GoTo, Going
<1>6. Since(None, synced) /\ Unsuccessful(None) /\ r.at \notin Succeeding
  BY <1>2, <1>4 DEF Since, LastOf, Unsuccessful, Succeeding
<1>7. refreshing' \in BOOLEAN /\ UNCHANGED <<day, window, file, temp, source, synced>>
  BY DEF CannotWrite, IInv, TypeOK
<1> HIDE DEF r, change, m
<1>8. Sound(r, file, temp, synced)
  BY <1>2, <1>4, <1>6 DEF Sound, Lone
<1> QED
  BY <1>1, <1>4, <1>5, <1>6, <1>7, <1>8, Inwardly

\* A step between two marks: the files stay, and what is synced or imported fits
\* the place that comes next.
LEMMA Advance ==
  ASSUME IInv, NEW w \in Running, work[w].at \notin Marks,
         NEW place \in Places, place # "bundled",
         NEW change \in Refresh, GoTo(w, place, change),
         change.alone = work[w].alone, change.written = work[w].written,
         refreshing' \in BOOLEAN, UNCHANGED <<day, window, file, temp>>,
         source' \in {"live", "bundled", "contested", None},
         synced' = synced \/ (synced = None /\ synced' = day),
         place \in Succeeding => synced' # None,
         source' = "bundled" =>
           /\ place \notin Succeeding
           /\ source = "bundled" \/ (work[w].at = "bundled" /\ work[w].alone),
         place = "registry" => work[w].at = "bundled",
         work[w].alone /\ change.outcome # None => Expected(change.outcome, place, file)
  PROVE  IInv'
<1> DEFINE r == Going(place, change)
<1>1. /\ r \in Refresh /\ r.at = place /\ r.payload = None
      /\ r.alone = work[w].alone /\ r.outcome = change.outcome
      /\ r.written = work[w].written
  BY GoingFacts
<1>2. /\ Sound(work[w], file, temp, synced) /\ ~work[w].written
      /\ work[w].written \in BOOLEAN
  <2>1. work[w] \in Refresh /\ Sound(work[w], file, temp, synced)
    BY WorkerTyped DEF Running
  <2> QED
    BY <2>1 DEF Sound, Refresh
<1>3. work' = [work EXCEPT ![w] = r]
  BY DEF GoTo, Going
<1>4. day \in Days /\ synced \in Days \cup {None}
  BY DEF IInv, TypeOK
<1>5. Since(file, synced) /\ Since(temp, synced)
  BY DEF IInv, FilesSound
<1>6. Since(file', synced') /\ Since(temp', synced')
  BY <1>5 DEF Since
<1>7. work[w].alone /\ work[w].at = "bundled" =>
        file # None /\ file.state = "failed" /\ temp = None
  BY <1>2 DEF Sound, Lone
<1>8. FilesSound'
  <2>1. synced' # None => synced' <= day'
    BY <1>4 DEF IInv, FilesSound, Days
  <2>2. source' = "bundled" => file # None /\ Unsuccessful(file) /\ Unsuccessful(temp)
    BY <1>7 DEF IInv, FilesSound, Unsuccessful
  <2>3. Unsuccessful(file)' = Unsuccessful(file) /\ Unsuccessful(temp)' = Unsuccessful(temp)
    BY DEF Unsuccessful
  <2> QED
    BY <1>6, <2>1, <2>2, <2>3 DEF FilesSound
<1>9. FilesTyped'
  BY <1>4 DEF IInv, TypeOK, FilesTyped
<1>10. Since(None, synced') /\ Unsuccessful(None)
  BY DEF Since, LastOf, Unsuccessful
<1> HIDE DEF r
<1>11. Sound(r, file', temp', synced')
  BY <1>1, <1>2, <1>7, <1>10 DEF Sound, Lone
<1> QED
  BY <1>1, <1>3, <1>8, <1>9, <1>11, Locally

LEMMA OutcomeFacts ==
  ASSUME IInv, NEW w \in Running, NEW o \in {"success", "failed", "stale_fallback"}
  PROVE  LET c == Outcome(w, o)
         IN  /\ c \in Refresh /\ c.alone = work[w].alone /\ c.written = work[w].written
             /\ c.outcome # None => c.outcome = o
BY WorkerTyped DEF Outcome, Refresh, Running

LEMMA SyncKeeps ==
  ASSUME IInv, NEW w \in Worker, Sync(w)
  PROVE  IInv'
<1>1. /\ w \in Running /\ work[w] \in Refresh /\ work[w].at = "sync"
      /\ Sound(work[w], file, temp, synced)
  BY WorkerTyped DEF Sync
<1>2. /\ work[w].at \notin Marks /\ refreshing' \in BOOLEAN
      /\ UNCHANGED <<day, window, file, temp>>
      /\ source \in {"live", "bundled", "contested", None}
      /\ day # None /\ "refreshed" \in Places /\ "failed" \in Places
  BY <1>1, DesktopAssumption DEF Marks, Sync, IInv, TypeOK, Places, Days
<1>3. CASE /\ GoTo(w, "refreshed", Outcome(w, "success"))
           /\ source' = "live" /\ synced' = IF synced = None THEN day ELSE synced
  <2>1. Expected("success", "refreshed", file)
    BY DEF Expected, Succeeding
  <2> QED
    BY <1>1, <1>2, <1>3, <2>1, OutcomeFacts, Advance
<1>4. CASE GoTo(w, "failed", work[w]) /\ UNCHANGED <<source, synced>>
  <2>1. work[w].alone /\ work[w].outcome # None => Expected(work[w].outcome, "failed", file)
    BY <1>1 DEF Sound, Lone, Expected, Succeeding
  <2> QED
    BY <1>1, <1>2, <1>4, <2>1, Advance DEF Succeeding
<1> QED
  BY <1>3, <1>4 DEF Sync

LEMMA BundledKeeps ==
  ASSUME IInv, NEW w \in Worker, Bundled(w)
  PROVE  IInv'
<1>1. /\ w \in Running /\ work[w] \in Refresh /\ work[w].at = "bundled"
      /\ Sound(work[w], file, temp, synced)
  BY WorkerTyped DEF Bundled
<1>2. /\ work[w].at \notin Marks /\ refreshing' \in BOOLEAN
      /\ UNCHANGED <<day, window, file, temp, synced>>
      /\ source \in {"live", "bundled", "contested", None}
      /\ "fallback" \in Places /\ "registry" \in Places
      /\ "fallback" \notin Succeeding /\ "registry" \notin Succeeding
  BY <1>1 DEF Marks, Bundled, IInv, TypeOK, Places, Succeeding
<1>3. CASE /\ GoTo(w, "fallback", Outcome(w, "stale_fallback"))
           /\ source' = IF work[w].alone THEN "bundled" ELSE "contested"
  <2>1. Expected("stale_fallback", "fallback", file)
    BY DEF Expected, Succeeding
  <2> QED
    BY <1>1, <1>2, <1>3, <2>1, OutcomeFacts, Advance
<1>4. CASE GoTo(w, "registry", work[w]) /\ UNCHANGED source
  <2>1. work[w].alone /\ work[w].outcome # None => Expected(work[w].outcome, "registry", file)
    BY <1>1 DEF Sound, Lone, Expected, Succeeding
  <2> QED
    BY <1>1, <1>2, <1>4, <2>1, Advance
<1> QED
  BY <1>3, <1>4 DEF Bundled

LEMMA RegistryKeeps ==
  ASSUME IInv, NEW w \in Worker, Registry(w)
  PROVE  IInv'
<1>1. /\ w \in Running /\ work[w] \in Refresh /\ work[w].at = "registry"
      /\ Sound(work[w], file, temp, synced)
  BY WorkerTyped DEF Registry
<1>2. /\ work[w].at \notin Marks /\ refreshing' \in BOOLEAN
      /\ UNCHANGED <<day, window, file, temp>>
      /\ source \in {"live", "bundled", "contested", None} /\ day # None
      /\ {"ingested", "gave_up", "end"} \subseteq Places
      /\ "gave_up" \notin Succeeding /\ "end" \notin Succeeding
  BY <1>1, DesktopAssumption DEF Marks, Registry, IInv, TypeOK, Places, Days, Succeeding
<1>3. CASE /\ GoTo(w, "ingested", Outcome(w, "success"))
           /\ source' = "live" /\ synced' = IF synced = None THEN day ELSE synced
  <2>1. Expected("success", "ingested", file)
    BY DEF Expected, Succeeding
  <2> QED
    BY <1>1, <1>2, <1>3, <2>1, OutcomeFacts, Advance
<1>4. ASSUME NEW place \in {"gave_up", "end"},
             GoTo(w, place, work[w]), UNCHANGED <<source, synced>>
      PROVE  IInv'
  <2>1. work[w].alone /\ work[w].outcome # None => Expected(work[w].outcome, place, file)
    BY <1>1 DEF Sound, Lone, Expected, Succeeding
  <2> QED
    BY <1>1, <1>2, <1>4, <2>1, Advance
<1> QED
  BY <1>3, <1>4 DEF Registry

LEMMA SetKeeps ==
  ASSUME IInv, NEW w \in Worker, Set(w)
  PROVE  IInv'
<1>1. /\ w \in Running /\ work[w] \in Refresh /\ work[w].at = "set"
      /\ Sound(work[w], file, temp, synced)
  BY WorkerTyped DEF Set
<1>2. /\ work[w].at \notin Marks /\ refreshing' \in BOOLEAN
      /\ UNCHANGED <<day, window, file, temp, source, synced>>
      /\ source \in {"live", "bundled", "contested", None}
      /\ "started" \in Places /\ "started" \notin Succeeding
  BY <1>1 DEF Marks, Set, IInv, TypeOK, Places, Succeeding
<1>3. work[w].alone /\ work[w].outcome # None => Expected(work[w].outcome, "started", file)
  BY <1>1 DEF Sound, Lone, Expected, Succeeding
<1>4. GoTo(w, "started", work[w])
  BY DEF Set
<1> QED
  BY <1>1, <1>2, <1>3, <1>4, Advance

-------------------------------------------------------------------------------
(* Steps by which refreshes end and begin.                                 *)

\* Refreshes that are no more leave the others, and the files, as they were.
LEMMA Gone ==
  ASSUME IInv, work' \in [Worker -> Refresh \cup {None}],
         \A v \in Worker : work'[v] \in {work[v], None},
         window' \in BOOLEAN, refreshing' \in BOOLEAN, day' \in Days,
         UNCHANGED <<file, temp, source, synced>>, day' >= day
  PROVE  IInv'
<1>1. TypeOK'
  BY DEF IInv, TypeOK
<1>2. FilesSound'
  <2>1. day \in Nat /\ day' \in Nat /\ synced \in Nat \cup {None}
    BY DesktopAssumption DEF IInv, TypeOK, Days
  <2>2. synced # None => synced <= day'
    BY <2>1 DEF IInv, FilesSound
  <2> QED
    BY <2>2 DEF IInv, FilesSound, Since, LastOf, Unsuccessful
<1>3. ASSUME NEW v \in Running'
      PROVE  v \in Running /\ work'[v] = work[v]
  <2>1. v \in Worker /\ work'[v] # None
    BY <1>3 DEF Running
  <2> QED
    BY <2>1 DEF Running
<1>4. ASSUME NEW v \in Running'
      PROVE  /\ Sound(work'[v], file', temp', synced')
             /\ source' = "bundled" => work'[v].at \notin Succeeding
             /\ work'[v].alone => Running' = {v}
  <2>1. v \in Running /\ work'[v] = work[v]
    BY <1>3
  <2>2. work[v].alone => Running = {v}
    BY <2>1 DEF IInv
  <2>3. work'[v].alone => Running' = {v}
    BY <1>3, <2>1, <2>2
  <2> QED
    BY <2>1, <2>3 DEF IInv
<1> QED
  BY <1>1, <1>2, <1>4 DEF IInv

LEMMA EndingsKeep ==
  ASSUME IInv, (\E w \in Worker : End(w) \/ Kill(w)) \/ Close \/ DayPasses
  PROVE  IInv'
<1>1. /\ work \in [Worker -> Refresh \cup {None}] /\ day \in Days /\ day >= day
      /\ window \in BOOLEAN /\ refreshing \in BOOLEAN
  BY DesktopAssumption DEF IInv, TypeOK, Days
<1>2. ASSUME NEW w \in Worker, work' = [work EXCEPT ![w] = None]
      PROVE  /\ work' \in [Worker -> Refresh \cup {None}]
             /\ \A v \in Worker : work'[v] \in {work[v], None}
  <2> HIDE DEF Refresh
  <2> QED
    BY <1>1, <1>2
<1>3. ASSUME NEW w \in Worker, End(w)
      PROVE  IInv'
  <2>1. refreshing' \in BOOLEAN /\ UNCHANGED <<day, window, file, temp, source, synced>>
    BY <1>1, <1>3, WorkerTyped DEF End, FlagAfter, Refresh
  <2>2. work' = [work EXCEPT ![w] = None]
    BY <1>3 DEF End
  <2> QED
    BY <1>1, <1>2, <2>1, <2>2, Gone
<1>4. ASSUME NEW w \in Worker, Kill(w)
      PROVE  IInv'
  BY <1>1, <1>2, <1>4, Gone DEF Kill
<1>5. CASE Close
  <2>1. /\ \A v \in Worker : work'[v] \in {work[v], None}
        /\ work' \in [Worker -> Refresh \cup {None}]
    <3> HIDE DEF Refresh
    <3> QED
      BY <1>1, <1>5 DEF Close
  <2> QED
    BY <1>1, <1>5, <2>1, Gone DEF Close
<1>6. CASE DayPasses
  <2>1. day' \in Days /\ day' >= day
    BY <1>1, <1>6, DesktopAssumption DEF DayPasses, Days
  <2>2. \A v \in Worker : work'[v] \in {work[v], None}
    BY <1>6 DEF DayPasses
  <2> QED
    BY <1>1, <1>6, <2>1, <2>2, Gone DEF DayPasses
<1> QED
  BY <1>3, <1>4, <1>5, <1>6

\* A refresh that begins is alone only if no other is there, and makes those that
\* are not alone.
LEMMA BeginKeeps ==
  ASSUME IInv, NEW w \in Worker, w \notin Running, NEW threaded \in BOOLEAN,
         Begin(w, threaded), window' \in BOOLEAN,
         UNCHANGED <<day, refreshing, file, temp, source, synced>>
  PROVE  IInv'
<1> DEFINE new == [at |-> IF threaded THEN "set" ELSE "started", threaded |-> threaded,
                   payload |-> None, written |-> FALSE, alone |-> Running = {},
                   outcome |-> IF Running = {} THEN "failed" ELSE None]
           other(v) == [work[v] EXCEPT !.alone = FALSE, !.outcome = None]
<1>1. work \in [Worker -> Refresh \cup {None}]
  BY DEF IInv, TypeOK
<1>2. /\ new \in Refresh /\ new.at \in {"set", "started"} /\ new.payload = None
      /\ ~new.written /\ (new.alone => Running = {})
      /\ new.outcome # None => new.outcome = "failed"
  BY DEF Refresh, Places, Marks
<1>3. ASSUME NEW v \in Running
      PROVE  /\ other(v) \in Refresh /\ other(v).at = work[v].at /\ ~other(v).alone
             /\ other(v).payload = work[v].payload /\ other(v).written = work[v].written
  <2>1. work[v] \in Refresh
    BY <1>1, <1>3 DEF Running
  <2> QED
    BY <2>1 DEF Refresh
<1>4. ASSUME NEW v \in Worker
      PROVE  work'[v] = IF v = w THEN new ELSE IF work[v] = None THEN None ELSE other(v)
  BY <1>4 DEF Begin
<1>5. work' \in [Worker -> Refresh \cup {None}]
  <2>1. DOMAIN work' = Worker /\ work' = [v \in Worker |-> work'[v]]
    BY DEF Begin
  <2>2. ASSUME NEW v \in Worker
        PROVE  work'[v] \in Refresh \cup {None}
    <3> HIDE DEF new, other, Refresh
    <3> QED
      BY <1>2, <1>3, <1>4 DEF Running
  <2> HIDE DEF Refresh
  <2> QED
    BY <2>1, <2>2
<1>6. TypeOK'
  BY <1>5 DEF IInv, TypeOK
<1>7. FilesSound'
  BY DEF IInv, FilesSound, Since, LastOf, Unsuccessful
<1>8. Sound(new, file, temp, synced)
  <2>1. Since(None, synced) /\ Unsuccessful(None)
    BY DEF Since, LastOf, Unsuccessful
  <2>2. new.outcome # None => Expected(new.outcome, new.at, file)
    BY <1>2 DEF Expected, Succeeding
  <2> HIDE DEF new
  <2> QED
    BY <1>2, <2>1, <2>2 DEF Sound, Lone, Succeeding
<1>9. ASSUME NEW v \in Running
      PROVE  Sound(other(v), file, temp, synced)
  <2> HIDE DEF other
  <2> QED
    BY <1>3 DEF IInv, Sound
<1>10. new.alone => Running' = {w}
  <2>1. ASSUME Running = {}, NEW v \in Running'
        PROVE  v = w
    <3> HIDE DEF new, other
    <3> QED
      BY <1>4, <2>1 DEF Running
  <2>2. w \in Running'
    <3> HIDE DEF new, other
    <3> QED
      BY <1>2, <1>4, NoneAssumption DEF Running
  <2> QED
    BY <1>2, <2>1, <2>2
<1>11. ASSUME NEW v \in Running'
       PROVE  /\ Sound(work'[v], file', temp', synced')
              /\ source' = "bundled" => work'[v].at \notin Succeeding
              /\ work'[v].alone => Running' = {v}
  <2>1. v \in Worker /\ work'[v] # None
    BY <1>11 DEF Running
  <2>2. CASE v = w
    <3>1. new.at \notin Succeeding
      BY <1>2 DEF Succeeding
    <3> HIDE DEF new, other
    <3> QED
      BY <1>4, <1>8, <1>10, <2>1, <2>2, <3>1
  <2>3. CASE v # w
    <3> HIDE DEF new, other
    <3>1. v \in Running /\ work'[v] = other(v)
      BY <1>4, <2>1, <2>3 DEF Running
    <3> QED
      BY <1>3, <1>9, <3>1 DEF IInv
  <2> QED
    BY <2>2, <2>3
<1> QED
  BY <1>6, <1>7, <1>11 DEF IInv

LEMMA BeginningsKeep ==
  ASSUME IInv, NEW w \in Worker, StartRefresh(w) \/ RefreshOnly(w) \/ Ready(w)
  PROVE  IInv'
<1>1. CASE StartRefresh(w) \/ RefreshOnly(w)
  BY <1>1, BeginKeeps DEF StartRefresh, RefreshOnly, Idle, IInv, TypeOK
<1>2. CASE Ready(w) /\ Due
  BY <1>2, BeginKeeps DEF Ready, Idle, IInv, TypeOK
<1>3. CASE Ready(w) /\ ~Due
  <2>1. /\ window' \in BOOLEAN /\ refreshing' \in BOOLEAN /\ day' \in Days /\ day' >= day
        /\ work' \in [Worker -> Refresh \cup {None}]
        /\ \A v \in Worker : work'[v] \in {work[v], None}
        /\ UNCHANGED <<file, temp, source, synced>>
    BY <1>3, DesktopAssumption DEF Ready, IInv, TypeOK, Days
  <2> QED
    BY <2>1, Gone
<1> QED
  BY <1>1, <1>2, <1>3

-------------------------------------------------------------------------------

LEMMA InvStep ==
  ASSUME IInv, [Next]_vars
  PROVE  IInv'
<1>1. ASSUME NEW w \in Worker, Proceed(w)
      PROVE  IInv'
  BY <1>1, SetKeeps, ReadKeeps, WriteKeeps, ReplaceKeeps, CannotWriteKeeps,
     SyncKeeps, BundledKeeps, RegistryKeeps, EndingsKeep DEF Proceed
<1>2. CASE UNCHANGED vars
  BY <1>2 DEF vars, IInv, TypeOK, FilesSound, Running, Sound, Lone, Since, LastOf,
     Unsuccessful, Tells, Expected
<1> QED
  BY <1>1, <1>2, BeginningsKeep, EndingsKeep DEF Next

\* What every refresh under way is about to write, and what the files hold, is
\* true of the past, whatever was interrupted.
THEOREM RefreshInvariant == Spec => []IInv
<1>1. Init => IInv
  <2> SUFFICES ASSUME Init PROVE IInv
    OBVIOUS
  <2>1. Running = {}
    BY DEF Init, Running
  <2>2. TypeOK
    <3>1. 0 \in Days
      BY DesktopAssumption DEF Days
    <3>2. work \in [Worker -> Refresh \cup {None}]
      BY DEF Init
    <3>3. {file, temp} \ {None} = {}
      BY DEF Init
    <3> QED
      BY <3>1, <3>2, <3>3 DEF Init, TypeOK
  <2>3. FilesSound
    BY NoneAssumption DEF Init, FilesSound, Since, LastOf, Unsuccessful
  <2> QED
    BY <2>1, <2>2, <2>3 DEF IInv
<1> QED
  BY <1>1, InvStep, PTL DEF Spec

\* Type correctness, for any number of refreshes that write the file at once: what
\* it calls a success carries the day it was one.
THEOREM RefreshTypeCorrect == Spec => []TypeOK
<1>1. IInv => TypeOK
  BY DEF IInv
<1> QED
  BY <1>1, RefreshInvariant, PTL

\* The status shown never claims a synchronisation that was not one: not after a
\* fallback to the bundled catalog, nor a crash, nor a failed write.
THEOREM StatusIsHonest == Spec => []StatusHonest
<1>1. IInv => StatusHonest
  BY DEF IInv, FilesSound, StatusHonest, Since, LastOf, Unsuccessful
<1> QED
  BY <1>1, RefreshInvariant, PTL

\* A refresh without others keeps the last successful sync on record until its own,
\* and ends with its own outcome shown, wherever it fails.
THEOREM OutcomeIsShown == Spec => OutcomeShown
<1>1. ASSUME IInv, [Next]_vars, NEW w \in Running, work[w].alone
      PROVE  /\ LastOf(file') = LastOf(file) \/ work[w].at \in {"refreshed", "ingested"}
             /\ work[w].at = "end" /\ work[w].outcome # None /\ work'[w] = None =>
                  file.state = work[w].outcome
  <2>1. Running = {w} /\ Lone(work[w], file, temp) /\ Sound(work[w], file, temp, synced)
    BY <1>1 DEF IInv, Sound
  <2>2. work[w].at = "end" /\ work[w].outcome # None => file.state = work[w].outcome
    BY <2>1 DEF Lone, Expected, Succeeding
  <2>3. CASE file' = file
    BY <2>2, <2>3
  <2>4. CASE \E v \in Worker : Replace(v)
    <3>1. Replace(w)
      <4>1. PICK v \in Worker : Replace(v)
        BY <2>4
      <4>2. v \in Running
        BY <4>1 DEF Replace, Running
      <4> QED
        BY <2>1, <4>1, <4>2
    <3>2. file' = temp /\ Tells(temp, work[w].at, file)
      BY <2>1, <3>1 DEF Replace, Lone
    <3>3. Reads(work[w].at) => LastOf(file') = LastOf(file)
      BY <3>2 DEF Tells, LastOf
    <3>4. ~Reads(work[w].at) => work[w].at \in {"refreshed", "ingested"}
      BY <3>2 DEF Tells, Reads
    <3> QED
      BY <2>2, <3>3, <3>4
  <2>5. file' = file \/ \E v \in Worker : Replace(v)
    BY <1>1 DEF Next, vars, Proceed, Set, Read, Write, CannotWrite, Sync, Bundled,
       Registry, End, StartRefresh, RefreshOnly, Kill, Ready, Close, DayPasses
  <2> QED
    BY <2>3, <2>4, <2>5
<1>2. ASSUME IInv, [Next]_vars
      PROVE  [\A w \in Running : work[w].alone =>
                /\ LastOf(file') = LastOf(file) \/ work[w].at \in {"refreshed", "ingested"}
                /\ work[w].at = "end" /\ work[w].outcome # None /\ work'[w] = None =>
                     file.state = work[w].outcome]_vars
  BY <1>1, <1>2
<1> QED
  BY <1>2, RefreshInvariant, PTL DEF Spec, OutcomeShown

-------------------------------------------------------------------------------
(* A refresh runs forward.                                                 *)

\* The places of refresh_jobs in the order a refresh can come to them, and at each
\* how much of a mark is yet to be written.
Ahead == [p \in Places |->
  CASE p = "set" -> 10 [] p = "started" -> 9 [] p = "sync" -> 8 [] p = "refreshed" -> 7
    [] p = "failed" -> 6 [] p = "bundled" -> 5 [] p = "fallback" -> 4
    [] p = "registry" -> 3 [] p = "ingested" -> 2 [] p = "gave_up" -> 1 [] OTHER -> 0]
Unwritten(r) == IF r.written THEN 0 ELSE IF r.payload # None THEN 1 ELSE 2
Remaining(r) == 3 * Ahead[r.at] + Unwritten(r)

\* Every step of a refresh under way ends it or brings it nearer to its end, and
\* what others do to it or to the files ends it or leaves it where it is.
RunsForward ==
  [][\A w \in Running :
       \/ work'[w] = None
       \/ Remaining(work'[w]) \in Nat /\ Remaining(work'[w]) < Remaining(work[w])
       \/ ~Proceed(w) /\ Remaining(work'[w]) = Remaining(work[w])]_vars

LEMMA RefreshFields ==
  ASSUME NEW r \in Refresh
  PROVE  /\ r.at \in Places /\ r.written \in BOOLEAN /\ Unwritten(r) \in 0..2
         /\ Ahead[r.at] \in 0..10 /\ Remaining(r) \in Nat
         /\ r # None
<1>1. r.at \in Places /\ r.written \in BOOLEAN /\ r # None
  BY NoneAssumption DEF Refresh
<1>2. Ahead[r.at] \in 0..10
  BY <1>1 DEF Ahead
<1> QED
  BY <1>1, <1>2 DEF Unwritten, Remaining

\* The end of a mark, or of a transaction, is a place further on.
LEMMA Onward ==
  ASSUME NEW w \in Worker, work \in [Worker -> Refresh \cup {None}], work[w] # None,
         NEW change \in Refresh, change.written = FALSE,
         NEW place \in Places, Ahead[place] < Ahead[work[w].at],
         GoTo(w, place, change)
  PROVE  Remaining(work'[w]) \in Nat /\ Remaining(work'[w]) < Remaining(work[w])
<1>1. work'[w] = [change EXCEPT !.at = place, !.payload = None]
  BY DEF GoTo
<1>2. work'[w].at = place /\ work'[w].written = FALSE /\ work'[w].payload = None
  BY <1>1 DEF Refresh
<1>3. Unwritten(work'[w]) = 2 /\ Unwritten(work[w]) \in 0..2
  BY <1>2, RefreshFields DEF Unwritten
<1>4. Ahead[place] \in Nat /\ Ahead[work[w].at] \in Nat
  BY RefreshFields DEF Ahead
<1> QED
  BY <1>2, <1>3, <1>4 DEF Remaining

LEMMA Forward ==
  ASSUME IInv, [Next]_vars, NEW w \in Running
  PROVE  \/ work'[w] = None
         \/ Remaining(work'[w]) \in Nat /\ Remaining(work'[w]) < Remaining(work[w])
         \/ ~Proceed(w) /\ Remaining(work'[w]) = Remaining(work[w])
<1> DEFINE Nearer == Remaining(work'[w]) \in Nat /\ Remaining(work'[w]) < Remaining(work[w])
<1>1. ASSUME Proceed(w)
      PROVE  work'[w] = None \/ Nearer
  <2> DEFINE r == work[w]
             m == r.at
             erased == [r EXCEPT !.written = FALSE]
  <2>1. /\ w \in Worker /\ work \in [Worker -> Refresh \cup {None}]
        /\ r \in Refresh /\ r # None
        /\ r.written \in BOOLEAN /\ m \in Places
        /\ m \notin Marks => ~r.written
    BY <1>1, WorkerTyped, RefreshFields DEF Running, IInv, TypeOK, Sound
  <2>2. CASE Set(w) \/ Sync(w) \/ Bundled(w) \/ Registry(w)
    <3>1. m \in {"set", "sync", "bundled", "registry"} /\ m \notin Marks
      BY <2>2 DEF Set, Sync, Bundled, Registry, Marks
    <3>2. r.written = FALSE
      BY <2>1, <3>1
    <3>3. \A o \in {"success", "failed", "stale_fallback"} :
            Outcome(w, o) \in Refresh /\ Outcome(w, o).written = FALSE
      <4> TAKE o \in {"success", "failed", "stale_fallback"}
      <4> DEFINE c == Outcome(w, o)
      <4>1. c \in Refresh /\ c.written = work[w].written
        BY <1>1, OutcomeFacts
      <4> QED
        BY <3>2, <4>1
    <3>4. CASE Set(w)
      <4>1. "started" \in Places /\ Ahead["started"] < Ahead[work[w].at]
        BY <3>4 DEF Set, Ahead, Places, Marks
      <4>2. GoTo(w, "started", work[w])
        BY <3>4 DEF Set
      <4> QED
        BY <2>1, <3>2, <4>1, <4>2, Onward
    <3>5. CASE Sync(w)
      <4>1. /\ "refreshed" \in Places /\ Ahead["refreshed"] < Ahead[work[w].at]
            /\ "failed" \in Places /\ Ahead["failed"] < Ahead[work[w].at]
        BY <3>5 DEF Sync, Ahead, Places, Marks
      <4>2. GoTo(w, "refreshed", Outcome(w, "success")) \/ GoTo(w, "failed", work[w])
        BY <3>5 DEF Sync
      <4>3. CASE GoTo(w, "refreshed", Outcome(w, "success"))
        BY <2>1, <3>2, <3>3, <4>1, <4>3, Onward
      <4>4. CASE GoTo(w, "failed", work[w])
        BY <2>1, <3>2, <4>1, <4>4, Onward
      <4> QED
        BY <4>2, <4>3, <4>4
    <3>6. CASE Bundled(w)
      <4>1. /\ "fallback" \in Places /\ Ahead["fallback"] < Ahead[work[w].at]
            /\ "registry" \in Places /\ Ahead["registry"] < Ahead[work[w].at]
        BY <3>6 DEF Bundled, Ahead, Places, Marks
      <4>2. GoTo(w, "fallback", Outcome(w, "stale_fallback")) \/ GoTo(w, "registry", work[w])
        BY <3>6 DEF Bundled
      <4>3. CASE GoTo(w, "fallback", Outcome(w, "stale_fallback"))
        BY <2>1, <3>2, <3>3, <4>1, <4>3, Onward
      <4>4. CASE GoTo(w, "registry", work[w])
        BY <2>1, <3>2, <4>1, <4>4, Onward
      <4> QED
        BY <4>2, <4>3, <4>4
    <3>7. CASE Registry(w)
      <4>1. /\ "ingested" \in Places /\ Ahead["ingested"] < Ahead[work[w].at]
            /\ "gave_up" \in Places /\ Ahead["gave_up"] < Ahead[work[w].at]
            /\ "end" \in Places /\ Ahead["end"] < Ahead[work[w].at]
        BY <3>7 DEF Registry, Ahead, Places, Marks
      <4>2. \/ GoTo(w, "ingested", Outcome(w, "success"))
            \/ GoTo(w, "gave_up", work[w])
            \/ GoTo(w, "end", work[w])
        BY <3>7 DEF Registry
      <4>3. CASE GoTo(w, "ingested", Outcome(w, "success"))
        BY <2>1, <3>2, <3>3, <4>1, <4>3, Onward
      <4>4. CASE GoTo(w, "gave_up", work[w])
        BY <2>1, <3>2, <4>1, <4>4, Onward
      <4>5. CASE GoTo(w, "end", work[w])
        BY <2>1, <3>2, <4>1, <4>5, Onward
      <4> QED
        BY <4>2, <4>3, <4>4, <4>5
    <3> QED
      BY <2>2, <3>4, <3>5, <3>6, <3>7
  <2>3. CASE Replace(w) \/ CannotWrite(w)
    <3>1. m \in Marks
      BY <1>1, <2>1, <2>3, WorkerTyped DEF Replace, CannotWrite, Composed, Marks, IInv, Sound
    <3>2. /\ After[m] \in Places /\ Ahead[After[m]] < Ahead[m]
          /\ Otherwise[m] \in Places /\ Ahead[Otherwise[m]] < Ahead[m]
      BY <3>1 DEF Marks, After, Otherwise, Places, Ahead
    <3>3. \A o \in {r.outcome, None} :
            LET c == [erased EXCEPT !.outcome = o]
            IN  c \in Refresh /\ c.written = FALSE
      BY <2>1 DEF Refresh
    <3>4. erased \in Refresh /\ erased.written = FALSE
      BY <2>1 DEF Refresh
    <3>5. CASE Replace(w)
      BY <2>1, <3>2, <3>4, <3>5, Onward DEF Replace
    <3>6. CASE CannotWrite(w)
      <4> DEFINE c == [r EXCEPT !.written = FALSE, !.outcome = None]
      <4>1. c \in Refresh /\ c.written = FALSE
        BY <2>1 DEF Refresh
      <4>2. GoTo(w, Otherwise[m], c)
        BY <3>6 DEF CannotWrite
      <4> QED
        BY <2>1, <3>2, <4>1, <4>2, Onward
    <3> QED
      BY <2>3, <3>5, <3>6
  <2>4. CASE Read(w)
    <3>1. /\ work'[w] = [r EXCEPT !.payload = Marked(m, IF file = None THEN Blank ELSE file)]
          /\ r.payload = None /\ r.written = FALSE
      BY <2>1, <2>4 DEF Read
    <3>2. Marked(m, IF file = None THEN Blank ELSE file) # None
      <4> DEFINE previous == IF file = None THEN Blank ELSE file
                 c == Marked(m, previous)
      <4>1. m \in Marks /\ Reads(m)
        BY <2>4 DEF Read, Reads
      <4>2. c \in Recorded
        BY <1>1, <4>1, PreviousTyped
      <4> QED
        BY <4>2, NoneAssumption
    <3>3. work'[w].at = m /\ work'[w].payload # None /\ work'[w].written = FALSE
      BY <2>1, <3>1, <3>2 DEF Refresh
    <3>4. Unwritten(r) = 2 /\ Unwritten(work'[w]) = 1 /\ Ahead[m] \in Nat
      BY <2>1, <3>1, <3>3, RefreshFields DEF Unwritten
    <3> QED
      BY <3>3, <3>4 DEF Remaining
  <2>5. CASE Write(w)
    <3>1. work'[w] = [r EXCEPT !.written = TRUE, !.payload = None] /\ ~r.written
      BY <2>1, <2>5 DEF Write, Composed
    <3>2. work'[w].at = m /\ work'[w].written
      BY <2>1, <3>1 DEF Refresh
    <3>3. Unwritten(r) \in 1..2 /\ Unwritten(work'[w]) = 0 /\ Ahead[m] \in Nat
      BY <2>1, <3>1, <3>2, RefreshFields DEF Unwritten
    <3> QED
      BY <3>2, <3>3 DEF Remaining
  <2>6. CASE End(w)
    BY <2>1, <2>6 DEF End
  <2> QED
    BY <1>1, <2>2, <2>3, <2>4, <2>5, <2>6 DEF Proceed
<1>2. ASSUME ~Proceed(w)
      PROVE  work'[w] = None \/ Remaining(work'[w]) = Remaining(work[w])
  <2>1. /\ w \in Worker /\ work \in [Worker -> Refresh \cup {None}]
        /\ work[w] \in Refresh /\ work[w] # None
    BY <1>2, WorkerTyped DEF Running, IInv, TypeOK
  <2>2. CASE work'[w] = work[w]
    BY <2>2
  <2>3. ASSUME NEW v \in Worker, Proceed(v)
        PROVE  work'[w] = work[w]
    <3>1. v # w
      BY <1>2, <2>3
    <3> QED
      BY <2>1, <2>3, <3>1 DEF Proceed, Set, Read, Write, Replace, CannotWrite, Sync, Bundled,
         Registry, End, GoTo
  <2>4. ASSUME NEW v \in Worker, NEW threaded \in BOOLEAN, Idle(v), Begin(v, threaded)
        PROVE  Remaining(work'[w]) = Remaining(work[w])
    <3>1. work'[w] = [work[w] EXCEPT !.alone = FALSE, !.outcome = None]
      <4>1. v # w /\ work[v] = None
        BY <1>2, <2>4 DEF Idle, Running
      <4>2. w # v /\ work[w] # None
        BY <2>1, <4>1
      <4> QED
        BY <2>1, <2>4, <4>2, Zenon DEF Begin
    <3>2. /\ work'[w].at = work[w].at /\ work'[w].written = work[w].written
          /\ work'[w].payload = work[w].payload
      BY <2>1, <3>1 DEF Refresh
    <3> QED
      BY <3>2 DEF Remaining, Unwritten
  <2>5. ASSUME NEW v \in Worker, StartRefresh(v) \/ RefreshOnly(v) \/ Ready(v) \/ Kill(v)
        PROVE  \/ work'[w] = None \/ work'[w] = work[w]
               \/ \E threaded \in BOOLEAN : Idle(v) /\ Begin(v, threaded)
    BY <2>1, <2>5 DEF StartRefresh, RefreshOnly, Ready, Kill
  <2>6. CASE Close \/ DayPasses \/ UNCHANGED vars
    BY <2>1, <2>6 DEF Close, DayPasses, vars
  <2> QED
    BY <1>2, <2>2, <2>3, <2>4, <2>5, <2>6 DEF Next
<1> QED
  BY <1>1, <1>2

\* The safety half of RefreshEnds, for any number of refreshes: whatever fails and
\* whoever takes its temporary file, a refresh never comes back to a place it has
\* been at.
THEOREM RefreshRunsForward == Spec => RunsForward
<1>1. ASSUME IInv, [Next]_vars
      PROVE  [\A w \in Running :
                \/ work'[w] = None
                \/ Remaining(work'[w]) \in Nat /\ Remaining(work'[w]) < Remaining(work[w])
                \/ ~Proceed(w) /\ Remaining(work'[w]) = Remaining(work[w])]_vars
  BY <1>1, Forward
<1> QED
  BY <1>1, RefreshInvariant, PTL DEF Spec, RunsForward

-------------------------------------------------------------------------------
(* The flag that refuses refreshes.                                        *)

\* The refresh that has set the flag and will clear it.
Flags(w) ==
  /\ refreshing
  /\ work[w] # None /\ work[w].threaded /\ work[w].at # "set"

\* Only a thread of the window comes to set the flag; where it is set, one has.
FlagInv ==
  /\ \A w \in Running : work[w].at = "set" => work[w].threaded
  /\ refreshing => \E w \in Worker : Flags(w)

\* The place "set" is the first of all.
LEMMA NotSetAgain ==
  ASSUME NEW r \in Refresh, NEW s \in Refresh, r.at # "set", Remaining(s) <= Remaining(r)
  PROVE  s.at # "set" /\ Remaining(r) \in 0..29
<1>1. r.at \in Places /\ s.at \in Places /\ Unwritten(r) \in 0..2 /\ Unwritten(s) \in 0..2
  BY RefreshFields
<1>2. Ahead[r.at] \in 0..9 /\ Ahead[s.at] \in 0..10 /\ (s.at = "set" => Ahead[s.at] = 10)
  BY <1>1 DEF Ahead
<1> QED
  BY <1>1, <1>2 DEF Remaining

\* A refresh goes on where it was begun, unless it ends or is ended.
LEMMA SameThread ==
  ASSUME IInv, [Next]_vars, NEW w \in Running
  PROVE  \/ End(w) \/ Kill(w) \/ Close
         \/ work'[w] # None /\ work'[w].threaded = work[w].threaded
<1> DEFINE Same == work'[w] # None /\ work'[w].threaded = work[w].threaded
<1>1. /\ w \in Worker /\ work \in [Worker -> Refresh \cup {None}]
      /\ work[w] \in Refresh /\ work[w] # None
      /\ work[w].written \/ work[w].payload # None => work[w].at \in Marks
  BY WorkerTyped DEF Running, IInv, TypeOK, Sound
<1>2. ASSUME work'[w] = work[w]
      PROVE  Same
  BY <1>1, <1>2
<1>3. ASSUME NEW place \in Places, NEW change \in Refresh, change.threaded = work[w].threaded,
             GoTo(w, place, change)
      PROVE  Same
  <2>1. work'[w] = Going(place, change)
    BY <1>1, <1>3 DEF GoTo, Going
  <2> QED
    BY <1>3, <2>1, GoingFacts, NoneAssumption
<1>4. ASSUME Set(w) \/ Sync(w) \/ Bundled(w) \/ Registry(w)
      PROVE  Same
  <2>1. \A o \in {"success", "failed", "stale_fallback"} :
          Outcome(w, o) \in Refresh /\ Outcome(w, o).threaded = work[w].threaded
    BY <1>1 DEF Outcome, Refresh
  <2>2. PICK place \in Places, change \in {work[w]} \cup
                 {Outcome(w, o) : o \in {"success", "failed", "stale_fallback"}} :
               GoTo(w, place, change)
    BY <1>4 DEF Set, Sync, Bundled, Registry, Places, Marks
  <2>3. change \in Refresh /\ change.threaded = work[w].threaded
    BY <1>1, <2>1, <2>2
  <2> QED
    BY <1>3, <2>2, <2>3
<1>5. ASSUME Replace(w) \/ CannotWrite(w)
      PROVE  Same
  <2>1. \A c \in {[work[w] EXCEPT !.written = FALSE],
                  [work[w] EXCEPT !.written = FALSE, !.outcome = None]} :
          c \in Refresh /\ c.threaded = work[w].threaded
    BY <1>1 DEF Refresh
  <2>2. work[w].at \in Marks
    BY <1>1, <1>5 DEF Replace, CannotWrite, Composed, Marks
  <2>3. After[work[w].at] \in Places /\ Otherwise[work[w].at] \in Places
    BY <2>2 DEF Marks, After, Otherwise, Places
  <2>4. CASE Replace(w)
    BY <1>3, <2>1, <2>3, <2>4 DEF Replace
  <2>5. CASE CannotWrite(w)
    BY <1>3, <2>1, <2>3, <2>5 DEF CannotWrite
  <2> QED
    BY <1>5, <2>4, <2>5
<1>6. ASSUME Read(w) \/ Write(w)
      PROVE  Same
  <2>1. \A c \in Recorded : [work[w] EXCEPT !.payload = c] \in Refresh
                            /\ [work[w] EXCEPT !.payload = c].threaded = work[w].threaded
    BY <1>1 DEF Refresh
  <2>2. CASE Read(w)
    <3> DEFINE previous == IF file = None THEN Blank ELSE file
               c == Marked(work[w].at, previous)
    <3>1. work[w].at \in Marks /\ Reads(work[w].at)
      BY <2>2 DEF Read, Reads
    <3>2. c \in Recorded
      BY <3>1, PreviousTyped
    <3>3. work'[w] = [work[w] EXCEPT !.payload = c]
      BY <1>1, <2>2 DEF Read
    <3> QED
      BY <2>1, <3>2, <3>3, NoneAssumption
  <2>3. CASE Write(w)
    <3> DEFINE c == [work[w] EXCEPT !.written = TRUE, !.payload = None]
    <3>1. c \in Refresh /\ c.threaded = work[w].threaded
      BY <1>1 DEF Refresh
    <3>2. work'[w] = c
      BY <1>1, <2>3 DEF Write
    <3> QED
      BY <3>1, <3>2, NoneAssumption
  <2> QED
    BY <1>6, <2>2, <2>3
<1>7. ASSUME NEW v \in Worker, v # w, Proceed(v) \/ Kill(v)
      PROVE  work'[w] = work[w]
  BY <1>1, <1>7 DEF Proceed, Kill, Set, Read, Write, Replace, CannotWrite, Sync, Bundled,
     Registry, End, GoTo
<1>8. ASSUME NEW v \in Worker, NEW threaded \in BOOLEAN, Idle(v), Begin(v, threaded)
      PROVE  Same
  <2> DEFINE c == [work[w] EXCEPT !.alone = FALSE, !.outcome = None]
  <2>1. w # v
    BY <1>8 DEF Idle
  <2>2. work'[w] = c
    BY <1>1, <1>8, <2>1, Zenon DEF Begin
  <2>3. c \in Refresh /\ c.threaded = work[w].threaded
    BY <1>1 DEF Refresh
  <2> QED
    BY <2>2, <2>3, NoneAssumption
<1>9. ASSUME NEW v \in Worker, StartRefresh(v) \/ RefreshOnly(v) \/ Ready(v)
      PROVE  \/ work'[w] = work[w]
             \/ \E threaded \in BOOLEAN : Idle(v) /\ Begin(v, threaded)
  BY <1>9 DEF StartRefresh, RefreshOnly, Ready
<1>10. ASSUME DayPasses \/ UNCHANGED vars
       PROVE  Same
  BY <1>2, <1>10 DEF DayPasses, vars
<1> HIDE DEF Same
<1>11. ASSUME Proceed(w)
       PROVE  End(w) \/ Same
  BY <1>4, <1>5, <1>6, <1>11 DEF Proceed
<1>12. ASSUME NEW v \in Worker,
              Proceed(v) \/ StartRefresh(v) \/ RefreshOnly(v) \/ Kill(v) \/ Ready(v)
       PROVE  End(w) \/ Kill(w) \/ Same
  BY <1>2, <1>7, <1>8, <1>9, <1>11, <1>12
<1>13. End(w) \/ Kill(w) \/ Close \/ Same
  BY <1>10, <1>12 DEF Next
<1> QED
  BY <1>13 DEF Same

\* A refresh that has set the flag clears it when it ends; until then it has set it.
LEMMA FlagGoesWithRefresh ==
  ASSUME IInv, IInv', [Next]_vars, NEW w \in Worker, Flags(w), refreshing'
  PROVE  /\ Flags(w)'
         /\ \/ Remaining(work'[w]) \in Nat /\ Remaining(work'[w]) < Remaining(work[w])
            \/ ~Proceed(w) /\ Remaining(work'[w]) = Remaining(work[w])
<1>1. w \in Running /\ work[w].threaded /\ work[w].at # "set"
  BY DEF Flags, Running
<1>2. ~End(w) /\ ~Kill(w) /\ ~Close
  BY <1>1 DEF End, FlagAfter, Kill, Close
<1>3. work'[w] # None /\ work'[w].threaded = work[w].threaded
  BY <1>1, <1>2, SameThread
<1>4. \/ Remaining(work'[w]) \in Nat /\ Remaining(work'[w]) < Remaining(work[w])
      \/ ~Proceed(w) /\ Remaining(work'[w]) = Remaining(work[w])
  BY <1>1, <1>3, Forward
<1>5. work[w] \in Refresh /\ work'[w] \in Refresh
  BY <1>1, <1>3 DEF IInv, TypeOK, Running
<1>6. work'[w].at # "set"
  <2>1. Remaining(work'[w]) <= Remaining(work[w])
    BY <1>4, <1>5, RefreshFields
  <2> QED
    BY <1>1, <1>5, <2>1, NotSetAgain
<1> QED
  BY <1>1, <1>3, <1>4, <1>6 DEF Flags

\* A refresh comes about by a start, or by the window's first.
LEMMA OnlyBegins ==
  ASSUME IInv, [Next]_vars, NEW w \in Worker, w \notin Running, work'[w] # None
  PROVE  \E threaded \in BOOLEAN : Begin(w, threaded)
<1>1. work \in [Worker -> Refresh \cup {None}] /\ work[w] = None
  BY DEF IInv, TypeOK, Running
<1>2. work' # work
  BY <1>1
<1>3. ASSUME NEW v \in Worker, Proceed(v) \/ Kill(v)
      PROVE  FALSE
  <2>1. v # w
    BY <1>1, <1>3 DEF Proceed, Kill, Set, Read, Write, Replace, CannotWrite, Composed, Sync,
       Bundled, Registry, End
  <2> QED
    BY <1>1, <1>3, <2>1 DEF Proceed, Kill, Set, Read, Write, Replace, CannotWrite, Sync,
       Bundled, Registry, End, GoTo
<1>4. ASSUME NEW v \in Worker, NEW threaded \in BOOLEAN, Begin(v, threaded)
      PROVE  v = w
  BY <1>1, <1>4, Zenon DEF Begin
<1>5. ASSUME NEW v \in Worker, StartRefresh(v) \/ RefreshOnly(v) \/ Ready(v)
      PROVE  \E threaded \in BOOLEAN : Begin(v, threaded)
  BY <1>2, <1>5 DEF StartRefresh, RefreshOnly, Ready
<1>6. ~Close /\ ~DayPasses /\ ~UNCHANGED vars
  BY <1>1 DEF Close, DayPasses, vars
<1> QED
  BY <1>3, <1>4, <1>5, <1>6 DEF Next

\* Only a thread of the window begins by setting the flag.
LEMMA NewRefresh ==
  ASSUME NEW w \in Worker, NEW threaded \in BOOLEAN, Begin(w, threaded)
  PROVE  work'[w].at = "set" => work'[w].threaded
<1> DEFINE new == [at |-> IF threaded THEN "set" ELSE "started", threaded |-> threaded,
                   payload |-> None, written |-> FALSE, alone |-> Running = {},
                   outcome |-> IF Running = {} THEN "failed" ELSE None]
<1>1. work'[w] = new
  BY Zenon DEF Begin
<1>2. new.at = "set" => new.threaded
  OBVIOUS
<1> HIDE DEF new
<1> QED
  BY <1>1, <1>2

\* While the flag is set somebody is there to clear it.
LEMMA FlagIsSomeones == Spec => []FlagInv
<1>1. Init => FlagInv
  BY DEF Init, FlagInv, Running
<1>2. ASSUME IInv, IInv', FlagInv, [Next]_vars
      PROVE  FlagInv'
  <2>1. ASSUME NEW w \in Worker, work'[w] # None, work'[w].at = "set"
        PROVE  work'[w].threaded
    <3>1. CASE w \in Running
      <4>1. work[w] \in Refresh /\ work'[w] \in Refresh
        BY <1>2, <2>1, <3>1 DEF IInv, TypeOK, Running
      <4>2. Remaining(work'[w]) <= Remaining(work[w])
        BY <1>2, <2>1, <3>1, <4>1, Forward, RefreshFields
      <4>3. work[w].threaded
        BY <1>2, <2>1, <3>1, <4>1, <4>2, NotSetAgain DEF FlagInv
      <4>4. work \in [Worker -> Refresh \cup {None}]
        BY <1>2 DEF IInv, TypeOK
      <4>5. ~End(w) /\ ~Kill(w) /\ (Close => work'[w] = work[w])
        BY <2>1, <4>4 DEF End, Kill, Close
      <4> QED
        BY <1>2, <3>1, <4>3, <4>5, SameThread
    <3>2. CASE w \notin Running
      <4>1. PICK threaded \in BOOLEAN : Begin(w, threaded)
        BY <1>2, <2>1, <3>2, OnlyBegins
      <4> QED
        BY <2>1, <4>1, NewRefresh
    <3> QED
      BY <3>1, <3>2
  <2>2. ASSUME refreshing'
        PROVE  \E w \in Worker : Flags(w)'
    <3>1. CASE refreshing
      <4>1. PICK w \in Worker : Flags(w)
        BY <1>2, <3>1 DEF FlagInv
      <4> QED
        BY <1>2, <2>2, <4>1, FlagGoesWithRefresh
    <3>2. CASE ~refreshing
      <4>1. PICK w \in Worker : Set(w)
        <5>1. ASSUME NEW v \in Worker, Proceed(v), ~Set(v)
              PROVE  FALSE
          BY <2>2, <3>2, <5>1 DEF Proceed, Read, Write, Replace, CannotWrite, Sync, Bundled,
             Registry, End, FlagAfter
        <5>2. ASSUME NEW v \in Worker, StartRefresh(v) \/ RefreshOnly(v) \/ Kill(v) \/ Ready(v)
              PROVE  FALSE
          BY <2>2, <3>2, <5>2 DEF StartRefresh, RefreshOnly, Kill, Ready
        <5>3. ~Close /\ ~DayPasses /\ ~UNCHANGED vars
          BY <2>2, <3>2 DEF Close, DayPasses, vars
        <5> QED
          BY <1>2, <5>1, <5>2, <5>3 DEF Next
      <4>2. w \in Running /\ work[w] \in Refresh /\ work[w].at = "set"
        BY <1>2, <4>1, WorkerTyped DEF Set
      <4>3. work[w].threaded
        BY <1>2, <4>2 DEF FlagInv
      <4>4. work'[w] = Going("started", work[w])
        BY <1>2, <4>1, <4>2 DEF Set, GoTo, Going, IInv, TypeOK, Running
      <4>5. work'[w] # None /\ work'[w].threaded /\ work'[w].at = "started"
        <5>1. "started" \in Places
          BY DEF Places, Marks
        <5> QED
          BY <4>2, <4>3, <4>4, <5>1, GoingFacts, NoneAssumption
      <4> QED
        BY <2>2, <4>5 DEF Flags
    <3> QED
      BY <3>1, <3>2
  <2> QED
    BY <2>1, <2>2 DEF FlagInv, Running
<1> QED
  BY <1>1, <1>2, RefreshInvariant, PTL DEF Spec

\* A refresh that is under way can always make a step: wherever it is, the guard of
\* one of them holds.
LEMMA AlwaysAStep ==
  ASSUME IInv, NEW w \in Running
  PROVE  \/ work[w].at \in {"set", "sync", "bundled", "registry", "end"}
         \/ Reads(work[w].at) /\ work[w].payload = None /\ ~work[w].written
         \/ Composed(w)
         \/ work[w].written
<1>1. work[w].at \in Places /\ work[w] # None
  BY WorkerTyped DEF Running
<1> QED
  BY <1>1 DEF Places, Marks, Reads, Composed

\* So weak fairness of the steps of every refresh is [] of this.
Scheduled(w) == [](work[w] # None) => <><<Proceed(w)>>_vars
AllScheduled == \A w \in Worker : Scheduled(w)

\* The button comes back, however the refresh ends: for any number of refreshes, and
\* whatever they do to each other's files.
THEOREM FlagIsCleared == Spec /\ []AllScheduled => RefreshEnds
<1> DEFINE Inv == IInv /\ FlagInv
           Flagged == \E w \in Worker : Flags(w)
           Runs == []Inv /\ [][Next]_vars /\ []AllScheduled
<1>1. ASSUME NEW w \in Worker
      PROVE  Runs => (Flags(w) => <>~refreshing)
  <2> DEFINE At(k) == Flags(w) /\ Remaining(work[w]) = k
             Below(k) == Flags(w) /\ Remaining(work[w]) \in 0..29 /\ Remaining(work[w]) < k
             Sinks(k) == At(k) => (At(k)' /\ ~Proceed(w)) \/ Below(k)' \/ ~refreshing'
             Splits(k, j) == (Below(k) => At(j) \/ Below(j)) /\ (At(j) => work[w] # None)
  <2>1. ASSUME Inv, Inv', [Next]_vars
        PROVE
          /\ Sinks(0) /\ Sinks(1) /\ Sinks(2) /\ Sinks(3) /\ Sinks(4) /\ Sinks(5)
          /\ Sinks(6) /\ Sinks(7) /\ Sinks(8) /\ Sinks(9) /\ Sinks(10) /\ Sinks(11)
          /\ Sinks(12) /\ Sinks(13) /\ Sinks(14) /\ Sinks(15) /\ Sinks(16) /\ Sinks(17)
          /\ Sinks(18) /\ Sinks(19) /\ Sinks(20) /\ Sinks(21) /\ Sinks(22) /\ Sinks(23)
          /\ Sinks(24) /\ Sinks(25) /\ Sinks(26) /\ Sinks(27) /\ Sinks(28) /\ Sinks(29)
    <3>1. ASSUME NEW k \in 0..29
          PROVE  Sinks(k)
      <4> SUFFICES ASSUME At(k), refreshing'
                   PROVE  (At(k)' /\ ~Proceed(w)) \/ Below(k)'
        OBVIOUS
      <4>1. /\ Flags(w)'
            /\ \/ Remaining(work'[w]) \in Nat /\ Remaining(work'[w]) < Remaining(work[w])
               \/ ~Proceed(w) /\ Remaining(work'[w]) = Remaining(work[w])
        BY <2>1, FlagGoesWithRefresh
      <4> QED
        BY <4>1
    <3> HIDE DEF Sinks
    <3> QED
      BY <3>1
  <2>2. /\ (Below(0) => FALSE) /\ Splits(1, 0) /\ Splits(2, 1) /\ Splits(3, 2)
        /\ Splits(4, 3) /\ Splits(5, 4) /\ Splits(6, 5) /\ Splits(7, 6) /\ Splits(8, 7)
        /\ Splits(9, 8) /\ Splits(10, 9) /\ Splits(11, 10) /\ Splits(12, 11)
        /\ Splits(13, 12) /\ Splits(14, 13) /\ Splits(15, 14) /\ Splits(16, 15)
        /\ Splits(17, 16) /\ Splits(18, 17) /\ Splits(19, 18) /\ Splits(20, 19)
        /\ Splits(21, 20) /\ Splits(22, 21) /\ Splits(23, 22) /\ Splits(24, 23)
        /\ Splits(25, 24) /\ Splits(26, 25) /\ Splits(27, 26) /\ Splits(28, 27)
        /\ Splits(29, 28) /\ Splits(30, 29)
    BY DEF Flags
  <2>3. Inv => (Flags(w) => Below(30))
    <3> SUFFICES ASSUME IInv, Flags(w) PROVE Remaining(work[w]) \in 0..29
      OBVIOUS
    <3>1. work[w] \in Refresh /\ work[w].at # "set"
      BY DEF IInv, TypeOK, Flags
    <3>2. Remaining(work[w]) <= Remaining(work[w])
      BY <3>1, RefreshFields
    <3> QED
      BY <3>1, <3>2, NotSetAgain
  <2>4. AllScheduled => Scheduled(w)
    BY DEF AllScheduled
  <2> HIDE DEF At, Below, Inv
  <2> QED
    BY <2>1, <2>2, <2>3, <2>4, PTL DEF Scheduled
<1>2. Runs => (Flagged => <>~refreshing)
  BY <1>1
<1>3. Inv => (refreshing => Flagged)
  BY DEF FlagInv
<1>4. Inv <=> IInv /\ FlagInv
  OBVIOUS
<1> HIDE DEF Inv, Flagged
<1> QED
  BY <1>2, <1>3, <1>4, RefreshInvariant, FlagIsSomeones, PTL DEF Spec, RefreshEnds
===============================================================================
