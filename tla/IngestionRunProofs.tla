-------------------------- MODULE IngestionRunProofs --------------------------
(***************************************************************************)
(* Proofs about a scheduled ingestion run: the boards its hourly batches   *)
(* select (RefreshSchedule), and the lock on the database it writes        *)
(* (WriterLock).                                                           *)
(*                                                                         *)
(* The lock: types on every platform, mutual exclusion where an open lock  *)
(* file cannot be removed, a bound on every attempt, and from it that each *)
(* attempt of a thread that is scheduled ends.                             *)
(*                                                                         *)
(* The schedule: types, the plan of the workflow, and the fairness of the  *)
(* queue.  The plan's invariant says of every board how many it still has  *)
(* ahead: none that is due has more than the runs left to it can take      *)
(* (Waiting), because the queue is sorted by age (Queued) and every run    *)
(* takes the head of it.                                                   *)
(***************************************************************************)
EXTENDS WriterLock, RefreshSchedule, FiniteSetTheorems, FunctionTheorems, TLAPS

\* The lock's state stays well typed, for any threads and processes, on both
\* platforms.
THEOREM LockTypeCorrect == LockSpec => []LockTypeOK
<1>1. LockInit => LockTypeOK
  BY LockAssumption DEF LockInit, LockTypeOK, Steps, NoFile
<1>2. LockTypeOK /\ [LockNext]_lockVars => LockTypeOK'
  <2> SUFFICES ASSUME LockTypeOK, [LockNext]_lockVars
               PROVE  LockTypeOK'
    OBVIOUS
  <2> USE LockAssumption DEF LockTypeOK, Steps, Goto
  <2>1. ASSUME NEW t \in Thread, Enter(t) \/ Step(t) \/ Close(t)
        PROVE  LockTypeOK'
    <3>1. CASE Enter(t) \/ Create(t) \/ Exists(t) \/ Close(t) \/ CloseRead(t)
      BY <3>1 DEF Enter, Create, Exists, Close, CloseRead
    <3>2. CASE ReadOwner(t)
      BY <3>2 DEF ReadOwner
    <3>3. CASE Refuse(t) \/ Recover(t)
      BY <3>3 DEF Refuse, Recover
    <3>4. CASE Steal(t)
      BY <3>4 DEF Steal, NoFile
    <3>5. CASE Stamp(t)
      BY <3>5 DEF Stamp
    <3>6. CASE Release(t)
      BY <3>6 DEF Release, NoFile
    <3> QED
      BY <2>1, <3>1, <3>2, <3>3, <3>4, <3>5, <3>6 DEF Step
  <2>2. ASSUME NEW p \in Pid, Die(p) \/ Start(p)
        PROVE  LockTypeOK'
    BY <2>2 DEF Die, Start
  <2>3. CASE UNCHANGED lockVars
    BY <2>3 DEF lockVars
  <2> QED
    BY <2>1, <2>2, <2>3 DEF LockNext
<1> QED
  BY <1>1, <1>2, PTL DEF LockSpec

\* Nobody takes the file of a thread that has it open: on Windows the file at
\* lock_path belongs to the thread that is stamping it or writing under it.
THEOREM LockFileKept == ASSUME Windows PROVE LockSpec => []HolderOwnsFile
<1>1. LockInit => HolderOwnsFile
  BY DEF LockInit, HolderOwnsFile
<1>2. ASSUME LockTypeOK, HolderOwnsFile, [LockNext]_lockVars
      PROVE  HolderOwnsFile'
  <2> USE <1>2 DEF LockTypeOK, HolderOwnsFile, Goto, Removable, Open
  <2>1. ASSUME NEW t \in Thread, Enter(t) \/ Step(t) \/ Close(t)
        PROVE  HolderOwnsFile'
    <3>1. CASE Enter(t) \/ Exists(t) \/ ReadOwner(t) \/ CloseRead(t)
                 \/ Refuse(t) \/ Recover(t) \/ Close(t)
      BY <3>1 DEF Enter, Exists, ReadOwner, CloseRead, Refuse, Recover, Close
    <3>2. CASE Create(t)
      <4>1. \A u \in Thread : pc[u] \notin {"stamp", "write"}
        BY <3>2, LockAssumption DEF Create, Present
      <4> QED
        BY <3>2, <4>1 DEF Create
    <3>3. CASE Stamp(t)
      BY <3>3 DEF Stamp
    <3>4. CASE Steal(t)
      <4>1. CASE Present /\ ~Removable
        BY <3>4, <4>1 DEF Steal
      <4>2. CASE ~(Present /\ ~Removable)
        <5>1. \A u \in Thread : pc[u] \notin {"stamp", "write"}
          BY <4>2, LockAssumption DEF Present
        <5> QED
          BY <3>4, <4>2, <5>1 DEF Steal
      <4> QED
        BY <4>1, <4>2
    <3>5. CASE Release(t)
      <4>1. CASE Removable
        <5>1. \A u \in Thread : pc[u] \notin {"stamp", "write"}
          BY <4>1
        <5> QED
          BY <3>5, <5>1 DEF Release
      <4>2. CASE ~Removable
        BY <3>5, <4>2 DEF Release
      <4> QED
        BY <4>1, <4>2
    <3> QED
      BY <2>1, <3>1, <3>2, <3>3, <3>4, <3>5 DEF Step
  <2>2. ASSUME NEW p \in Pid, Die(p) \/ Start(p)
        PROVE  HolderOwnsFile'
    BY <2>2 DEF Die, Start
  <2>3. CASE UNCHANGED lockVars
    BY <2>3 DEF lockVars
  <2> QED
    BY <2>1, <2>2, <2>3 DEF LockNext
<1>3. LockTypeOK /\ HolderOwnsFile /\ [LockNext]_lockVars => HolderOwnsFile'
  BY <1>2
<1> QED
  BY <1>1, <1>3, LockTypeCorrect, PTL DEF LockSpec

\* At most one thread of any process writes the database under the lock, as
\* the docstring of database_write_lock has it, where open files stay.
THEOREM LockExcludes == ASSUME Windows PROVE LockSpec => []MutualExclusion
<1>1. HolderOwnsFile => MutualExclusion
  BY DEF HolderOwnsFile, MutualExclusion
<1> QED
  BY <1>1, LockFileKept, PTL

\* Where open files stay, the threads that have the file open as its creator
\* are at most one, and Holder names it.
LEMMA HolderNamed ==
  ASSUME HolderOwnsFile
  PROVE  /\ \A t \in Thread : pc[t] \in {"stamp", "write"} => Holder = t
         /\ (\A t \in Thread : pc[t] \notin {"stamp", "write"}) => Holder = None
<1>1. ASSUME NEW t \in Thread, pc[t] \in {"stamp", "write"}
      PROVE  Holder = t
  <2>1. \A u \in Thread : pc[u] \in {"stamp", "write"} => u = t
    BY <1>1 DEF HolderOwnsFile
  <2> QED
    BY <1>1, <2>1 DEF Holder
<1>2. ASSUME \A t \in Thread : pc[t] \notin {"stamp", "write"}
      PROVE  Holder = None
  BY <1>2 DEF Holder
<1> QED
  BY <1>1, <1>2

\* The lock implements the abstract mutex where open files stay: through every
\* race for a stale file the right to write is nobody's before it is another's.
THEOREM LockIsMutex == ASSUME Windows PROVE LockSpec => IsMutex
<1>1. LockInit => Promise!Init
  BY DEF LockInit, Promise!Init, Holder
<1>2. ASSUME LockTypeOK, HolderOwnsFile, HolderOwnsFile', [LockNext]_lockVars
      PROVE  [Promise!Next]_Holder
  <2> DEFINE Has(t) == pc[t] \in {"stamp", "write"}
  <2>0. Holder = None \/ \E u \in Thread : Has(u) /\ Holder = u
    BY <1>2, HolderNamed
  <2>1. ASSUME NEW t \in Thread, Create(t)
        PROVE  Promise!Next
    <3>1. \A u \in Thread : ~Has(u)
      BY <1>2, <2>1, LockAssumption DEF Create, Present, HolderOwnsFile
    <3>2. Holder = None
      BY <1>2, <3>1, HolderNamed
    <3>3. pc'[t] = "stamp"
      BY <1>2, <2>1 DEF Create, Goto, LockTypeOK
    <3>4. Holder' = t
      BY <1>2, <3>3 DEF Holder, HolderOwnsFile
    <3> QED
      BY <3>2, <3>4 DEF Promise!Next, Promise!Acquire
  <2>2. ASSUME \A u \in Thread : (Has(u))' => Has(u)
        PROVE  [Promise!Next]_Holder
    <3>1. CASE \A u \in Thread : ~(Has(u))'
      <4>1. Holder' = None
        BY <3>1 DEF Holder
      <4> QED
        BY <4>1 DEF Promise!Next, Promise!Release
    <3>2. CASE \E u \in Thread : (Has(u))'
      <4>1. PICK u \in Thread : (Has(u))'
        BY <3>2
      <4>2. Holder = u
        BY <1>2, <2>2, <4>1, HolderNamed
      <4>3. Holder' = u
        BY <1>2, <4>1 DEF Holder, HolderOwnsFile
      <4> QED
        BY <4>2, <4>3
    <3> QED
      BY <3>1, <3>2
  <2>3. ASSUME NEW t \in Thread, Enter(t) \/ Step(t) \/ Close(t), ~Create(t)
        PROVE  \A u \in Thread : (Has(u))' => Has(u)
    <3>1. CASE Stamp(t)
      BY <1>2, <3>1 DEF Stamp, Goto, LockTypeOK
    <3>2. CASE Steal(t)
      BY <1>2, <3>2 DEF Steal, Goto, LockTypeOK
    <3>3. CASE Enter(t) \/ Exists(t) \/ ReadOwner(t) \/ CloseRead(t)
                 \/ Refuse(t) \/ Recover(t) \/ Close(t) \/ Release(t)
      BY <1>2, <3>3 DEF Enter, Exists, ReadOwner, CloseRead, Refuse, Recover,
                        Close, Release, Goto, LockTypeOK
    <3> QED
      BY <2>3, <3>1, <3>2, <3>3 DEF Step
  <2>4. ASSUME NEW p \in Pid, Die(p) \/ Start(p)
        PROVE  \A u \in Thread : (Has(u))' => Has(u)
    BY <1>2, <2>4 DEF Die, Start, LockTypeOK
  <2>5. CASE UNCHANGED lockVars
    BY <2>5 DEF lockVars, Holder
  <2> QED
    BY <1>2, <2>1, <2>2, <2>3, <2>4, <2>5 DEF LockNext
<1> QED
  BY <1>1, <1>2, LockTypeCorrect, LockFileKept, PTL
     DEF LockSpec, IsMutex, Promise!Spec

\* The steps left of an attempt, in the loop of database_write_lock that runs twice
\* at most.
Trying == {"open", "inspect", "read", "decide", "steal", "stamp"}
Left == [step \in Trying |->
  CASE step = "open" -> 4 [] step = "inspect" -> 3 [] step = "read" -> 2
    [] step = "decide" -> 1 [] OTHER -> 0]
Remaining(t) == 5 * (1 - attempt[t]) + Left[pc[t]]

\* The with-body, an exception, or the end of the process.
Over(t) == pc[t] \in {"write", "idle", "dead"}

\* No attempt goes round in circles: what a thread does next, after whatever others
\* have done to the file, brings it nearer to the end of the attempt, and what they
\* do leaves it where it is.
AttemptsBounded ==
  [][\A t \in Thread : pc[t] \in Trying =>
       \/ Over(t)'
       \/ pc'[t] = pc[t] /\ attempt'[t] = attempt[t] /\ ~Step(t)
       \/ pc'[t] \in Trying /\ Remaining(t)' < Remaining(t)]_lockVars

\* A file is taken away in the first round only.
StealsOnce == \A t \in Thread : pc[t] = "steal" => attempt[t] = 0

LEMMA OnlyOneSteal == LockSpec => []StealsOnce
<1>1. LockInit => StealsOnce
  BY DEF LockInit, StealsOnce
<1>2. ASSUME LockTypeOK, StealsOnce, [LockNext]_lockVars
      PROVE  StealsOnce'
  <2> USE <1>2 DEF LockTypeOK, StealsOnce, Goto
  <2>1. ASSUME NEW t \in Thread, Enter(t) \/ Step(t) \/ Close(t)
        PROVE  StealsOnce'
    BY <2>1 DEF Enter, Close, Step, Create, Exists, ReadOwner, CloseRead, Refuse, Recover,
       Steal, Stamp, Release
  <2>2. CASE \E p \in Pid : Die(p) \/ Start(p)
    BY <2>2 DEF Die, Start
  <2>3. CASE UNCHANGED lockVars
    BY <2>3 DEF lockVars
  <2> QED
    BY <2>1, <2>2, <2>3 DEF LockNext
<1> QED
  BY <1>1, <1>2, LockTypeCorrect, PTL DEF LockSpec

LEMMA RemainingTyped ==
  ASSUME LockTypeOK, NEW t \in Thread, pc[t] \in Trying
  PROVE  Remaining(t) \in 0..9
BY DEF LockTypeOK, Trying, Remaining, Left

LEMMA Nearer ==
  ASSUME LockTypeOK, StealsOnce, [LockNext]_lockVars, NEW t \in Thread, pc[t] \in Trying
  PROVE  /\ Remaining(t) \in 0..9
         /\ \/ Over(t)'
            \/ pc'[t] = pc[t] /\ attempt'[t] = attempt[t] /\ ~Step(t)
            \/ pc'[t] \in Trying /\ Remaining(t)' \in 0..9 /\ Remaining(t)' < Remaining(t)
<1> USE DEF LockTypeOK, Trying, Goto
<1>0. Remaining(t) \in 0..9
  BY RemainingTyped
<1>1. CASE Step(t)
  <2>1. CASE Create(t)
    BY <2>1 DEF Create, Remaining, Left
  <2>2. CASE Exists(t)
    BY <2>2 DEF Exists, Remaining, Left
  <2>3. CASE ReadOwner(t)
    BY <2>3 DEF ReadOwner, Remaining, Left
  <2>4. CASE CloseRead(t)
    BY <2>4 DEF CloseRead, Remaining, Left
  <2>5. CASE Recover(t)
    BY <2>5 DEF Recover, Remaining, Left
  <2>6. CASE Steal(t)
    BY <2>6 DEF Steal, StealsOnce, Over, Remaining, Left
  <2>7. CASE Refuse(t) \/ Stamp(t) \/ Release(t)
    BY <1>0, <2>7 DEF Refuse, Stamp, Release, Over
  <2> QED
    BY <1>0, <1>1, <2>1, <2>2, <2>3, <2>4, <2>5, <2>6, <2>7 DEF Step
<1>2. ASSUME ~Step(t), NEW u \in Thread, Enter(u) \/ Step(u) \/ Close(u)
      PROVE  pc'[t] = pc[t] /\ attempt'[t] = attempt[t]
  <2>1. CASE u = t
    BY <1>2, <2>1 DEF Enter, Close
  <2>2. CASE u # t
    BY <1>2, <2>2 DEF Enter, Close, Step, Create, Exists, ReadOwner, CloseRead, Refuse,
       Recover, Steal, Stamp, Release
  <2> QED
    BY <2>1, <2>2
<1>3. CASE \E p \in Pid : Die(p) \/ Start(p)
  BY <1>0, <1>1, <1>3 DEF Die, Start, Over
<1>4. CASE UNCHANGED lockVars
  BY <1>0, <1>1, <1>4 DEF lockVars
<1> QED
  BY <1>0, <1>1, <1>2, <1>3, <1>4 DEF LockNext

\* On both platforms and for any threads and processes: however often files come and
\* go under it, an attempt takes nine steps at most.
THEOREM AttemptIsBounded == LockSpec => AttemptsBounded
<1>1. ASSUME LockTypeOK, StealsOnce, [LockNext]_lockVars
      PROVE  [\A t \in Thread : pc[t] \in Trying =>
                \/ Over(t)'
                \/ pc'[t] = pc[t] /\ attempt'[t] = attempt[t] /\ ~Step(t)
                \/ pc'[t] \in Trying /\ Remaining(t)' < Remaining(t)]_lockVars
  BY <1>1, Nearer
<1> QED
  BY <1>1, OnlyOneSteal, LockTypeCorrect, PTL DEF LockSpec, AttemptsBounded

\* Weak fairness of the steps of every attempt is [] of this, since a step is possible
\* wherever an attempt may be.
Scheduled(t) == [](pc[t] \in Trying) => <><<Step(t)>>_lockVars
AllScheduled == \A t \in Thread : Scheduled(t)

\* Contenders never wait on one another for ever: every attempt of a thread that is
\* scheduled ends in the with-body, in an exception, or with the process.
THEOREM AttemptsComeToAnEnd ==
  LockSpec /\ []AllScheduled => AttemptsEnd
<1>1. ASSUME NEW t \in Thread
      PROVE  LockSpec /\ []AllScheduled => (pc[t] = "open" ~> Over(t))
  <2> DEFINE At(k) == pc[t] \in Trying /\ Remaining(t) = k
             Under(k) == pc[t] \in Trying /\ Remaining(t) \in 0..k
             Inv == LockTypeOK /\ StealsOnce
             Splits(k, j) == (Under(k) => At(k) \/ Under(j)) /\ (At(k) => pc[t] \in Trying)
             Sinks(k, j) == At(k) => (At(k)' /\ ~Step(t)) \/ Under(j)' \/ Over(t)'
  <2>1. ASSUME Inv, [LockNext]_lockVars
        PROVE  /\ At(0) => (At(0)' /\ ~Step(t)) \/ Over(t)'
               /\ Sinks(1, 0) /\ Sinks(2, 1) /\ Sinks(3, 2) /\ Sinks(4, 3) /\ Sinks(5, 4)
               /\ Sinks(6, 5) /\ Sinks(7, 6) /\ Sinks(8, 7) /\ Sinks(9, 8)
    <3>1. ASSUME NEW k \in 0..9, At(k)
          PROVE  \/ At(k)' /\ ~Step(t)
                 \/ Over(t)'
                 \/ pc'[t] \in Trying /\ Remaining(t)' \in 0..9 /\ Remaining(t)' < k
      BY <2>1, <3>1, Nearer DEF Remaining
    <3> QED
      BY <3>1
  <2>2. /\ (Under(0) => At(0)) /\ (At(0) => pc[t] \in Trying)
        /\ Splits(1, 0) /\ Splits(2, 1) /\ Splits(3, 2) /\ Splits(4, 3) /\ Splits(5, 4)
        /\ Splits(6, 5) /\ Splits(7, 6) /\ Splits(8, 7) /\ Splits(9, 8)
    OBVIOUS
  <2>3. Inv /\ pc[t] \in Trying => Under(9)
    BY RemainingTyped
  <2>4. pc[t] = "open" => pc[t] \in Trying
    BY DEF Trying
  <2>5. Inv <=> LockTypeOK /\ StealsOnce
    OBVIOUS
  <2>6. AllScheduled => Scheduled(t)
    BY DEF AllScheduled
  <2> HIDE DEF At, Under, Inv
  <2> QED
    BY <2>1, <2>2, <2>3, <2>4, <2>5, <2>6, LockTypeCorrect, OnlyOneSteal, PTL
       DEF LockSpec, Scheduled
<1> QED
  BY <1>1 DEF AttemptsEnd, Over

\* A thread of a process that is gone does nothing.
Live == \A t \in Thread : pc[t] # "dead" => PidOf[t] \in running

LEMMA OnlyTheLiveAct == LockSpec => []Live
<1>1. LockInit => Live
  BY LockAssumption DEF LockInit, Live
<1>2. ASSUME LockTypeOK, Live, [LockNext]_lockVars
      PROVE  Live'
  <2> USE <1>2 DEF LockTypeOK, Live, Goto
  <2>1. ASSUME NEW t \in Thread, Enter(t) \/ Step(t) \/ Close(t)
        PROVE  Live'
    <3>1. running' = running /\ pc[t] # "dead" /\ \A u \in Thread \ {t} : pc'[u] = pc[u]
      BY <2>1 DEF Enter, Close, Step, Create, Exists, ReadOwner, CloseRead, Refuse, Recover,
         Steal, Stamp, Release
    <3> QED
      BY <3>1
  <2>2. ASSUME NEW p \in Pid, Die(p) \/ Start(p)
        PROVE  Live'
    BY <2>2 DEF Die, Start
  <2>3. CASE UNCHANGED lockVars
    BY <2>3 DEF lockVars
  <2> QED
    BY <2>1, <2>2, <2>3 DEF LockNext
<1> QED
  BY <1>1, <1>2, LockTypeCorrect, PTL DEF LockSpec

\* What a thread has seen of a stale file, from its first look at it to the removal.
Clearing(t) ==
  /\ Stale /\ attempt[t] = 0 /\ pc[t] \in Trying \ {"stamp"}
  /\ pc[t] \in {"read", "decide"} => seen[t] = file.owner

Cleared(t) ==
  \/ ~Stale
  \/ pc[t] = "dead"
  \/ pc[t] = "steal" /\ ~Removable

\* While a file is stale nobody changes it but to remove it.
LEMMA StaleFileStays ==
  ASSUME LockTypeOK, [LockNext]_lockVars, Stale, Stale'
  PROVE  file' = file
<1> USE DEF LockTypeOK, Goto
<1>1. file'.maker # None /\ NoFile.maker = None
  BY DEF Stale, Present, NoFile
<1>2. ASSUME NEW u \in Thread, Step(u)
      PROVE  file' = file
  <2>1. CASE Create(u)
    BY <2>1 DEF Create, Stale
  <2>2. CASE Stamp(u)
    BY <2>2 DEF Stamp, Stale
  <2>3. CASE Steal(u)
    BY <1>1, <2>3 DEF Steal
  <2>4. CASE Release(u)
    BY <1>1, <2>4 DEF Release
  <2>5. CASE Exists(u) \/ ReadOwner(u) \/ CloseRead(u) \/ Refuse(u) \/ Recover(u)
    BY <2>5 DEF Exists, ReadOwner, CloseRead, Refuse, Recover
  <2> QED
    BY <1>2, <2>1, <2>2, <2>3, <2>4, <2>5 DEF Step
<1>3. ASSUME NEW u \in Thread, Enter(u) \/ Close(u)
      PROVE  file' = file
  BY <1>3 DEF Enter, Close
<1>4. ASSUME NEW p \in Pid, Die(p) \/ Start(p)
      PROVE  file' = file
  BY <1>4 DEF Die, Start
<1>5. UNCHANGED lockVars => file' = file
  BY DEF lockVars
<1> QED
  BY <1>2, <1>3, <1>4, <1>5 DEF LockNext

\* A thread that clears the way goes on to the removal of the file it has seen.
LEMMA ClearingGoesOn ==
  ASSUME LockTypeOK, Live, [LockNext]_lockVars, NEW t \in Thread, Clearing(t), ~Cleared(t)
  PROVE  \/ Cleared(t)'
         \/ Clearing(t)' /\ pc'[t] = pc[t] /\ ~Step(t)
         \/ Clearing(t)' /\ Left[pc'[t]] < Left[pc[t]]
<1> SUFFICES ASSUME Stale'
             PROVE  \/ Cleared(t)'
                    \/ Clearing(t)' /\ pc'[t] = pc[t] /\ ~Step(t)
                    \/ Clearing(t)' /\ Left[pc'[t]] < Left[pc[t]]
  BY DEF Cleared
<1> USE DEF LockTypeOK, Trying, Goto
<1>1. file' = file
  BY StaleFileStays DEF Clearing
<1>2. CASE Step(t)
  <2>1. ~Create(t) /\ ~Stamp(t) /\ ~Release(t)
    BY DEF Create, Stamp, Release, Clearing, Stale
  <2>2. ~Refuse(t)
    BY LockAssumption DEF Refuse, Clearing, Stale, LooksAlive
  <2>3. ~Steal(t)
    <3>1. NoFile.maker = None
      BY DEF NoFile
    <3>2. pc[t] = "steal" => Removable
      BY DEF Cleared
    <3> QED
      BY <1>1, <3>1, <3>2 DEF Steal, Clearing, Stale, Present
  <2>4. CASE Exists(t)
    BY <2>4 DEF Exists, Clearing, Left
  <2>5. CASE ReadOwner(t)
    BY <1>1, <2>5 DEF ReadOwner, Clearing, Left
  <2>6. CASE CloseRead(t)
    BY <1>1, <2>6 DEF CloseRead, Clearing, Left
  <2>7. CASE Recover(t)
    BY <2>7 DEF Recover, Clearing, Left
  <2> QED
    BY <1>2, <2>1, <2>2, <2>3, <2>4, <2>5, <2>6, <2>7 DEF Step
<1>3. ASSUME ~Step(t), pc'[t] = pc[t], attempt'[t] = attempt[t], seen'[t] = seen[t]
      PROVE  Clearing(t)' /\ pc'[t] = pc[t] /\ ~Step(t)
  BY <1>1, <1>3 DEF Clearing
<1>4. ASSUME ~Step(t), NEW u \in Thread, Enter(u) \/ Step(u) \/ Close(u)
      PROVE  pc'[t] = pc[t] /\ attempt'[t] = attempt[t] /\ seen'[t] = seen[t]
  <2>1. CASE u = t
    BY <1>4, <2>1 DEF Enter, Close, Clearing
  <2>2. CASE u # t
    BY <1>4, <2>2 DEF Enter, Close, Step, Create, Exists, ReadOwner, CloseRead, Refuse,
       Recover, Steal, Stamp, Release
  <2> QED
    BY <2>1, <2>2
<1>5. ASSUME ~Step(t), NEW p \in Pid, Die(p) \/ Start(p)
      PROVE  \/ pc'[t] = "dead"
             \/ pc'[t] = pc[t] /\ attempt'[t] = attempt[t] /\ seen'[t] = seen[t]
  BY <1>5 DEF Die, Start, Clearing, Live
<1>6. UNCHANGED lockVars => pc' = pc /\ attempt' = attempt /\ seen' = seen
  BY DEF lockVars
<1> QED
  BY <1>2, <1>3, <1>4, <1>5, <1>6 DEF LockNext, Cleared

\* A stale lock is recovered by whoever tries for it and is scheduled, on both platforms:
\* it is removed, or its owner's pid is given again, or the thread dies, or Windows
\* refuses.
THEOREM StaleLockIsCleared == LockSpec /\ []AllScheduled => StaleLockRecovered
<1>1. ASSUME NEW t \in Thread
      PROVE  LockSpec /\ []AllScheduled
               => ((Stale /\ pc[t] = "open" /\ attempt[t] = 0) ~> Cleared(t))
  <2> DEFINE At(k) == Clearing(t) /\ Left[pc[t]] = k
             Under(k) == Clearing(t) /\ Left[pc[t]] \in 0..k
             Inv == LockTypeOK /\ Live
             Splits(k, j) == (Under(k) => At(k) \/ Under(j)) /\ (At(k) => pc[t] \in Trying)
             Sinks(k, j) ==
               At(k) => Cleared(t) \/ (At(k)' /\ ~Step(t)) \/ Under(j)' \/ Cleared(t)'
  <2>1. ASSUME Inv, [LockNext]_lockVars
        PROVE  /\ At(0) => Cleared(t) \/ (At(0)' /\ ~Step(t)) \/ Cleared(t)'
               /\ Sinks(1, 0) /\ Sinks(2, 1) /\ Sinks(3, 2) /\ Sinks(4, 3)
    <3>1. ASSUME NEW k \in 0..4, At(k), ~Cleared(t)
          PROVE  \/ At(k)' /\ ~Step(t)
                 \/ Cleared(t)'
                 \/ Clearing(t)' /\ Left[pc'[t]] \in 0..4 /\ Left[pc'[t]] < k
      <4>1. Clearing(t)' => Left[pc'[t]] \in 0..4
        BY DEF Clearing, Left, Trying
      <4> QED
        BY <2>1, <3>1, <4>1, ClearingGoesOn
    <3> QED
      BY <3>1
  <2>2. /\ (Under(0) => At(0)) /\ (At(0) => pc[t] \in Trying)
        /\ Splits(1, 0) /\ Splits(2, 1) /\ Splits(3, 2) /\ Splits(4, 3)
    BY DEF Clearing
  <2>3. Stale /\ pc[t] = "open" /\ attempt[t] = 0 => Under(4)
    BY DEF Clearing, Left, Trying
  <2>4. Inv <=> LockTypeOK /\ Live
    OBVIOUS
  <2>5. AllScheduled => Scheduled(t)
    BY DEF AllScheduled
  <2> HIDE DEF At, Under, Inv
  <2> QED
    BY <2>1, <2>2, <2>3, <2>4, <2>5, LockTypeCorrect, OnlyTheLiveAct, PTL
       DEF LockSpec, Scheduled
<1> QED
  BY <1>1 DEF StaleLockRecovered, Cleared

-------------------------------------------------------------------------------

\* The plan's divisions round up: the quotient covers the dividend, and no smaller
\* number does.
LEMMA CeilDivLeast ==
  ASSUME NEW a \in Nat, NEW b \in Nat \ {0}
  PROVE  /\ CeilDiv(a, b) \in Nat
         /\ a <= CeilDiv(a, b) * b
         /\ \A k \in Nat : a <= k * b => CeilDiv(a, b) <= k
<1> DEFINE q == (a + b - 1) \div b
           r == (a + b - 1) % b
<1>1. q \in Int /\ r \in 0..(b - 1) /\ a + b - 1 = b * q + r
  OBVIOUS
<1> HIDE DEF q, r
<1>2. q >= 0
  <2>1. ASSUME q < 0 PROVE b * q <= -b
    BY <1>1, <2>1
  <2> QED
    BY <1>1, <2>1
<1>3. a <= q * b
  BY <1>1
<1>4. ASSUME NEW k \in Nat, a <= k * b PROVE q <= k
  <2>1. ASSUME q >= k + 1 PROVE b * q >= k * b + b
    BY <1>1, <2>1
  <2> QED
    BY <1>1, <1>4, <2>1
<1> QED
  BY <1>1, <1>2, <1>3, <1>4 DEF CeilDiv, q

\* A greater dividend needs no fewer.
LEMMA CeilDivGrows ==
  ASSUME NEW a \in Nat, NEW c \in Nat, NEW b \in Nat \ {0}, a <= c
  PROVE  CeilDiv(a, b) <= CeilDiv(c, b)
BY CeilDivLeast

\* The arithmetic of the planning step: a batch is within the workflow's bounds
\* and keeps slots for the refreshes, and the hours announced are enough for them to
\* take every board; they are the revisit objective's while the cap leaves the batch
\* that objective requires.
LEMMA PlanFacts ==
  ASSUME NEW n \in Nat
  PROVE  LET R == Recurring(PlannedBatch(n))
         IN  /\ PlannedBatch(n) \in MinBatch..MaxBatch
             /\ R \in Nat \ {0}
             /\ WorstCase(n) \in Nat /\ WorstCase(n) >= Interval
             /\ n <= (WorstCase(n) - Interval) * R
             /\ Required(n) <= MaxBatch => WorstCase(n) <= MaxRevisit
<1> USE ScheduleAssumption, SelectionAssumption
<1> DEFINE D == MaxRevisit - Interval
           s == CeilDiv(n, D)
           b == PlannedBatch(n)
           R == Recurring(b)
<1>1. D \in Nat \ {0} /\ s \in Nat /\ n <= s * D
  BY CeilDivLeast
<1> HIDE DEF D, s
<1>2. Shared(s) \in Nat /\ 100 * s <= Shared(s) * StaleShare
  <2>1. 100 * s \in Nat /\ StaleShare \in Nat \ {0}
    BY <1>1
  <2> QED
    BY <2>1, CeilDivLeast DEF Shared
<1>3. Required(n) = Greatest(MinBatch, Shared(s))
  BY DEF Required, s, D
<1>4. b \in MinBatch..MaxBatch /\ b \in Nat \ {0}
  BY <1>2, <1>3 DEF PlannedBatch, Least, Greatest
<1>5. R \in Nat /\ b * StaleShare <= R * 100
  <2>1. b * StaleShare \in Nat
    BY <1>4
  <2> QED
    BY <2>1, CeilDivLeast DEF Recurring
<1>6. R # 0
  BY <1>4, <1>5
<1>7. CeilDiv(n, R) \in Nat /\ n <= CeilDiv(n, R) * R
  BY <1>5, <1>6, CeilDivLeast
<1>8. WorstCase(n) = Interval + CeilDiv(n, R)
  BY DEF WorstCase
<1>9. ASSUME Required(n) <= MaxBatch
      PROVE  CeilDiv(n, R) <= D
  <2>1. b >= Shared(s)
    BY <1>2, <1>3, <1>9 DEF PlannedBatch, Least, Greatest
  <2>2. b * StaleShare >= Shared(s) * StaleShare
    BY <1>2, <1>4, <2>1
  <2>3. s <= R
    BY <1>1, <1>2, <1>4, <1>5, <2>2
  <2>4. n <= D * R
    <3>1. s * D <= D * R
      BY <1>1, <1>5, <2>3
    <3> QED
      BY <1>1, <1>5, <3>1
  <2> QED
    BY <1>1, <1>5, <1>6, <2>4, CeilDivLeast
<1> QED
  BY <1>4, <1>5, <1>6, <1>7, <1>8, <1>9 DEF D

\* More boards never shrink the batch or the slots of the refreshes.
LEMMA PlanGrows ==
  ASSUME NEW n \in Nat, NEW m \in Nat, n <= m
  PROVE  /\ PlannedBatch(n) <= PlannedBatch(m)
         /\ Recurring(PlannedBatch(n)) <= Recurring(PlannedBatch(m))
<1> USE ScheduleAssumption, SelectionAssumption
<1> DEFINE D == MaxRevisit - Interval
<1>1. D \in Nat \ {0}
  OBVIOUS
<1>2. CeilDiv(n, D) \in Nat /\ CeilDiv(m, D) \in Nat /\ CeilDiv(n, D) <= CeilDiv(m, D)
  BY <1>1, CeilDivLeast, CeilDivGrows
<1>3. 100 * CeilDiv(n, D) \in Nat /\ 100 * CeilDiv(m, D) \in Nat
      /\ 100 * CeilDiv(n, D) <= 100 * CeilDiv(m, D) /\ StaleShare \in Nat \ {0}
  BY <1>2
<1>4. Shared(CeilDiv(n, D)) <= Shared(CeilDiv(m, D))
      /\ Shared(CeilDiv(n, D)) \in Nat /\ Shared(CeilDiv(m, D)) \in Nat
  BY <1>3, CeilDivGrows, CeilDivLeast DEF Shared
<1>5. PlannedBatch(n) <= PlannedBatch(m)
  BY <1>4 DEF PlannedBatch, Required, Least, Greatest
<1>6. PlannedBatch(n) * StaleShare \in Nat /\ PlannedBatch(m) * StaleShare \in Nat
      /\ PlannedBatch(n) * StaleShare <= PlannedBatch(m) * StaleShare
  <2>1. PlannedBatch(n) \in Nat /\ PlannedBatch(m) \in Nat
    BY PlanFacts
  <2> QED
    BY <1>5, <2>1
<1> QED
  BY <1>5, <1>6, CeilDivGrows DEF Recurring

\* The boards of S that due_for_ingestion sorts before b.
Before(S, key, b) == {a \in S : Precedes(a, b, key)}

\* due_for_ingestion sorts: by the key, and by the board's identity where keys tie.
LEMMA Sorts ==
  ASSUME NEW key \in [Board -> Nat]
  PROVE  /\ \A a, b \in Board : a = b \/ Precedes(a, b, key) \/ Precedes(b, a, key)
         /\ \A a, b, c \in Board :
              Precedes(a, b, key) /\ Precedes(b, c, key) => Precedes(a, c, key)
         /\ \A a \in Board : ~Precedes(a, a, key)
<1>1. \A a \in Board : Rank[a] \in Nat /\ key[a] \in Nat
  BY SelectionAssumption
<1> QED
  BY <1>1, SelectionAssumption DEF Precedes

\* The places of a sorted set: how many come before a board numbers the boards from
\* 0 to n - 1 in the order of the sort.
LEMMA Ranking ==
  ASSUME NEW S \in SUBSET Board, NEW key \in [Board -> Nat]
  PROVE  /\ IsFiniteSet(S) /\ Cardinality(S) \in Nat
         /\ [b \in S |-> Cardinality(Before(S, key, b))] \in Bijection(S, 0..(Cardinality(S) - 1))
         /\ \A b \in S : Cardinality(Before(S, key, b)) \in Nat
         /\ \A a, b \in S : Precedes(a, b, key) =>
              Cardinality(Before(S, key, a)) < Cardinality(Before(S, key, b))
<1> DEFINE r == [b \in S |-> Cardinality(Before(S, key, b))]
           n == Cardinality(S)
<1>1. IsFiniteSet(S) /\ n \in Nat
  BY ScheduleAssumption, FS_Subset, FS_CardinalityType
<1>2. ASSUME NEW b \in S
      PROVE  /\ IsFiniteSet(Before(S, key, b)) /\ r[b] \in Nat /\ r[b] <= n - 1
  <2>1. Before(S, key, b) \in SUBSET (S \ {b})
    BY Sorts DEF Before
  <2>2. IsFiniteSet(S \ {b}) /\ Cardinality(S \ {b}) = n - 1
    BY <1>1, FS_RemoveElement
  <2> QED
    BY <2>1, <2>2, FS_Subset, FS_CardinalityType
<1>3. ASSUME NEW a \in S, NEW b \in S, Precedes(a, b, key)
      PROVE  r[a] < r[b]
  <2>1. a \notin Before(S, key, a) /\ Before(S, key, a) \cup {a} \in SUBSET Before(S, key, b)
    BY <1>3, Sorts DEF Before
  <2>2. Cardinality(Before(S, key, a) \cup {a}) = r[a] + 1
    BY <1>2, <2>1, FS_AddElement
  <2> QED
    BY <1>2, <2>1, <2>2, FS_Subset
<1>4. r \in [S -> 0..(n - 1)]
  <2>1. \A b \in S : r[b] \in 0..(n - 1)
    BY <1>1, <1>2
  <2> QED
    BY <2>1
<1>5. \A a, b \in S : r[a] = r[b] => a = b
  <2>1. \A a, b \in S : r[a] \in Nat /\ r[b] \in Nat
    BY <1>2
  <2> QED
    BY <1>3, <2>1, Sorts
<1> HIDE DEF r
<1>6. r \in Injection(S, 0..(n - 1))
  BY <1>4, <1>5 DEF Injection, IsInjective
<1>7. r \in Surjection(S, 0..(n - 1))
  <2>1. IsFiniteSet(0..(n - 1)) /\ Cardinality(0..(n - 1)) = n
    BY <1>1, FS_Interval
  <2> QED
    BY <1>6, <2>1, FS_Injection
<1>8. r \in Bijection(S, 0..(n - 1))
  BY <1>6, <1>7 DEF Bijection
<1> QED
  BY <1>1, <1>2, <1>3, <1>8 DEF r

\* What LIMIT n of a sorted query takes: n rows or all there are, none of which
\* sorts after a row that is left.
LEMMA FirstTaken ==
  ASSUME NEW S \in SUBSET Board, NEW key \in [Board -> Nat], NEW n \in Nat
  PROVE  LET T == First(S, key, n)
         IN  /\ T \subseteq S /\ IsFiniteSet(T)
             /\ Cardinality(T) = Least(n, Cardinality(S))
             /\ \A a \in T, b \in S \ T : Precedes(a, b, key)
<1> DEFINE T == First(S, key, n)
           m == Cardinality(S)
           r == [b \in S |-> Cardinality(Before(S, key, b))]
           k == Least(n, m)
<1>1. m \in Nat /\ r \in Bijection(S, 0..(m - 1)) /\ IsFiniteSet(S)
      /\ \A a, b \in S : Precedes(a, b, key) => r[a] < r[b]
  BY Ranking
<1>2. T = {b \in S : r[b] < n}
  BY DEF First, Before
<1> HIDE DEF r, T
<1>3. r \in [S -> 0..(m - 1)] /\ (\A a, b \in S : r[a] = r[b] => a = b)
      /\ \A i \in 0..(m - 1) : \E b \in S : r[b] = i
  BY <1>1 DEF Bijection, Injection, Surjection, IsInjective
<1>4. k \in Nat /\ k <= n /\ k <= m
  BY <1>1 DEF Least
<1>5. T \subseteq S /\ IsFiniteSet(T)
  BY <1>1, <1>2, FS_Subset
<1>6. Cardinality(T) = k
  <2> DEFINE f == [b \in T |-> r[b]]
  <2>1. \A b \in T : r[b] \in 0..(k - 1)
    BY <1>1, <1>2, <1>3 DEF Least
  <2>2. f \in [T -> 0..(k - 1)]
    BY <2>1
  <2>3. \A a, b \in T : f[a] = f[b] => a = b
    BY <1>3, <1>5
  <2>4. \A i \in 0..(k - 1) : \E b \in T : f[b] = i
    <3> SUFFICES ASSUME NEW i \in 0..(k - 1) PROVE \E b \in T : f[b] = i
      OBVIOUS
    <3>1. PICK b \in S : r[b] = i
      BY <1>1, <1>3, <1>4
    <3>2. b \in T
      BY <1>2, <1>4, <3>1
    <3> QED
      BY <3>1, <3>2
  <2> HIDE DEF f
  <2>5. f \in Bijection(T, 0..(k - 1))
    BY <2>2, <2>3, <2>4 DEF Bijection, Injection, Surjection, IsInjective
  <2>6. Cardinality(0..(k - 1)) = Cardinality(T)
    BY <1>5, <2>5, FS_Bijection DEF ExistsBijection
  <2> QED
    BY <1>4, <2>6, FS_Interval
<1>7. \A a \in T, b \in S \ T : Precedes(a, b, key)
  <2> SUFFICES ASSUME NEW a \in T, NEW b \in S \ T PROVE Precedes(a, b, key)
    OBVIOUS
  <2>1. r[a] < n /\ ~(r[b] < n) /\ a \in S /\ r[a] \in Nat /\ r[b] \in Nat
    BY <1>1, <1>2, <1>3
  <2>2. a # b /\ ~(r[b] < r[a])
    BY <2>1
  <2> QED
    BY <1>1, <2>1, <2>2, Sorts
<1> QED
  BY <1>5, <1>6, <1>7 DEF T

\* due_for_ingestion, for any boards that are due and any times: the batch is within
\* the limit; a refresh it leaves out has the recurring share of the batch ahead of
\* it, and a new board it leaves out an older one that was taken, so neither
\* partition can crowd the other out.
THEOREM BatchTakes ==
  ASSUME NEW stale \in SUBSET Board, NEW never \in SUBSET Board,
         NEW ingestedAt \in [Board -> Nat], NEW discoveredAt \in [Board -> Nat],
         NEW limit \in MinBatch..MaxBatch
  PROVE  LET batch == Batch(stale, never, ingestedAt, discoveredAt, limit)
         IN  /\ batch \subseteq stale \cup never
             /\ IsFiniteSet(batch) /\ Cardinality(batch) <= limit
             /\ \A b \in stale \ batch : \E T \in SUBSET (batch \cap stale) :
                  /\ Cardinality(T) = Recurring(limit)
                  /\ \A a \in T : Precedes(a, b, ingestedAt)
             /\ \A b \in never \ batch :
                  \E a \in batch \cap never : Precedes(a, b, discoveredAt)
<1> DEFINE S == Cardinality(stale)
           N == Cardinality(never)
           R == Recurring(limit)
           batch == Batch(stale, never, ingestedAt, discoveredAt, limit)
           staleSlots == StaleSlots(stale, limit)
           neverSlots == NeverSlots(stale, never, limit)
           staleTaken == Least(S, staleSlots + Greatest(0, limit - staleSlots - neverSlots))
           neverTaken == neverSlots + Greatest(0, limit - staleTaken - neverSlots)
           Old(n) == First(stale, ingestedAt, n)
           New(n) == First(never, discoveredAt, n)
           Goal ==
             /\ batch \subseteq stale \cup never
             /\ IsFiniteSet(batch) /\ Cardinality(batch) <= limit
             /\ \A b \in stale \ batch : \E T \in SUBSET (batch \cap stale) :
                  /\ Cardinality(T) = R
                  /\ \A a \in T : Precedes(a, b, ingestedAt)
             /\ \A b \in never \ batch :
                  \E a \in batch \cap never : Precedes(a, b, discoveredAt)
<1>1. S \in Nat /\ N \in Nat /\ IsFiniteSet(stale) /\ IsFiniteSet(never)
  BY Ranking
<1>2. limit \in Nat \ {0} /\ R \in Nat /\ R # 0 /\ R < limit
      /\ Greatest(1, (limit * StaleShare + 99) \div 100) = R
  <2>1. limit \in Nat \ {0} /\ limit * StaleShare \in Nat
    BY ScheduleAssumption, SelectionAssumption
  <2>2. R \in Nat /\ limit * StaleShare <= R * 100 /\ R = (limit * StaleShare + 99) \div 100
    <3>1. R = (limit * StaleShare + 99) \div 100
      BY <2>1 DEF Recurring, CeilDiv
    <3> QED
      BY <2>1, <3>1, CeilDivLeast DEF Recurring
  <2>3. limit * StaleShare >= 1
    BY <2>1, SelectionAssumption
  <2>4. R # 0
    BY <2>1, <2>2, <2>3
  <2> QED
    BY <2>1, <2>2, <2>4, PlanAssumption DEF Greatest
<1> HIDE DEF R, S, N
<1>3. staleSlots = Least(S, R) /\ neverSlots = Least(N, Greatest(1, limit - Least(S, R)))
  BY <1>2 DEF StaleSlots, NeverSlots, S, N
<1>4. ASSUME S + N <= limit
      PROVE  Goal
  <2>1. batch = stale \cup never
    BY <1>4 DEF Batch, S, N
  <2>2. IsFiniteSet(batch) /\ Cardinality(batch) <= S + N
    <3>1. Cardinality(stale \cup never) = S + N - Cardinality(stale \cap never)
          /\ IsFiniteSet(stale \cup never)
      BY <1>1, FS_Union DEF S, N
    <3>2. Cardinality(stale \cap never) \in Nat
      BY <1>1, FS_Intersection, FS_CardinalityType
    <3> QED
      BY <1>1, <2>1, <3>1, <3>2
  <2> QED
    BY <1>1, <1>2, <1>4, <2>1, <2>2, FS_CardinalityType
<1>5. ASSUME NEW s \in Nat, NEW v \in Nat, s + v <= limit, batch = Old(s) \cup New(v),
             s >= R \/ s >= S, v >= 1 \/ never = {}
      PROVE  Goal
  <2>1. /\ Old(s) \subseteq stale /\ IsFiniteSet(Old(s)) /\ Cardinality(Old(s)) = Least(s, S)
        /\ \A a \in Old(s), b \in stale \ Old(s) : Precedes(a, b, ingestedAt)
    BY FirstTaken DEF S
  <2>2. /\ New(v) \subseteq never /\ IsFiniteSet(New(v)) /\ Cardinality(New(v)) = Least(v, N)
        /\ \A a \in New(v), b \in never \ New(v) : Precedes(a, b, discoveredAt)
    BY FirstTaken DEF N
  <2>3. IsFiniteSet(batch) /\ Cardinality(batch) <= limit
    <3>1. Cardinality(Old(s) \cup New(v))
            = Cardinality(Old(s)) + Cardinality(New(v)) - Cardinality(Old(s) \cap New(v))
          /\ IsFiniteSet(Old(s) \cup New(v))
      BY <2>1, <2>2, FS_Union
    <3>2. Cardinality(Old(s) \cap New(v)) \in Nat
      BY <2>1, FS_Intersection, FS_CardinalityType
    <3>3. Least(s, S) + Least(v, N) <= limit
          /\ Least(s, S) \in Nat /\ Least(v, N) \in Nat
      BY <1>1, <1>5 DEF Least
    <3> HIDE DEF Old, New, batch
    <3>4. Cardinality(batch) = Least(s, S) + Least(v, N) - Cardinality(Old(s) \cap New(v))
      BY <1>5, <2>1, <2>2, <3>1
    <3> QED
      BY <1>2, <1>5, <3>1, <3>2, <3>3, <3>4
  <2>4. ASSUME NEW b \in stale \ batch
        PROVE  \E T \in SUBSET (batch \cap stale) :
                 /\ Cardinality(T) = R
                 /\ \A a \in T : Precedes(a, b, ingestedAt)
    <3>1. b \in stale \ Old(s)
      BY <1>5, <2>4
    <3>2. s < S
      <4> SUFFICES ASSUME s >= S PROVE FALSE
        BY <1>1, <1>5
      <4>1. Cardinality(Old(s)) = Cardinality(stale)
        BY <1>1, <2>1 DEF Least, S
      <4>2. Old(s) = stale
        BY <1>1, <2>1, <4>1, FS_Subset
      <4> QED
        BY <3>1, <4>2
    <3>3. R <= s
      BY <1>1, <1>5, <3>2
    <3>4. /\ Old(R) \subseteq stale /\ Cardinality(Old(R)) = Least(R, S)
          /\ Old(R) \subseteq Old(s)
      <4>1. Old(R) \subseteq stale /\ Cardinality(Old(R)) = Least(R, S)
        BY <1>2, FirstTaken DEF S
      <4>2. \A a \in stale : Cardinality(Before(stale, ingestedAt, a)) \in Nat
        BY Ranking
      <4>3. Old(R) \subseteq Old(s)
        BY <1>2, <3>3, <4>2 DEF First, Before
      <4> QED
        BY <4>1, <4>3
    <3>5. Cardinality(Old(R)) = R
      BY <1>1, <1>2, <3>2, <3>3, <3>4 DEF Least
    <3>6. \A a \in Old(R) : Precedes(a, b, ingestedAt)
      BY <2>1, <3>1, <3>4
    <3>7. Old(R) \in SUBSET (batch \cap stale)
      BY <1>5, <3>4
    <3> QED
      BY <3>5, <3>6, <3>7
  <2>5. ASSUME NEW b \in never \ batch
        PROVE  \E a \in batch \cap never : Precedes(a, b, discoveredAt)
    <3>1. b \in never \ New(v) /\ v >= 1
      BY <1>5, <2>5
    <3>2. N # 0
      BY <1>1, <2>5, FS_EmptySet DEF N
    <3>3. Cardinality(New(v)) # 0
      BY <1>1, <1>5, <2>2, <3>1, <3>2 DEF Least
    <3>4. PICK a \in New(v) : TRUE
      BY <2>2, <3>3, FS_EmptySet
    <3> QED
      BY <1>5, <2>2, <3>1, <3>4
  <2> HIDE DEF batch, Old, New
  <2>6. batch \subseteq stale \cup never
    BY <1>5, <2>1, <2>2
  <2> QED
    BY <2>3, <2>4, <2>5, <2>6
<1>6. ASSUME S + N > limit
      PROVE  Goal
  <2>0. stale = {} <=> S = 0
    BY <1>1, FS_EmptySet DEF S
  <2>00. never = {} <=> N = 0
    BY <1>1, FS_EmptySet DEF N
  <2>1. CASE stale = {}
    <3>1. batch = First(never, discoveredAt, limit)
      BY <1>1, <1>6, <2>1 DEF Batch, S, N
    <3>2. Old(0) = {}
      BY <2>1 DEF First
    <3>3. batch = Old(0) \cup New(limit)
      BY <3>1, <3>2
    <3> HIDE DEF Goal, batch, Old, New
    <3> QED
      BY <1>1, <1>2, <1>5, <2>0, <2>1, <3>3
  <2>2. CASE stale # {} /\ never = {}
    <3>1. batch = First(stale, ingestedAt, limit)
      BY <1>1, <1>6, <2>2 DEF Batch, S, N
    <3>2. New(0) = {}
      BY <2>2 DEF First
    <3>3. batch = Old(limit) \cup New(0)
      BY <3>1, <3>2
    <3> HIDE DEF Goal, batch, Old, New
    <3> QED
      BY <1>1, <1>2, <1>5, <2>2, <3>3
  <2>3. CASE stale # {} /\ never # {}
    <3>1. batch = Old(staleTaken) \cup New(neverTaken)
      BY <1>1, <1>6, <2>3 DEF Batch, S, N
    <3>2. /\ staleTaken \in Nat /\ neverTaken \in Nat /\ staleTaken + neverTaken <= limit
          /\ staleTaken >= R \/ staleTaken >= S
          /\ neverTaken >= 1
      <4> HIDE DEF staleSlots, neverSlots
      <4> QED
        BY <1>1, <1>2, <1>3, <1>6, <2>0, <2>00, <2>3 DEF Least, Greatest
    <3> HIDE DEF batch, staleTaken, neverTaken
    <3> QED
      BY <1>5, <3>1, <3>2
  <2> QED
    BY <2>1, <2>2, <2>3
<1>7. Goal
  <2> HIDE DEF Goal
  <2> QED
    BY <1>1, <1>2, <1>4, <1>6
<1> QED
  BY <1>7 DEF R

-------------------------------------------------------------------------------
(* Places.                                                                 *)

\* Boards that leave a queue leave the others in their order, numbered from 1.
LEMMA WithoutKeepsOrder ==
  ASSUME NEW order, Order(order), NEW S \in SUBSET Board
  PROVE  LET w == Without(order, S)
             T == In(order) \ S
         IN  /\ w \in [Board -> Nat] /\ In(w) = T
             /\ IsFiniteSet(T) /\ Cardinality(T) \in Nat
             /\ \A b \in T : w[b] \in 1..Cardinality(T)
             /\ \A i \in 1..Cardinality(T) : \E b \in T : w[b] = i
             /\ \A a, b \in T : w[a] < w[b] <=> order[a] < order[b]
<1> DEFINE w == Without(order, S)
           T == In(order) \ S
           r == [b \in T |-> Cardinality(Before(T, order, b))]
<1>1. T \in SUBSET Board /\ order \in [Board -> Nat] /\ In(order) \in SUBSET Board
      /\ \A a, b \in In(order) : order[a] = order[b] => a = b
  BY DEF In, Order
<1> HIDE DEF T
<1>2. IsFiniteSet(T) /\ Cardinality(T) \in Nat
      /\ r \in Bijection(T, 0..(Cardinality(T) - 1))
      /\ (\A b \in T : r[b] \in Nat)
      /\ \A a, b \in T : Precedes(a, b, order) => r[a] < r[b]
  BY <1>1, Ranking
<1>3. ASSUME NEW b \in T
      PROVE  w[b] = r[b] + 1
  <2> DEFINE U == {a \in In(order) \ S : order[a] <= order[b]}
  <2>1. b \in Board /\ b \notin S /\ order[b] # 0 /\ b \in In(order)
    BY DEF T, In
  <2>2. w[b] = Cardinality(U)
    BY <2>1 DEF Without
  <2>3. U = Before(T, order, b) \cup {b} /\ b \notin Before(T, order, b)
    <3>1. \A a \in T : order[a] <= order[b] <=> Precedes(a, b, order) \/ a = b
      <4> SUFFICES ASSUME NEW a \in T
                   PROVE  order[a] <= order[b] <=> Precedes(a, b, order) \/ a = b
        OBVIOUS
      <4>1. a \in In(order) /\ a \in Board /\ order[a] \in Nat /\ order[b] \in Nat
        BY <1>1, <2>1 DEF T
      <4> QED
        BY <1>1, <2>1, <4>1 DEF Precedes
    <3>2. ~Precedes(b, b, order)
      BY <1>1, <2>1, Sorts
    <3> QED
      BY <3>1, <3>2 DEF Before, T
  <2>4. IsFiniteSet(Before(T, order, b))
    BY <1>1, <1>2, FS_Subset DEF Before
  <2> QED
    BY <2>2, <2>3, <2>4, FS_AddElement
<1> HIDE DEF r
<1>4. r \in [T -> 0..(Cardinality(T) - 1)]
      /\ \A i \in 0..(Cardinality(T) - 1) : \E b \in T : r[b] = i
  BY <1>2 DEF Bijection, Injection, Surjection
<1>5. \A b \in T : w[b] \in 1..Cardinality(T)
  BY <1>2, <1>3, <1>4
<1>6. \A i \in 1..Cardinality(T) : \E b \in T : w[b] = i
  <2> SUFFICES ASSUME NEW i \in 1..Cardinality(T) PROVE \E b \in T : w[b] = i
    OBVIOUS
  <2>1. i - 1 \in 0..(Cardinality(T) - 1)
    BY <1>2
  <2>2. PICK b \in T : r[b] = i - 1
    BY <1>4, <2>1
  <2> QED
    BY <1>3, <2>2
<1>7. \A b \in Board : b \notin T => w[b] = 0
  BY DEF Without, T, In
<1>8. w \in [Board -> Nat]
  <2>1. w = [b \in Board |-> w[b]]
    BY DEF Without
  <2>2. \A b \in Board : w[b] \in Nat
    BY <1>5, <1>7, <1>2
  <2> HIDE DEF w
  <2> QED
    BY <2>1, <2>2
<1>9. In(w) = T
  <2> HIDE DEF w
  <2> QED
    BY <1>1, <1>2, <1>5, <1>7 DEF In
<1>10. \A a, b \in T : w[a] < w[b] <=> order[a] < order[b]
  <2> SUFFICES ASSUME NEW a \in T, NEW b \in T
               PROVE  w[a] < w[b] <=> order[a] < order[b]
    OBVIOUS
  <2>1. a \in In(order) /\ b \in In(order) /\ order[a] \in Nat /\ order[b] \in Nat
    BY <1>1 DEF T
  <2>2. order[a] < order[b] => r[a] < r[b]
    BY <1>2 DEF Precedes
  <2>3. order[b] < order[a] => r[b] < r[a]
    BY <1>2 DEF Precedes
  <2> QED
    BY <1>1, <1>2, <1>3, <2>1, <2>2, <2>3
<1> QED
  BY <1>2, <1>5, <1>6, <1>8, <1>9, <1>10 DEF T

\* Places are an order as soon as they are in use once, from 1 to their number.
LEMMA Ordered ==
  ASSUME NEW order \in [Board -> Nat],
         \A b \in In(order) : order[b] \in 1..Cardinality(In(order)),
         \A i \in 1..Cardinality(In(order)) : \E b \in In(order) : order[b] = i
  PROVE  Order(order)
<1> DEFINE T == In(order)
           n == Cardinality(T)
           f == [b \in T |-> order[b]]
<1>1. IsFiniteSet(T) /\ n \in Nat
  BY ScheduleAssumption, FS_Subset, FS_CardinalityType DEF In
<1>2. f \in Surjection(T, 1..n)
  BY DEF Surjection
<1>3. IsFiniteSet(1..n) /\ Cardinality(1..n) = n
  BY <1>1, FS_Interval
<1>4. f \in Injection(T, 1..n)
  BY <1>1, <1>2, <1>3, FS_SurjSameCardinalityImpliesInj
<1>5. \A a, b \in T : f[a] = f[b] => a = b
  <2> HIDE DEF f
  <2> QED
    BY <1>4 DEF Injection, IsInjective
<1>6. \A a, b \in T : order[a] = order[b] => a = b
  BY <1>5
<1>7. {order[b] : b \in T} = 1..n
  OBVIOUS
<1> QED
  BY <1>6, <1>7 DEF Order

\* The places of a queue are the numbers from 1 to its length.
LEMMA OrderFacts ==
  ASSUME NEW order, Order(order)
  PROVE  /\ In(order) \in SUBSET Board /\ IsFiniteSet(In(order))
         /\ Cardinality(In(order)) \in Nat
         /\ \A b \in In(order) : order[b] \in 1..Cardinality(In(order))
         /\ \A i \in 1..Cardinality(In(order)) : \E b \in In(order) : order[b] = i
<1>1. In(order) \in SUBSET Board
  BY DEF In
<1>2. IsFiniteSet(In(order)) /\ Cardinality(In(order)) \in Nat
  BY <1>1, ScheduleAssumption, FS_Subset, FS_CardinalityType
<1> QED
  BY <1>1, <1>2 DEF Order

\* What is left of a queue is a queue.
LEMMA WithoutOrdered ==
  ASSUME NEW order, Order(order), NEW S \in SUBSET Board
  PROVE  Order(Without(order, S))
<1> DEFINE w == Without(order, S)
           T == In(order) \ S
           t == Cardinality(T)
<1>1. /\ w \in [Board -> Nat] /\ In(w) = T
      /\ IsFiniteSet(T) /\ t \in Nat
      /\ \A b \in T : w[b] \in 1..t
      /\ \A i \in 1..t : \E b \in T : w[b] = i
      /\ \A a, b \in T : w[a] < w[b] <=> order[a] < order[b]
  BY WithoutKeepsOrder
<1> HIDE DEF w, T, t
<1> QED
  BY <1>1, Ordered DEF w, t

\* Boards that are put behind a queue, in any order, make a queue in which those
\* before them keep their order.
LEMMA BehindOrdered ==
  ASSUME NEW order, Order(order), NEW S \in SUBSET Board,
         NEW done \in Bijection(S, 1..Cardinality(S))
  PROVE  LET w == Behind(order, S, done)
             T == In(order) \ S
         IN  /\ Order(w) /\ In(w) = T \cup S
             /\ \A a \in T, b \in S : w[a] < w[b]
             /\ \A a, b \in T : w[a] < w[b] <=> order[a] < order[b]
<1> DEFINE v == Without(order, S)
           w == Behind(order, S, done)
           T == In(order) \ S
           t == Cardinality(T)
           s == Cardinality(S)
<1>1. /\ v \in [Board -> Nat] /\ In(v) = T
      /\ IsFiniteSet(T) /\ t \in Nat
      /\ \A b \in T : v[b] \in 1..t
      /\ \A i \in 1..t : \E b \in T : v[b] = i
      /\ \A a, b \in T : v[a] < v[b] <=> order[a] < order[b]
  BY WithoutKeepsOrder
<1>2. IsFiniteSet(S) /\ s \in Nat
  BY ScheduleAssumption, FS_Subset, FS_CardinalityType
<1>3. done \in [S -> 1..s] /\ \A i \in 1..s : \E b \in S : done[b] = i
  BY DEF Bijection, Injection, Surjection
<1>4. /\ \A b \in S : w[b] = t + done[b]
      /\ \A b \in Board \ S : w[b] = v[b]
  BY DEF Behind
<1>0. w = [b \in Board |-> w[b]]
  BY DEF Behind
<1>5. T \subseteq Board /\ T \cap S = {}
  BY DEF In
<1> HIDE DEF v, w, T, t, s
<1>6. w \in [Board -> Nat]
  <2>1. \A b \in Board : w[b] \in Nat
    BY <1>1, <1>2, <1>3, <1>4
  <2> QED
    BY <1>0, <2>1
<1>7. In(w) = T \cup S
  <2>1. \A b \in Board \ S : w[b] # 0 <=> b \in T
    BY <1>1, <1>4 DEF In
  <2>2. \A b \in S : w[b] # 0
    BY <1>1, <1>2, <1>3, <1>4
  <2> QED
    BY <1>5, <2>1, <2>2 DEF In
<1>8. Cardinality(In(w)) = t + s
  <2>1. Cardinality(T \cup S) = t + s - Cardinality(T \cap S)
    BY <1>1, <1>2, FS_Union DEF t, s
  <2>2. Cardinality(T \cap S) = 0
    BY <1>5, FS_EmptySet
  <2> QED
    BY <1>1, <1>2, <1>7, <2>1, <2>2
<1>9. \A b \in In(w) : w[b] \in 1..(t + s)
  BY <1>1, <1>2, <1>3, <1>4, <1>5, <1>7
<1>10. \A i \in 1..(t + s) : \E b \in In(w) : w[b] = i
  <2> SUFFICES ASSUME NEW i \in 1..(t + s) PROVE \E b \in In(w) : w[b] = i
    OBVIOUS
  <2>1. CASE i <= t
    <3>1. PICK b \in T : v[b] = i
      BY <1>1, <1>2, <2>1
    <3> QED
      BY <1>4, <1>5, <1>7, <3>1
  <2>2. CASE i > t
    <3>1. i - t \in 1..s
      BY <1>1, <1>2, <2>2
    <3>2. PICK b \in S : done[b] = i - t
      BY <1>3, <3>1
    <3> QED
      BY <1>1, <1>4, <1>7, <3>2
  <2> QED
    BY <1>1, <1>2, <2>1, <2>2
<1>11. Order(w)
  BY <1>6, <1>8, <1>9, <1>10, Ordered
<1>12. \A a \in T, b \in S : w[a] < w[b]
  BY <1>1, <1>2, <1>3, <1>4, <1>5
<1>13. \A a, b \in T : w[a] < w[b] <=> order[a] < order[b]
  BY <1>1, <1>4, <1>5
<1> QED
  BY <1>7, <1>11, <1>12, <1>13 DEF w, T

\* A board inserted anywhere in a queue makes a queue in which nobody overtakes.
LEMMA InsertOrdered ==
  ASSUME NEW order, Order(order), NEW b \in Board \ In(order),
         NEW i \in 1..(Cardinality(In(order)) + 1)
  PROVE  LET w == [c \in Board |-> IF c = b THEN i
                                  ELSE IF order[c] >= i THEN order[c] + 1 ELSE order[c]]
         IN  /\ Order(w) /\ In(w) = In(order) \cup {b}
             /\ \A c, d \in In(order) : w[c] <= w[d] => order[c] <= order[d]
<1> DEFINE w == [c \in Board |-> IF c = b THEN i
                                 ELSE IF order[c] >= i THEN order[c] + 1 ELSE order[c]]
           n == Cardinality(In(order))
<1>1. /\ In(order) \in SUBSET Board /\ IsFiniteSet(In(order)) /\ n \in Nat
      /\ \A c \in In(order) : order[c] \in 1..n
      /\ \A j \in 1..n : \E c \in In(order) : order[c] = j
      /\ order \in [Board -> Nat]
      /\ \A c \in Board : c \in In(order) <=> order[c] # 0
  BY OrderFacts DEF Order, In
<1> HIDE DEF n
<1>2. w \in [Board -> Nat]
  BY <1>1
<1>3. In(w) = In(order) \cup {b}
  BY <1>1 DEF In
<1>4. Cardinality(In(w)) = n + 1
  BY <1>1, <1>3, FS_AddElement DEF n
<1>5. \A c \in In(w) : w[c] \in 1..(n + 1)
  BY <1>1, <1>3 DEF n
<1>6. ASSUME NEW j \in 1..(n + 1) PROVE \E c \in In(w) : w[c] = j
  <2>1. CASE j = i
    BY <1>3, <2>1
  <2>2. CASE j < i
    <3>1. j \in 1..n
      BY <1>1, <2>2 DEF n
    <3>2. PICK c \in In(order) : order[c] = j
      BY <1>1, <3>1
    <3> QED
      BY <1>1, <1>3, <2>2, <3>2
  <2>3. CASE j > i
    <3>1. j - 1 \in 1..n
      BY <1>1, <2>3
    <3>2. PICK c \in In(order) : order[c] = j - 1
      BY <1>1, <3>1
    <3> QED
      BY <1>1, <1>3, <2>3, <3>2
  <2> QED
    BY <1>1, <2>1, <2>2, <2>3
<1>7. \A c, d \in In(order) : w[c] <= w[d] => order[c] <= order[d]
  BY <1>1
<1> HIDE DEF w
<1>8. Order(w)
  BY <1>2, <1>4, <1>5, <1>6, Ordered
<1> QED
  BY <1>3, <1>7, <1>8 DEF w

-------------------------------------------------------------------------------
(* Types.                                                                  *)

\* The verified boards are finitely many.
LEMMA VerifiedFacts ==
  ASSUME TypeOK
  PROVE  /\ Verified \in SUBSET Board /\ IsFiniteSet(Verified)
         /\ Cardinality(Verified) \in 0..Cardinality(Board)
         /\ Cardinality(Board) \in Nat
<1>1. Verified \in SUBSET Board
  BY DEF Verified, In
<1> QED
  BY <1>1, ScheduleAssumption, FS_Subset, FS_CardinalityType

\* A run takes boards that are due, as many as are planned, the first of each queue.
LEMMA RunTakes ==
  ASSUME TypeOK, NEW batch,
         batch = Batch(DueRefreshes, DueBoards, line, found, PlannedBatch(Cardinality(Verified)))
  PROVE  LET n == Cardinality(Verified)
         IN  /\ batch \subseteq DueRefreshes \cup DueBoards
             /\ batch \subseteq Verified /\ batch \subseteq Board
             /\ IsFiniteSet(batch) /\ Cardinality(batch) <= PlannedBatch(n)
             /\ \A b \in DueRefreshes \ batch : \E T \in SUBSET (batch \cap DueRefreshes) :
                  /\ Cardinality(T) = Recurring(PlannedBatch(n))
                  /\ \A a \in T : Precedes(a, b, line)
             /\ \A b \in DueBoards \ batch :
                  \E a \in batch \cap DueBoards : Precedes(a, b, found)
<1>1. PlannedBatch(Cardinality(Verified)) \in MinBatch..MaxBatch
  BY VerifiedFacts, PlanFacts
<1>2. DueRefreshes \in SUBSET Board /\ DueBoards \in SUBSET Board
      /\ DueRefreshes \cup DueBoards \subseteq Verified
  BY DEF DueRefreshes, DueBoards, In, Verified
<1>3. line \in [Board -> Nat] /\ found \in [Board -> Nat]
  BY DEF TypeOK, Order
<1> QED
  BY <1>1, <1>2, <1>3, BatchTakes, Zenon

\* A verification puts its board, new to both queues, into that of new boards.
LEMMA VerifyChanges ==
  ASSUME TypeOK, NEW b \in Board, Verify(b)
  PROVE  /\ Order(found') /\ In(found') = In(found) \cup {b} /\ b \notin Verified
         /\ \A c, d \in In(found) : found'[c] <= found'[d] => found[c] <= found[d]
         /\ Verified' = Verified \cup {b}
<1>1. b \in Board \ In(found) /\ b \notin Verified /\ Order(found)
  BY DEF Verify, Verified, TypeOK
<1>2. PICK i \in 1..(Cardinality(In(found)) + 1) :
        found' = [c \in Board |-> IF c = b THEN i
                                  ELSE IF found[c] >= i THEN found[c] + 1 ELSE found[c]]
  BY DEF Verify
<1>3. /\ Order(found') /\ In(found') = In(found) \cup {b}
      /\ \A c, d \in In(found) : found'[c] <= found'[d] => found[c] <= found[d]
  <2> DEFINE w == [c \in Board |-> IF c = b THEN i
                                   ELSE IF found[c] >= i THEN found[c] + 1 ELSE found[c]]
  <2>1. /\ Order(w) /\ In(w) = In(found) \cup {b}
        /\ \A c, d \in In(found) : w[c] <= w[d] => found[c] <= found[d]
    BY <1>1, <1>2, InsertOrdered
  <2>2. found' = w
    BY <1>2
  <2> HIDE DEF w
  <2> QED
    BY <2>1, <2>2
<1>4. Verified' = In(line) \cup In(found')
  BY DEF Verify, Verified, In
<1> QED
  BY <1>1, <1>3, <1>4 DEF Verified

\* A run moves the boards that answered behind the refreshes, in any order, and
\* leaves the others in theirs.
LEMMA RunChanges ==
  ASSUME TypeOK, NEW batch,
         batch = Batch(DueRefreshes, DueBoards, line, found, PlannedBatch(Cardinality(Verified))),
         NEW done \in Bijection(batch \ broken, 1..Cardinality(batch \ broken)),
         line' = Behind(line, batch \ broken, done),
         found' = Without(found, batch \ broken)
  PROVE  LET I == batch \ broken
         IN  /\ Order(line') /\ In(line') = In(line) \cup I
             /\ \A a \in In(line) \ I, b \in I : line'[a] < line'[b]
             /\ \A a, b \in In(line) \ I : line'[a] < line'[b] <=> line[a] < line[b]
             /\ Order(found') /\ In(found') = In(found) \ I
             /\ \A a, b \in In(found) \ I : found'[a] < found'[b] <=> found[a] < found[b]
             /\ Verified' = Verified
<1> DEFINE I == batch \ broken
<1>1. I \in SUBSET Board /\ I \subseteq Verified
  BY RunTakes
<1>2. Order(line) /\ Order(found)
  BY DEF TypeOK
<1> HIDE DEF I
<1>3. /\ Order(line') /\ In(line') = (In(line) \ I) \cup I
      /\ \A a \in In(line) \ I, b \in I : line'[a] < line'[b]
      /\ \A a, b \in In(line) \ I : line'[a] < line'[b] <=> line[a] < line[b]
  <2> DEFINE w == Behind(line, I, done)
             T == In(line) \ I
  <2>1. /\ Order(w) /\ In(w) = T \cup I
        /\ \A a \in T, b \in I : w[a] < w[b]
        /\ \A a, b \in T : w[a] < w[b] <=> line[a] < line[b]
    BY <1>1, <1>2, BehindOrdered DEF I
  <2>2. line' = w
    BY DEF I
  <2> HIDE DEF w
  <2> QED
    BY <2>1, <2>2
<1>4. Order(found')
  BY <1>1, <1>2, WithoutOrdered DEF I
<1>5. /\ In(found') = In(found) \ I
      /\ \A a, b \in In(found) \ I : found'[a] < found'[b] <=> found[a] < found[b]
  <2> DEFINE w == Without(found, I)
             T == In(found) \ I
             t == Cardinality(T)
  <2>1. /\ w \in [Board -> Nat] /\ In(w) = T
        /\ IsFiniteSet(T) /\ t \in Nat
        /\ \A b \in T : w[b] \in 1..t
        /\ \A i \in 1..t : \E b \in T : w[b] = i
        /\ \A a, b \in T : w[a] < w[b] <=> found[a] < found[b]
    BY <1>1, <1>2, WithoutKeepsOrder
  <2>2. found' = w
    BY DEF I
  <2> HIDE DEF w
  <2> QED
    BY <2>1, <2>2
<1>6. Verified' = In(line') \cup In(found')
  BY DEF Verified, In
<1>7. Verified' = Verified
  BY <1>1, <1>3, <1>5, <1>6 DEF Verified
<1>8. In(line') = In(line) \cup I
  BY <1>3
<1> QED
  BY <1>3, <1>4, <1>5, <1>7, <1>8 DEF I

\* Every step keeps the types of the schedule.
LEMMA TypeStep == TypeOK /\ [Next]_vars => TypeOK'
<1> SUFFICES ASSUME TypeOK, [Next]_vars PROVE TypeOK'
  OBVIOUS
<1>0. ASSUME Order(line'), Order(found'), In(line') \cap In(found') = {},
             age' \in [Board -> 0..MaxAge], held' \in [Board -> 0..Backoff],
             broken' \subseteq Failing, taken' \subseteq Verified'
      PROVE  TypeOK'
  BY <1>0 DEF TypeOK, Order, In
<1>1. ASSUME NEW b \in Board, Verify(b)
      PROVE  TypeOK'
  <2>1. /\ Order(found') /\ In(found') = In(found) \cup {b} /\ b \notin Verified
        /\ Verified' = Verified \cup {b}
    BY <1>1, VerifyChanges
  <2>2. line' = line /\ held' = held /\ broken' = broken /\ taken' = taken
        /\ age' = [age EXCEPT ![b] = 1]
    BY <1>1 DEF Verify
  <2>3. age' \in [Board -> 0..MaxAge]
    BY <2>2, ScheduleAssumption DEF TypeOK
  <2>4. Order(line') /\ In(line') \cap In(found') = {}
    BY <2>1, <2>2 DEF TypeOK, Verified
  <2>5. held' \in [Board -> 0..Backoff] /\ broken' \subseteq Failing /\ taken' \subseteq Verified'
    BY <2>1, <2>2 DEF TypeOK
  <2> QED
    BY <1>0, <2>1, <2>3, <2>4, <2>5
<1>2. ASSUME NEW b \in Board, Break(b)
      PROVE  TypeOK'
  <2>1. line' = line /\ found' = found /\ age' = age /\ held' = held /\ taken' = taken
        /\ broken' \subseteq Failing /\ Verified' = Verified
    BY <1>2 DEF Break, TypeOK, Verified, In
  <2> QED
    BY <1>0, <2>1 DEF TypeOK
<1>3. CASE Run
  <2>1. PICK batch :
          /\ batch = Batch(DueRefreshes, DueBoards, line, found,
                           PlannedBatch(Cardinality(Verified)))
          /\ \E done \in Bijection(batch \ broken, 1..Cardinality(batch \ broken)) :
               line' = Behind(line, batch \ broken, done)
          /\ found' = Without(found, batch \ broken)
          /\ Passes(batch \ broken, batch \cap broken)
          /\ taken' = batch
          /\ UNCHANGED broken
    BY <1>3 DEF Run
  <2>2. /\ Order(line') /\ In(line') = In(line) \cup (batch \ broken)
        /\ Order(found') /\ In(found') = In(found) \ (batch \ broken)
        /\ Verified' = Verified
    BY <2>1, RunChanges
  <2>3. batch \subseteq Verified
    BY <2>1, RunTakes
  <2>4. In(line') \cap In(found') = {}
    BY <2>2 DEF TypeOK
  <2>5. age' \in [Board -> 0..MaxAge]
    <3>1. \A b \in Board : Least(age[b] + 1, MaxAge) \in 0..MaxAge
      BY ScheduleAssumption DEF TypeOK, Least
    <3> QED
      BY <2>1, <3>1, ScheduleAssumption DEF Passes
  <2>6. held' \in [Board -> 0..Backoff]
    <3>1. \A b \in Board : Greatest(held[b] - 1, 0) \in 0..Backoff
      BY ScheduleAssumption DEF TypeOK, Greatest
    <3> QED
      BY <2>1, <3>1, ScheduleAssumption DEF Passes
  <2>7. broken' \subseteq Failing /\ taken' \subseteq Verified'
    BY <2>1, <2>2, <2>3 DEF TypeOK
  <2> QED
    BY <1>0, <2>2, <2>4, <2>5, <2>6, <2>7
<1>4. CASE UNCHANGED vars
  <2>1. line' = line /\ found' = found /\ age' = age /\ held' = held /\ taken' = taken
        /\ broken' = broken /\ Verified' = Verified
    BY <1>4 DEF vars, Verified, In
  <2> QED
    BY <1>0, <2>1 DEF TypeOK
<1> QED
  BY <1>1, <1>2, <1>3, <1>4 DEF Next

\* The schedule starts well typed.
LEMMA TypeInit == Init => TypeOK
<1> SUFFICES ASSUME Init PROVE TypeOK
  OBVIOUS
<1>1. line = [b \in Board |-> 0] /\ found = [b \in Board |-> 0]
  BY DEF Init
<1>2. In(line) = {} /\ In(found) = {} /\ Verified = {}
  BY <1>1 DEF In, Verified
<1>3. Order(line) /\ Order(found)
  <2>1. Cardinality({}) = 0 /\ 1..0 = {}
    BY FS_EmptySet
  <2>2. line \in [Board -> Nat] /\ found \in [Board -> Nat]
    BY <1>1
  <2> QED
    BY <1>2, <2>1, <2>2 DEF Order
<1> QED
  BY <1>2, <1>3, ScheduleAssumption DEF Init, TypeOK

\* The schedule stays well typed for any boards, bounds and failures: the two queues
\* of due_for_ingestion never share a board and each numbers its boards from 1, and
\* a run takes verified boards only.
THEOREM ScheduleTypeCorrect == Spec => []TypeOK
BY TypeInit, TypeStep, PTL DEF Spec

-------------------------------------------------------------------------------

\* The boards of a queue up to b.
Upto(order, b) == {a \in In(order) : order[a] <= order[b]}

\* The queue of the refreshes is sorted by age, a verified board has one, and no
\* board is held while none has failed.
Queued ==
  /\ \A a, b \in In(line) : line[a] < line[b] => age[a] >= age[b]
  /\ \A b \in Verified : age[b] >= 1
  /\ broken = {} => \A b \in Board : held[b] = 0

\* A board that is due has no more ahead of it than the runs can take that are
\* left to it; one that waits for its first ingestion has been passed by the
\* boards that were verified after it only.
Waiting ==
  LET n == Cardinality(Verified)
  IN  /\ \A b \in In(line) : age[b] > Interval =>
           Cardinality(Upto(line, b))
             <= (WorstCase(n) - age[b] + 1) * Recurring(PlannedBatch(n))
      /\ \A b \in In(found) : age[b] + Cardinality(Upto(found, b)) <= n + 1

\* The inductive invariant of the plan.
PlanInv ==
  /\ TypeOK /\ Queued
  /\ Cardinality(taken) <= PlannedBatch(Cardinality(Verified))
  /\ broken = {} => Waiting

\* What a run does to the ages.
LEMMA Ages ==
  ASSUME TypeOK, NEW I, NEW F, Passes(I, F), Interval >= 1
  PROVE  /\ \A b \in Board : age[b] \in Nat /\ age'[b] \in Nat
         /\ \A b \in Board : b \in I => age'[b] = 1
         /\ \A b \in Board : age'[b] <= age[b] + 1 \/ b \in I
         /\ \A b \in Verified \ I : age'[b] = Least(age[b] + 1, MaxAge)
<1>1. \A b \in Board : age[b] \in Nat
  BY ScheduleAssumption DEF TypeOK
<1> QED
  BY <1>1, ScheduleAssumption DEF Passes, Least, Verified, In

\* The boards up to b are finitely many, b among them.
LEMMA UptoFacts ==
  ASSUME TypeOK, NEW order, Order(order), NEW b \in In(order)
  PROVE  /\ IsFiniteSet(Upto(order, b)) /\ Cardinality(Upto(order, b)) \in Nat
         /\ Cardinality(Upto(order, b)) >= 1
         /\ In(order) \subseteq Verified =>
              Cardinality(Upto(order, b)) <= Cardinality(Verified)
<1>1. IsFiniteSet(In(order)) /\ Upto(order, b) \in SUBSET In(order)
  BY OrderFacts DEF Upto
<1>2. IsFiniteSet(Upto(order, b)) /\ Cardinality(Upto(order, b)) \in Nat
  BY <1>1, FS_Subset, FS_CardinalityType
<1>3. b \in Upto(order, b)
  BY OrderFacts DEF Upto
<1>4. Cardinality(Upto(order, b)) # 0
  BY <1>2, <1>3, FS_EmptySet
<1>5. In(order) \subseteq Verified => Upto(order, b) \in SUBSET Verified
  BY <1>1
<1> QED
  BY <1>2, <1>4, <1>5, VerifiedFacts, FS_Subset

\* The invariant answers the workflow's promise: a board older than the worst case
\* would have fewer than one board in the queue up to itself.
LEMMA PlanFollows == PlanInv => PlanKept
<1> SUFFICES ASSUME PlanInv PROVE PlanKept
  OBVIOUS
<1> DEFINE n == Cardinality(Verified)
           R == Recurring(PlannedBatch(n))
<1>1. /\ TypeOK /\ Cardinality(taken) <= PlannedBatch(n) /\ (broken = {} => Waiting)
      /\ Interval \in Nat /\ MaxRevisit \in Nat /\ MaxBatch \in Nat
  BY ScheduleAssumption DEF PlanInv
<1>2. n \in 0..Cardinality(Board) /\ n \in Nat /\ Cardinality(Board) \in Nat
  BY <1>1, VerifiedFacts
<1> HIDE DEF n
<1>3. /\ R \in Nat \ {0} /\ WorstCase(n) \in Nat /\ WorstCase(n) >= Interval
      /\ Required(n) <= MaxBatch => WorstCase(n) <= MaxRevisit
  BY <1>2, PlanFacts
<1>4. ASSUME broken = {}, NEW b \in In(line)
      PROVE  age[b] <= WorstCase(n) /\ (Required(n) <= MaxBatch => age[b] <= MaxRevisit)
  <2>1. age[b] \in Nat
    BY <1>1 DEF TypeOK, In
  <2>2. CASE age[b] > Interval
    <3>1. Cardinality(Upto(line, b)) <= (WorstCase(n) - age[b] + 1) * R
      BY <1>1, <1>4, <2>2 DEF Waiting, n
    <3>2. Cardinality(Upto(line, b)) >= 1 /\ Cardinality(Upto(line, b)) \in Nat
      BY <1>1, <1>4, UptoFacts DEF TypeOK
    <3>3. ASSUME age[b] > WorstCase(n)
          PROVE  FALSE
      <4>1. (WorstCase(n) - age[b] + 1) * R <= 0
        BY <1>3, <2>1, <3>3
      <4> HIDE DEF R
      <4> QED
        BY <1>3, <2>1, <3>1, <3>2, <4>1
    <3> QED
      BY <1>1, <1>3, <2>1, <3>3
  <2>3. CASE ~(age[b] > Interval)
    BY <1>1, <1>3, <2>1, <2>3
  <2> QED
    BY <2>2, <2>3
<1>5. ASSUME broken = {}, NEW b \in In(found)
      PROVE  age[b] <= Cardinality(Board)
  <2>1. age[b] \in Nat
    BY <1>1 DEF TypeOK, In
  <2>2. age[b] + Cardinality(Upto(found, b)) <= n + 1
    BY <1>1, <1>5 DEF Waiting, n
  <2>3. Cardinality(Upto(found, b)) >= 1 /\ Cardinality(Upto(found, b)) \in Nat
    BY <1>1, <1>5, UptoFacts DEF TypeOK
  <2> QED
    BY <1>2, <2>1, <2>2, <2>3
<1> QED
  BY <1>1, <1>4, <1>5 DEF PlanKept, n

\* The invariant holds of a registry that has verified nothing.
LEMMA PlanInit == Init => PlanInv
<1> SUFFICES ASSUME Init PROVE PlanInv
  OBVIOUS
<1>1. In(line) = {} /\ In(found) = {} /\ Verified = {} /\ taken = {}
  BY DEF Init, In, Verified
<1>2. TypeOK
  BY TypeInit
<1>3. Queued
  BY <1>1 DEF Queued, Init
<1>4. Cardinality(taken) <= PlannedBatch(Cardinality(Verified))
  <2>1. Cardinality(taken) = 0 /\ Cardinality(Verified) = 0
    BY <1>1, FS_EmptySet
  <2>2. PlannedBatch(0) \in MinBatch..MaxBatch
    BY PlanFacts
  <2> QED
    BY <2>1, <2>2, ScheduleAssumption
<1>5. Waiting
  BY <1>1 DEF Waiting
<1> QED
  BY <1>2, <1>3, <1>4, <1>5 DEF PlanInv

\* A verification keeps the invariant: more boards to plan for lengthen the queue of
\* new boards by one, and never shorten the worst case.
LEMMA VerifyPlan ==
  ASSUME PlanInv, NEW b \in Board, Verify(b)
  PROVE  PlanInv'
<1> DEFINE n == Cardinality(Verified)
           R == Recurring(PlannedBatch(n))
           S == Recurring(PlannedBatch(n + 1))
<1>1. TypeOK /\ TypeOK'
  BY TypeStep DEF PlanInv, Next
<1>2. /\ Order(found') /\ In(found') = In(found) \cup {b} /\ b \notin Verified
      /\ \A c, d \in In(found) : found'[c] <= found'[d] => found[c] <= found[d]
      /\ Verified' = Verified \cup {b}
  BY <1>1, VerifyChanges
<1>3. /\ line' = line /\ held' = held /\ broken' = broken /\ taken' = taken
      /\ age' = [age EXCEPT ![b] = 1]
      /\ In(line') = In(line) /\ \A c \in Board : age[c] \in Nat
  BY <1>1 DEF Verify, TypeOK, In
<1>4. /\ age'[b] = 1 /\ \A c \in Board : c # b => age'[c] = age[c]
      /\ \A c \in Verified : c \in Board /\ c # b
  BY <1>1, <1>2, <1>3 DEF TypeOK, Verified, In
<1>5. /\ n \in Nat /\ n \in 0..(Cardinality(Board) - 1) /\ Cardinality(Verified') = n + 1
      /\ IsFiniteSet(Verified) /\ IsFiniteSet(Verified')
  <2>1. n \in Nat /\ IsFiniteSet(Verified)
    BY <1>1, VerifiedFacts
  <2>2. Cardinality(Verified \cup {b}) = n + 1 /\ IsFiniteSet(Verified \cup {b})
    BY <1>2, <2>1, FS_AddElement
  <2>3. Verified \cup {b} \in SUBSET Board
    BY <1>1, VerifiedFacts
  <2>4. Cardinality(Verified \cup {b}) <= Cardinality(Board) /\ Cardinality(Board) \in Nat
    BY <1>1, <2>3, VerifiedFacts, ScheduleAssumption, FS_Subset
  <2> HIDE DEF n
  <2> QED
    BY <1>2, <2>1, <2>2, <2>4
<1> HIDE DEF n
<1>6. WorstCase(n) <= WorstCase(n + 1) /\ WorstCase(n) \in Nat /\ WorstCase(n + 1) \in Nat
      /\ WorstCase(n + 1) >= Interval
      /\ R \in Nat \ {0} /\ S \in Nat \ {0} /\ R <= S
      /\ PlannedBatch(n) \in Nat /\ PlannedBatch(n + 1) \in Nat
      /\ PlannedBatch(n) <= PlannedBatch(n + 1)
  <2>1. n \in Nat /\ n + 1 \in Nat /\ n <= n + 1
    BY <1>5
  <2>2. WorstCase(n) <= WorstCase(n + 1)
    BY <1>5, PlanAssumption
  <2> DEFINE P == PlannedBatch(n)
             Q == PlannedBatch(n + 1)
  <2>3. P \in MinBatch..MaxBatch /\ R \in Nat \ {0} /\ WorstCase(n) \in Nat
    BY <2>1, PlanFacts
  <2>4. Q \in MinBatch..MaxBatch /\ S \in Nat \ {0} /\ WorstCase(n + 1) \in Nat
        /\ WorstCase(n + 1) >= Interval
    BY <2>1, PlanFacts
  <2>5. P <= Q /\ R <= S
    BY <2>1, PlanGrows
  <2>6. P \in Nat /\ Q \in Nat
    BY <2>3, <2>4, ScheduleAssumption
  <2> QED
    BY <2>2, <2>3, <2>4, <2>5, <2>6
<1>7. Queued'
  <2>1. \A c, d \in In(line') : line'[c] < line'[d] => age'[c] >= age'[d]
    <3>1. \A c \in In(line) : c \in Verified
      BY DEF Verified
    <3> QED
      BY <1>3, <1>4, <3>1 DEF PlanInv, Queued
  <2>2. \A c \in Verified' : age'[c] >= 1
    BY <1>2, <1>4 DEF PlanInv, Queued
  <2>3. broken' = {} => \A c \in Board : held'[c] = 0
    BY <1>3 DEF PlanInv, Queued
  <2> QED
    BY <2>1, <2>2, <2>3 DEF Queued, In
<1>8. Cardinality(taken') <= PlannedBatch(Cardinality(Verified'))
  <2>1. Cardinality(taken) <= PlannedBatch(n)
    BY DEF PlanInv, n
  <2>2. Cardinality(taken) \in Nat
    BY <1>1, <1>5, FS_Subset, FS_CardinalityType DEF TypeOK
  <2> QED
    BY <1>3, <1>5, <1>6, <2>1, <2>2
<1>9. ASSUME broken' = {}
      PROVE  Waiting'
  <2>1. /\ \A c \in In(line) : age[c] > Interval =>
             Cardinality(Upto(line, c)) <= (WorstCase(n) - age[c] + 1) * R
        /\ \A c \in In(found) : age[c] + Cardinality(Upto(found, c)) <= n + 1
    BY <1>3, <1>9 DEF PlanInv, Waiting, n
  <2>2. ASSUME NEW c \in In(line'), age'[c] > Interval
        PROVE  Cardinality(Upto(line', c)) <= (WorstCase(n + 1) - age'[c] + 1) * S
    <3>1. c \in In(line) /\ c \in Verified /\ age'[c] = age[c] /\ age[c] \in Nat
      BY <1>3, <1>4, <2>2 DEF Verified
    <3>2. Cardinality(Upto(line, c)) \in Nat /\ Cardinality(Upto(line, c)) >= 1
      BY <1>1, <3>1, UptoFacts DEF TypeOK
    <3> DEFINE x == WorstCase(n) - age[c] + 1
               y == WorstCase(n + 1) - age[c] + 1
    <3>3. Cardinality(Upto(line, c)) <= x * R
      BY <2>1, <2>2, <3>1
    <3>4. x \in Int /\ y \in Int /\ x <= y
      BY <1>6, <3>1
    <3> HIDE DEF x, y, R, S
    <3>5. x >= 1
      <4> SUFFICES ASSUME x <= 0 PROVE FALSE
        BY <3>4
      <4>1. x * R <= 0
        BY <1>6, <3>4
      <4> QED
        BY <1>6, <3>2, <3>3, <3>4, <4>1
    <3>6. x * R <= x * S /\ x * S <= y * S
      BY <1>6, <3>4, <3>5
    <3>7. x * R \in Int /\ x * S \in Int /\ y * S \in Int
      BY <1>6, <3>4
    <3>8. Cardinality(Upto(line, c)) <= y * S
      BY <3>2, <3>3, <3>6, <3>7
    <3>9. Upto(line', c) = Upto(line, c)
      BY <1>3 DEF Upto
    <3> QED
      BY <3>1, <3>8, <3>9 DEF y
  <2>3. ASSUME NEW c \in In(found')
        PROVE  age'[c] + Cardinality(Upto(found', c)) <= n + 2
    <3>1. In(found') \subseteq Verified'
      BY DEF Verified, In
    <3>2. Upto(found', c) \in SUBSET Verified'
      BY <3>1 DEF Upto
    <3>3. IsFiniteSet(Upto(found', c)) /\ Cardinality(Upto(found', c)) \in Nat
          /\ Cardinality(Upto(found', c)) <= n + 1
      BY <1>5, <3>2, FS_Subset, FS_CardinalityType
    <3>4. CASE c = b
      BY <1>4, <1>5, <3>3, <3>4
    <3>5. CASE c # b
      <4>1. c \in In(found) /\ c \in Verified /\ age'[c] = age[c] /\ age[c] \in Nat
        BY <1>2, <1>3, <1>4, <3>5 DEF Verified
      <4>2. Upto(found', c) \in SUBSET (Upto(found, c) \cup {b})
        BY <1>2, <4>1 DEF Upto
      <4>3. IsFiniteSet(Upto(found, c)) /\ Cardinality(Upto(found, c)) \in Nat
        BY <1>1, <4>1, UptoFacts DEF TypeOK
      <4>4. Cardinality(Upto(found, c) \cup {b}) <= Cardinality(Upto(found, c)) + 1
            /\ IsFiniteSet(Upto(found, c) \cup {b})
        <5>1. /\ IsFiniteSet(Upto(found, c) \cup {b})
              /\ Cardinality(Upto(found, c) \cup {b})
                   = IF b \in Upto(found, c) THEN Cardinality(Upto(found, c))
                     ELSE Cardinality(Upto(found, c)) + 1
          BY <4>3, FS_AddElement
        <5> QED
          BY <4>3, <5>1
      <4>5. Cardinality(Upto(found', c)) <= Cardinality(Upto(found, c) \cup {b})
            /\ Cardinality(Upto(found, c) \cup {b}) \in Nat
        BY <4>2, <4>4, FS_Subset, FS_CardinalityType
      <4> QED
        BY <1>5, <2>1, <3>3, <4>1, <4>3, <4>4, <4>5
    <3> QED
      BY <3>4, <3>5
  <2>4. \A c \in In(found') : age'[c] + Cardinality(Upto(found', c)) <= (n + 1) + 1
    BY <1>5, <2>3
  <2> HIDE DEF S
  <2>5. LET m == Cardinality(Verified')
        IN  /\ \A c \in In(line') : age'[c] > Interval =>
                 Cardinality(Upto(line', c))
                   <= (WorstCase(m) - age'[c] + 1) * Recurring(PlannedBatch(m))
            /\ \A c \in In(found') : age'[c] + Cardinality(Upto(found', c)) <= m + 1
    BY <1>5, <2>2, <2>4 DEF S
  <2> QED
    BY <2>5 DEF Waiting, Upto, In
<1> QED
  BY <1>1, <1>7, <1>8, <1>9 DEF PlanInv

\* A run keeps the invariant: it takes as many of the refreshes as the plan counts
\* on from the head of their queue, so that whoever stays has that many fewer ahead,
\* and at least one new board, the first, while there is one.
LEMMA RunPlan ==
  ASSUME PlanInv, Run
  PROVE  PlanInv'
<1> DEFINE n == Cardinality(Verified)
           R == Recurring(PlannedBatch(n))
<1>1. TypeOK /\ TypeOK' /\ Interval \in Nat \ {0} /\ MaxAge \in Nat \ {0}
  BY TypeStep, ScheduleAssumption DEF PlanInv, Next
<1>2. PICK batch :
        /\ batch = Batch(DueRefreshes, DueBoards, line, found,
                         PlannedBatch(Cardinality(Verified)))
        /\ \E done \in Bijection(batch \ broken, 1..Cardinality(batch \ broken)) :
             line' = Behind(line, batch \ broken, done)
        /\ found' = Without(found, batch \ broken)
        /\ Passes(batch \ broken, batch \cap broken)
        /\ taken' = batch
        /\ UNCHANGED broken
  BY DEF Run
<1> DEFINE I == batch \ broken
<1>3. /\ Order(line') /\ In(line') = In(line) \cup I
      /\ \A a \in In(line) \ I, b \in I : line'[a] < line'[b]
      /\ \A a, b \in In(line) \ I : line'[a] < line'[b] <=> line[a] < line[b]
      /\ Order(found') /\ In(found') = In(found) \ I
      /\ \A a, b \in In(found) \ I : found'[a] < found'[b] <=> found[a] < found[b]
      /\ Verified' = Verified
  BY <1>1, <1>2, RunChanges
<1>4. /\ batch \subseteq DueRefreshes \cup DueBoards
      /\ batch \subseteq Verified /\ batch \subseteq Board
      /\ IsFiniteSet(batch) /\ Cardinality(batch) <= PlannedBatch(n)
      /\ \A b \in DueRefreshes \ batch : \E T \in SUBSET (batch \cap DueRefreshes) :
           /\ Cardinality(T) = R
           /\ \A a \in T : Precedes(a, b, line)
      /\ \A b \in DueBoards \ batch :
           \E a \in batch \cap DueBoards : Precedes(a, b, found)
  BY <1>1, <1>2, RunTakes
<1>5. /\ \A b \in Board : age[b] \in Nat /\ age'[b] \in Nat
      /\ \A b \in Board : b \in I => age'[b] = 1
      /\ \A b \in Board : age'[b] <= age[b] + 1 \/ b \in I
      /\ \A b \in Verified \ I : age'[b] = Least(age[b] + 1, MaxAge)
  BY <1>1, <1>2, Ages
<1> HIDE DEF I
<1>6. n \in Nat /\ In(line) \subseteq Verified /\ In(found) \subseteq Verified
      /\ In(line') \subseteq Verified /\ In(found') \subseteq Verified /\ Verified \subseteq Board
  BY <1>1, <1>3, <1>4, VerifiedFacts DEF Verified, I
<1> HIDE DEF n
<1>7. \A b \in Board : line[b] \in Nat /\ found[b] \in Nat /\ line'[b] \in Nat /\ found'[b] \in Nat
  BY <1>1, <1>3 DEF TypeOK, Order
<1>8. Queued'
  <2>1. ASSUME NEW a \in In(line'), NEW b \in In(line'), line'[a] < line'[b]
        PROVE  age'[a] >= age'[b]
    <3>1. a \in Board /\ b \in Board /\ a \in Verified /\ b \in Verified
      BY <1>6
    <3>2. CASE b \in I
      <4>1. age'[b] = 1
        BY <1>5, <3>1, <3>2
      <4>2. age'[a] >= 1
        <5>1. CASE a \in I
          BY <1>5, <3>1, <5>1
        <5>2. CASE a \notin I
          BY <1>1, <1>5, <3>1, <5>2 DEF Least
        <5> QED
          BY <5>1, <5>2
      <4> QED
        BY <4>1, <4>2
    <3>3. CASE b \notin I
      <4>1. b \in In(line) \ I
        BY <1>3, <3>3
      <4>2. a \in In(line) \ I
        <5> SUFFICES ASSUME a \in I PROVE FALSE
          BY <1>3
        <5>1. line'[b] < line'[a]
          BY <1>3, <4>1
        <5> QED
          BY <1>7, <2>1, <3>1, <5>1
      <4>3. age[a] >= age[b]
        BY <1>3, <2>1, <4>1, <4>2 DEF PlanInv, Queued
      <4> QED
        BY <1>1, <1>5, <3>1, <4>1, <4>2, <4>3 DEF Least
    <3> QED
      BY <3>2, <3>3
  <2>2. ASSUME NEW b \in Verified'
        PROVE  age'[b] >= 1
    <3>1. b \in Verified /\ b \in Board
      BY <1>3, <1>6, <2>2
    <3>2. CASE b \in I
      BY <1>5, <3>1, <3>2
    <3>3. CASE b \notin I
      BY <1>1, <1>5, <3>1, <3>3 DEF Least
    <3> QED
      BY <3>2, <3>3
  <2>3. broken' = {} => \A b \in Board : held'[b] = 0
    <3> SUFFICES ASSUME broken' = {}, NEW b \in Board PROVE held'[b] = 0
      OBVIOUS
    <3>1. broken = {} /\ held[b] = 0
      BY <1>2 DEF PlanInv, Queued
    <3> QED
      BY <1>2, <3>1 DEF Passes, Greatest
  <2> QED
    BY <2>1, <2>2, <2>3 DEF Queued, In
<1>9. Cardinality(taken') <= PlannedBatch(Cardinality(Verified'))
  BY <1>2, <1>3, <1>4 DEF n
<1>10. ASSUME broken' = {}
       PROVE  Waiting'
  <2>1. /\ \A b \in In(line) : age[b] > Interval =>
             Cardinality(Upto(line, b)) <= (WorstCase(n) - age[b] + 1) * R
        /\ \A b \in In(found) : age[b] + Cardinality(Upto(found, b)) <= n + 1
        /\ \A b \in Board : held[b] = 0
        /\ I = batch
    BY <1>2, <1>10 DEF PlanInv, Waiting, Queued, n, I
  <2>2. R \in Nat \ {0} /\ WorstCase(n) \in Nat /\ n <= (WorstCase(n) - Interval) * R
    BY <1>6, PlanFacts
  <2> HIDE DEF R
  <2>3. ASSUME NEW b \in In(line'), age'[b] > Interval
        PROVE  Cardinality(Upto(line', b)) <= (WorstCase(n) - age'[b] + 1) * R
    <3>0. b \in Board /\ b \in Verified
      BY <1>6
    <3>1. b \in In(line) \ I
      BY <1>1, <1>3, <1>5, <2>3, <3>0
    <3>2. age'[b] <= age[b] + 1 /\ age[b] \in Nat /\ age'[b] \in Nat
      BY <1>5, <3>0, <3>1
    <3>3. IsFiniteSet(Upto(line', b)) /\ Cardinality(Upto(line', b)) \in Nat
          /\ Cardinality(Upto(line', b)) <= n
      BY <1>1, <1>3, <1>6, UptoFacts DEF n
    <3>4. Upto(line', b) \in SUBSET (Upto(line, b) \ I)
      <4> SUFFICES ASSUME NEW a \in Upto(line', b) PROVE a \in Upto(line, b) \ I
        OBVIOUS
      <4>1. a \in In(line') /\ line'[a] <= line'[b] /\ a \in Board
        BY <1>6 DEF Upto
      <4>2. ~(line'[b] < line'[a])
        BY <1>7, <3>0, <4>1
      <4>3. a \in In(line) \ I
        BY <1>3, <3>1, <4>1, <4>2
      <4>4. ~(line[b] < line[a])
        BY <1>3, <3>1, <4>2, <4>3
      <4> QED
        BY <1>7, <3>0, <4>1, <4>3, <4>4 DEF Upto
    <3>5. CASE age[b] > Interval
      <4>1. b \in DueRefreshes \ batch
        BY <2>1, <3>0, <3>1, <3>5 DEF DueRefreshes
      <4>2. PICK T \in SUBSET (batch \cap DueRefreshes) :
              Cardinality(T) = R /\ \A a \in T : Precedes(a, b, line)
        BY <1>4, <4>1
      <4>3. T \in SUBSET Upto(line, b)
        <5> SUFFICES ASSUME NEW a \in T PROVE a \in Upto(line, b)
          OBVIOUS
        <5>1. a \in In(line) /\ Precedes(a, b, line) /\ a \in Board
          BY <1>6, <4>2 DEF DueRefreshes
        <5> QED
          BY <1>7, <3>0, <5>1 DEF Upto, Precedes
      <4>4. IsFiniteSet(Upto(line, b)) /\ Cardinality(Upto(line, b)) \in Nat
        BY <1>1, <3>1, UptoFacts DEF TypeOK
      <4>5. Cardinality(Upto(line, b) \ T) = Cardinality(Upto(line, b)) - R
            /\ IsFiniteSet(Upto(line, b) \ T)
        <5> DEFINE U == Upto(line, b)
        <5>1. IsFiniteSet(U) /\ U \cap T = T
          BY <4>3, <4>4
        <5> HIDE DEF U
        <5>2. IsFiniteSet(U \ T) /\ Cardinality(U \ T) = Cardinality(U) - Cardinality(U \cap T)
          BY <5>1, FS_Difference
        <5>3. Cardinality(U \ T) = Cardinality(U) - R /\ IsFiniteSet(U \ T)
          BY <4>2, <5>1, <5>2
        <5> QED
          BY <5>3 DEF U
      <4>6. Upto(line', b) \in SUBSET (Upto(line, b) \ T)
        BY <2>1, <3>4
      <4>7. Cardinality(Upto(line', b)) <= Cardinality(Upto(line, b)) - R
        BY <4>5, <4>6, FS_Subset
      <4>8. Cardinality(Upto(line, b)) <= (WorstCase(n) - age[b] + 1) * R
        BY <2>1, <3>1, <3>5
      <4> DEFINE x == WorstCase(n) - age[b]
                 y == WorstCase(n) - age'[b] + 1
      <4>9. x \in Int /\ y \in Int /\ x <= y /\ (WorstCase(n) - age[b] + 1) = x + 1
        BY <2>2, <3>2
      <4> HIDE DEF x, y
      <4>10. (x + 1) * R = x * R + R /\ x * R <= y * R /\ x * R \in Int /\ y * R \in Int
        BY <2>2, <4>9
      <4>11. Cardinality(Upto(line', b)) <= y * R
        BY <2>2, <3>3, <4>4, <4>7, <4>8, <4>9, <4>10
      <4> QED
        BY <4>11 DEF y
    <3>6. CASE ~(age[b] > Interval)
      <4>1. age'[b] = Interval + 1
        BY <1>1, <2>3, <3>2, <3>6
      <4>2. WorstCase(n) - age'[b] + 1 = WorstCase(n) - Interval
        BY <1>1, <2>2, <4>1
      <4>3. (WorstCase(n) - Interval) * R \in Int
        BY <1>1, <2>2
      <4> QED
        BY <1>6, <2>2, <3>3, <4>2, <4>3
    <3> QED
      BY <3>5, <3>6
  <2>4. ASSUME NEW b \in In(found')
        PROVE  age'[b] + Cardinality(Upto(found', b)) <= n + 1
    <3>0. b \in Board /\ b \in In(found) \ I
      BY <1>3, <1>6
    <3>1. age'[b] <= age[b] + 1 /\ age[b] \in Nat /\ age'[b] \in Nat
      BY <1>5, <3>0
    <3>2. b \in DueBoards \ batch
      BY <2>1, <3>0 DEF DueBoards
    <3>3. PICK a \in batch \cap DueBoards : Precedes(a, b, found)
      BY <1>4, <3>2
    <3>4. a \in In(found) /\ a \in I /\ a \in Board
      BY <1>6, <2>1, <3>3 DEF DueBoards
    <3>5. a \in Upto(found, b)
      BY <1>7, <3>0, <3>3, <3>4 DEF Upto, Precedes
    <3>6. IsFiniteSet(Upto(found, b)) /\ Cardinality(Upto(found, b)) \in Nat
      BY <1>1, <3>0, UptoFacts DEF TypeOK
    <3>7. Cardinality(Upto(found, b) \ {a}) = Cardinality(Upto(found, b)) - 1
          /\ IsFiniteSet(Upto(found, b) \ {a})
      BY <3>5, <3>6, FS_RemoveElement
    <3>8. Upto(found', b) \in SUBSET (Upto(found, b) \ {a})
      <4> SUFFICES ASSUME NEW c \in Upto(found', b) PROVE c \in Upto(found, b) \ {a}
        OBVIOUS
      <4>1. c \in In(found) \ I /\ found'[c] <= found'[b] /\ c \in Board
        BY <1>3, <1>6 DEF Upto
      <4>2. ~(found'[b] < found'[c])
        BY <1>7, <3>0, <4>1
      <4>3. ~(found[b] < found[c])
        BY <1>3, <3>0, <4>1, <4>2
      <4> QED
        BY <1>7, <3>0, <3>4, <4>1, <4>3 DEF Upto
    <3>9. Cardinality(Upto(found', b)) <= Cardinality(Upto(found, b)) - 1
          /\ Cardinality(Upto(found', b)) \in Nat
      BY <3>7, <3>8, FS_Subset, FS_CardinalityType
    <3>10. age[b] + Cardinality(Upto(found, b)) <= n + 1
      BY <2>1, <3>0
    <3> QED
      BY <1>6, <3>1, <3>6, <3>9, <3>10
  <2>5. LET m == Cardinality(Verified')
        IN  /\ \A b \in In(line') : age'[b] > Interval =>
                 Cardinality(Upto(line', b))
                   <= (WorstCase(m) - age'[b] + 1) * Recurring(PlannedBatch(m))
            /\ \A b \in In(found') : age'[b] + Cardinality(Upto(found', b)) <= m + 1
    BY <1>3, <2>3, <2>4 DEF R, n
  <2> QED
    BY <2>5 DEF Waiting, Upto, In
<1> QED
  BY <1>1, <1>8, <1>9, <1>10 DEF PlanInv

\* Every step keeps the invariant.
LEMMA PlanStep == PlanInv /\ [Next]_vars => PlanInv'
<1> SUFFICES ASSUME PlanInv, [Next]_vars PROVE PlanInv'
  OBVIOUS
<1>1. TypeOK'
  BY TypeStep DEF PlanInv
<1>2. ASSUME UNCHANGED <<line, found, age, held, taken>>, broken' = {} => broken = {}
      PROVE  PlanInv'
  <2>1. Verified' = Verified /\ Queued'
    BY <1>2 DEF Verified, In, PlanInv, Queued
  <2>2. Waiting => Waiting'
    BY <1>2, <2>1 DEF Waiting, Upto, In
  <2> QED
    BY <1>1, <1>2, <2>1, <2>2 DEF PlanInv
<1>3. CASE UNCHANGED vars
  BY <1>2, <1>3 DEF vars
<1>4. ASSUME NEW b \in Board, Break(b)
      PROVE  PlanInv'
  BY <1>2, <1>4 DEF Break
<1> QED
  BY <1>3, <1>4, VerifyPlan, RunPlan DEF Next

\* What the workflow announces holds for any number of boards, verified at any hour
\* and in any order: while none fails, a run takes no more boards than are planned,
\* no board is older than worst_case_hours, nor than the revisit objective while the
\* cap allows it, and a new board is ingested within as many runs as there are boards.
THEOREM PlanIsKept == Spec => []PlanKept
BY PlanInit, PlanStep, PlanFollows, PTL DEF Spec

\* The boards ahead of b among the refreshes.
Ahead(b) == {a \in In(line) : line[a] < line[b]}

\* Nobody gets ahead of a board that waits to be refreshed: until it is ingested
\* the boards ahead of it only become fewer.  And a run that passes over one that
\* is due has taken a whole recurring share of those.
NobodyOvertakes ==
  [][\A b \in In(line) :
       /\ b \in taken' \ broken \/ (b \in In(line') /\ Ahead(b)' \subseteq Ahead(b))
       /\ Run /\ b \in DueRefreshes \ taken' =>
            \E T \in SUBSET (taken' \cap Ahead(b)) :
              Cardinality(T) = Recurring(PlannedBatch(Cardinality(Verified)))]_vars

\* due_for_ingestion and record_ingestion_counts, over any number of hours, whatever
\* boards fail and are verified: what keeps a board from its refresh is a finite
\* list that nothing joins, of which every run that leaves the board out has taken
\* its share.
THEOREM QueueIsFair == Spec => NobodyOvertakes
<1>1. ASSUME TypeOK, Run, NEW b \in In(line)
      PROVE  /\ b \in taken' \ broken \/ (b \in In(line') /\ Ahead(b)' \subseteq Ahead(b))
             /\ b \in DueRefreshes \ taken' =>
                  \E T \in SUBSET (taken' \cap Ahead(b)) :
                    Cardinality(T) = Recurring(PlannedBatch(Cardinality(Verified)))
  <2>1. PICK batch :
          /\ batch = Batch(DueRefreshes, DueBoards, line, found,
                           PlannedBatch(Cardinality(Verified)))
          /\ \E done \in Bijection(batch \ broken, 1..Cardinality(batch \ broken)) :
               line' = Behind(line, batch \ broken, done)
          /\ found' = Without(found, batch \ broken)
          /\ taken' = batch
    BY <1>1 DEF Run
  <2> DEFINE I == batch \ broken
  <2>2. /\ In(line') = In(line) \cup I
        /\ \A a \in In(line) \ I, c \in I : line'[a] < line'[c]
        /\ \A a, c \in In(line) \ I : line'[a] < line'[c] <=> line[a] < line[c]
        /\ Order(line')
    BY <1>1, <2>1, RunChanges
  <2>3. \A c \in DueRefreshes \ batch : \E T \in SUBSET (batch \cap DueRefreshes) :
          /\ Cardinality(T) = Recurring(PlannedBatch(Cardinality(Verified)))
          /\ \A a \in T : Precedes(a, c, line)
    BY <1>1, <2>1, RunTakes
  <2>4. b \notin I => b \in In(line') /\ Ahead(b)' \subseteq Ahead(b)
    <3>1. \A a \in In(line') : line'[a] \in Nat
      BY <2>2 DEF Order, In
    <3> QED
      BY <2>2, <3>1 DEF Ahead
  <2>5. ASSUME NEW T \in SUBSET (batch \cap DueRefreshes), \A a \in T : Precedes(a, b, line)
        PROVE  T \subseteq Ahead(b)
    <3>1. \A a, c \in In(line) : Precedes(a, c, line) => line[a] < line[c]
      BY <1>1, SelectionAssumption DEF TypeOK, Order, Precedes, In
    <3> QED
      BY <1>1, <2>5, <3>1 DEF Ahead, DueRefreshes
  <2> QED
    BY <2>1, <2>3, <2>4, <2>5
<1>2. ASSUME TypeOK, [Next]_vars, ~Run, NEW b \in In(line)
      PROVE  b \in In(line') /\ Ahead(b)' \subseteq Ahead(b)
  <2>1. line' = line
    BY <1>2 DEF Next, Verify, Break, vars
  <2> QED
    BY <1>2, <2>1 DEF Ahead, In
<1>3. ASSUME TypeOK, [Next]_vars
      PROVE  [\A b \in In(line) :
                /\ b \in taken' \ broken \/ (b \in In(line') /\ Ahead(b)' \subseteq Ahead(b))
                /\ Run /\ b \in DueRefreshes \ taken' =>
                     \E T \in SUBSET (taken' \cap Ahead(b)) :
                       Cardinality(T) = Recurring(PlannedBatch(Cardinality(Verified)))]_vars
  BY <1>1, <1>2, <1>3
<1> QED
  BY <1>3, ScheduleTypeCorrect, PTL DEF Spec, NobodyOvertakes
===============================================================================
