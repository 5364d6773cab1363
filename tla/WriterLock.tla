------------------------------ MODULE WriterLock ------------------------------
(***************************************************************************)
(* The cross-process writer lock of the local SQLite database              *)
(* (db/locking.py, database_write_lock).  A lock is a file next to the     *)
(* database, created with O_CREAT | O_EXCL and stamped with the pid of its *)
(* creator; a contender that finds it reads the pid, probes it and takes   *)
(* the file for stale unless that pid is running.                          *)
(*                                                                         *)
(* A thread is one caller of the context manager: the desktop launcher     *)
(* calls it from several threads of one process, the command line from a   *)
(* process of its own.  Every system call is a step, so contenders         *)
(* interleave between any two of them, and a process may die at any point. *)
(***************************************************************************)
EXTENDS FiniteSets

CONSTANTS Thread,          \* callers of database_write_lock
          Pid,             \* operating-system processes
          PidOf,           \* the process each thread runs in
          None,            \* no thread, no pid
          Windows          \* the platform, where it matters below

ASSUME LockAssumption ==
  /\ PidOf \in [Thread -> Pid]
  /\ None \notin Thread \cup Pid
  /\ Windows \in BOOLEAN

VARIABLES pc,        \* the next step of each thread
          attempt,   \* the loop variable of each thread
          seen,      \* the pid each thread read from the file, None for -1
          file,      \* the file at lock_path: who made it, what it says
          running    \* the pids that exist

lockVars == <<pc, attempt, seen, file, running>>

NoFile == [maker |-> None, owner |-> None]
Present == file.maker # None

\* Mutant: the creator closes its descriptor once it has written the pid.
OpenUntilStamped ==
  \E t \in Thread : (file.maker = t /\ pc[t] = "stamp") \/ pc[t] = "read"

\* A file descriptor on the file at lock_path is open: its maker has not
\* closed it yet, or a contender is reading it.
Open ==
  \/ \E t \in Thread : file.maker = t /\ pc[t] \in {"stamp", "write"}
  \/ \E t \in Thread : pc[t] = "read"

\* POSIX unlinks an open file, Windows refuses to.
Removable == ~Windows \/ ~Open

\* Mutant: _pid_is_running answers True when the probe fails.
LooksAliveAlways(p) == TRUE

\* _pid_is_running: signal 0 tells exactly which pids exist on POSIX.  On
\* Windows it is a console event, refused (OSError) as well for a running
\* process of another process group: a running pid may look dead there.
LooksAlive(p) == p \in running
LooksDead(p) == p \notin running \/ Windows

Goto(t, step) == pc' = [pc EXCEPT ![t] = step]

LockInit ==
  /\ pc = [t \in Thread |-> "idle"]
  /\ attempt = [t \in Thread |-> 0]
  /\ seen = [t \in Thread |-> None]
  /\ file = NoFile
  /\ running = Pid

Enter(t) ==
  /\ pc[t] = "idle"
  /\ Goto(t, "open")
  /\ attempt' = [attempt EXCEPT ![t] = 0]
  /\ UNCHANGED <<seen, file, running>>

\* os.open(O_CREAT | O_EXCL) succeeds; the file is empty until Stamp.
Create(t) ==
  /\ pc[t] = "open"
  /\ ~Present
  /\ file' = [maker |-> t, owner |-> None]
  /\ Goto(t, "stamp")
  /\ UNCHANGED <<attempt, seen, running>>

Exists(t) ==
  /\ pc[t] = "open"
  /\ Present
  /\ Goto(t, "inspect")
  /\ UNCHANGED <<attempt, seen, file, running>>

\* read_text: an empty file is a ValueError, a vanished one an OSError, and
\* both leave owner = -1.
ReadOwner(t) ==
  /\ pc[t] = "inspect"
  /\ seen' = [seen EXCEPT ![t] = file.owner]
  /\ Goto(t, IF Present THEN "read" ELSE "decide")
  /\ UNCHANGED <<attempt, file, running>>

CloseRead(t) ==
  /\ pc[t] = "read"
  /\ Goto(t, "decide")
  /\ UNCHANGED <<attempt, seen, file, running>>

\* RuntimeError: the owner runs, or this is the second attempt.
Refuse(t) ==
  /\ pc[t] = "decide"
  /\ LooksAlive(seen[t]) \/ attempt[t] = 1
  /\ Goto(t, "idle")
  /\ seen' = [seen EXCEPT ![t] = None]
  /\ UNCHANGED <<attempt, file, running>>

\* Mutant: while True instead of range(2).
RecoverAlways(t) ==
  /\ pc[t] = "decide"
  /\ LooksDead(seen[t])
  /\ Goto(t, "steal")
  /\ seen' = [seen EXCEPT ![t] = None]
  /\ UNCHANGED <<attempt, file, running>>

Recover(t) ==
  /\ pc[t] = "decide"
  /\ LooksDead(seen[t]) /\ attempt[t] = 0
  /\ Goto(t, "steal")
  /\ seen' = [seen EXCEPT ![t] = None]
  /\ UNCHANGED <<attempt, file, running>>

\* Mutant: the removal ignores that the file is open.
StealOpen(t) ==
  /\ pc[t] = "steal"
  /\ file' = NoFile
  /\ attempt' = [attempt EXCEPT ![t] = 1]
  /\ Goto(t, "open")
  /\ UNCHANGED <<seen, running>>

\* Removes whatever file is at the path by now.  On Windows the removal of an
\* open file is a PermissionError, which leaves the context manager.
Steal(t) ==
  /\ pc[t] = "steal"
  /\ IF Present /\ ~Removable
     THEN /\ Goto(t, "idle")
          /\ UNCHANGED <<attempt, file>>
     ELSE /\ file' = NoFile
          /\ attempt' = [attempt EXCEPT ![t] = 1]
          /\ Goto(t, "open")
  /\ UNCHANGED <<seen, running>>

\* Mutant: the thread's identifier instead of os.getpid().
StampThread(t) ==
  /\ pc[t] = "stamp"
  /\ file' = IF file.maker = t THEN [file EXCEPT !.owner = t] ELSE file
  /\ Goto(t, "write")
  /\ UNCHANGED <<attempt, seen, running>>

\* os.write(fd, pid) reaches the inode that t created, which is the file at
\* the path only if nobody removed it; the with-body starts.
Stamp(t) ==
  /\ pc[t] = "stamp"
  /\ file' = IF file.maker = t THEN [file EXCEPT !.owner = PidOf[t]] ELSE file
  /\ Goto(t, "write")
  /\ UNCHANGED <<attempt, seen, running>>

\* The body returns or raises: os.close(fd) ...
Close(t) ==
  /\ pc[t] = "write"
  /\ Goto(t, "unlink")
  /\ UNCHANGED <<attempt, seen, file, running>>

\* ... and lock_path.unlink(), again whatever file is there.
Release(t) ==
  /\ pc[t] = "unlink"
  /\ file' = IF Removable THEN NoFile ELSE file
  /\ Goto(t, "idle")
  /\ UNCHANGED <<attempt, seen, running>>

\* The process exits or is killed with all its threads; its lock file stays.
Die(p) ==
  /\ p \in running
  /\ running' = running \ {p}
  /\ pc' = [t \in Thread |-> IF PidOf[t] = p THEN "dead" ELSE pc[t]]
  /\ UNCHANGED <<attempt, seen, file>>

\* A process starts; the system may have given it a pid used before.
Start(p) ==
  /\ p \notin running
  /\ running' = running \cup {p}
  /\ pc' = [t \in Thread |-> IF PidOf[t] = p THEN "idle" ELSE pc[t]]
  /\ UNCHANGED <<attempt, seen, file>>

Step(t) ==
  \/ Create(t) \/ Exists(t) \/ ReadOwner(t) \/ CloseRead(t)
  \/ Refuse(t) \/ Recover(t) \/ Steal(t) \/ Stamp(t) \/ Release(t)

LockNext ==
  \/ \E t \in Thread : Enter(t) \/ Step(t) \/ Close(t)
  \/ \E p \in Pid : Die(p) \/ Start(p)

\* A thread inside the context manager keeps executing it; nothing makes a
\* caller enter it, a with-body finish or a process start.
Fairness == \A t \in Thread : WF_lockVars(Step(t))

LockSpec == LockInit /\ [][LockNext]_lockVars /\ Fairness

-------------------------------------------------------------------------------

Steps == {"idle", "open", "inspect", "read", "decide", "steal", "stamp",
          "write", "unlink", "dead"}

\* Type correctness of the lock's state.
LockTypeOK ==
  /\ pc \in [Thread -> Steps]
  /\ attempt \in [Thread -> {0, 1}]
  /\ seen \in [Thread -> Pid \cup {None}]
  /\ file \in [maker : Thread \cup {None}, owner : Pid \cup {None}]
  /\ running \in SUBSET Pid

\* "Fail fast if another local process is already writing the same SQLite DB":
\* no two threads are in the with-body of database_write_lock at a time.
MutualExclusion ==
  \A t, u \in Thread : pc[t] = "write" /\ pc[u] = "write" => t = u

\* Where an open file cannot be removed, whoever created the lock file still
\* owns the file at the path: no recovery of a stale lock, however delayed,
\* removed it.  It is what makes the lock exclude on Windows.
HolderOwnsFile ==
  \A t \in Thread : pc[t] \in {"stamp", "write"} => file.maker = t

\* A file no running process stands behind is stale: left by a dead owner, or
\* never stamped by a creator that died.
Stale ==
  /\ Present
  /\ file.owner \notin running
  /\ pc[file.maker] \notin {"stamp", "write"}

\* A thread that tries for the lock while it is stale clears the way: the
\* stale file goes, or its pid comes back to life, or the process that tried
\* is gone, or Windows refuses the removal because another contender reads the
\* file (the loop of database_write_lock that recovers a stale lock).
StaleLockRecovered ==
  \A t \in Thread : (Stale /\ pc[t] = "open" /\ attempt[t] = 0)
                      ~> \/ ~Stale
                         \/ pc[t] = "dead"
                         \/ pc[t] = "steal" /\ ~Removable

\* Contenders never wait on one another for ever: every attempt ends in the
\* with-body, in an exception, or with the process (the loop is bounded).
AttemptsEnd ==
  \A t \in Thread : pc[t] = "open" ~> pc[t] \in {"write", "idle", "dead"}

\* The thread that may write: it has created the lock file and not closed it.
Holder ==
  IF \E t \in Thread : pc[t] \in {"stamp", "write"}
  THEN CHOOSE t \in Thread : pc[t] \in {"stamp", "write"}
  ELSE None

Promise == INSTANCE Mutex WITH holder <- Holder

\* database_write_lock implements the mutex its callers count on: the right to
\* write goes from nobody to one thread and back, never from a thread that has
\* it to another, through every race for a stale file and every death.
IsMutex == Promise!Spec
===============================================================================
