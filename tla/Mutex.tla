-------------------------------- MODULE Mutex --------------------------------
(***************************************************************************)
(* What database_write_lock promises the callers of the local database:    *)
(* one of them at a time holds the right to write, it is given to a caller *)
(* only when nobody holds it, and it ends with the with-body or with the   *)
(* process that runs it.                                                   *)
(***************************************************************************)
CONSTANTS Thread, None

VARIABLE holder

Init == holder = None

Acquire(t) == holder = None /\ holder' = t

\* The with-body ends, or the process does.
Release == holder # None /\ holder' = None

Next == (\E t \in Thread : Acquire(t)) \/ Release

Spec == Init /\ [][Next]_holder
===============================================================================
