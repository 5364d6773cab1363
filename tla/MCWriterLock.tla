---------------------------- MODULE MCWriterLock ----------------------------
(***************************************************************************)
(* Two threads of the desktop launcher and one command-line process.       *)
(***************************************************************************)
EXTENDS WriterLock

CONSTANTS worker1, worker2, command, launcher, cli

ThreadsMC == {worker1, worker2, command}
PidsMC == {launcher, cli}
PidOfMC == [t \in ThreadsMC |-> IF t = command THEN cli ELSE launcher]
=============================================================================
