-------------------------- MODULE MCRefreshSchedule ---------------------------
(* Boards are numbers: which of two that tie comes first does not matter.  *)
EXTENDS RefreshSchedule

CONSTANTS Boards, Broken
BoardsMC == 1..Boards
RankMC == [b \in 1..Boards |-> b]
FailingMC == 1..Broken
==============================================================================
