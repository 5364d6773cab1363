--------------------------- MODULE MCBoardRefresh ---------------------------
(***************************************************************************)
(* Two jobs with two texts each; pages of one job, so that two jobs make   *)
(* two pages.                                                              *)
(***************************************************************************)
EXTENDS BoardRefresh

CONSTANTS first, second

JobsMC == {first, second}
OrderMC == [j \in JobsMC |-> IF j = first THEN 0 ELSE 1]
=============================================================================
