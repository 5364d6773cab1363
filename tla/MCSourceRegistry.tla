-------------------------- MODULE MCSourceRegistry --------------------------
(***************************************************************************)
(* One board.  The rows of the registry do not influence one another but   *)
(* through the bounded batches of a run, which are a set of any size here. *)
(***************************************************************************)
EXTENDS SourceRegistry

CONSTANT board

BoardMC == {board}
RankMC == [b \in BoardMC |-> 0]
=============================================================================
