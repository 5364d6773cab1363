-------------------------- MODULE MCCatalogDelivery --------------------------
(***************************************************************************)
(* One board with one job, two processes that refresh, and a branch that   *)
(* keeps the newest payload only, so that a slow download finds its        *)
(* payload gone.                                                           *)
(***************************************************************************)
EXTENDS CatalogDelivery, TLC

CONSTANTS board, job, desktop, console

BoardsMC == {board}
JobsMC == {job}
BoardOfMC == [j \in JobsMC |-> board]
RefreshersMC == {desktop, console}
Interchangeable == Permutations(RefreshersMC)
==============================================================================
