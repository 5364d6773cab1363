---------------------------- MODULE MCMarketData -----------------------------
(* Two boards, of which one is bundled with the checkout, an ingestion and *)
(* a health run that overlap.                                              *)
EXTENDS MarketDataBranch

CONSTANTS old, new

BoardsMC == {old, new}
BundledMC == {old}
RunnersMC == {"ingestion", "health"}
KindsMC == [r \in RunnersMC |-> IF r = "health" THEN "health" ELSE "ingest"]
==============================================================================
