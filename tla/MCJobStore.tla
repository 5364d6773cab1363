----------------------------- MODULE MCJobStore -----------------------------
(***************************************************************************)
(* Two boards.  Board 1 lists a vacancy that is edited, and one under a    *)
(* name that is no employer's but normalises to the same; board 2 lists a  *)
(* role of the same employer at the same URL, which is not technical.      *)
(***************************************************************************)
EXTENDS JobStore

CONSTANTS nl, de, acme, acmeLtd, slug, acmeNorm, url

CountryMC == {nl, de}
SupportedMC == {nl, de}
RequiredMC == {nl}
NameMC == {acme, acmeLtd, slug}
NormMC == [n \in NameMC |-> acmeNorm]
TrustedMC == {acme, acmeLtd}

Vacancy(name, country, text, technical, at) ==
  [name |-> name, country |-> country, text |-> text, technical |-> technical, url |-> at]

PostingMC == 1..3
BoardOfMC == [p \in PostingMC |-> IF p = 3 THEN 2 ELSE 1]
ContentOfMC == [p \in PostingMC |->
  CASE p = 1 -> {Vacancy(acme, nl, {"relocation"}, TRUE, url),
                 Vacancy(acme, de, {"refusal", "explicit"}, TRUE, None)}
    [] p = 2 -> {Vacancy(slug, nl, {"international", "explicit"}, TRUE, url)}
    [] OTHER -> {Vacancy(acmeLtd, nl, {"explicit"}, FALSE, url)}]
\* Vacancies that say nothing about visas.
ContentOfSilent == [p \in PostingMC |-> {Vacancy(acme, de, {}, TRUE, url)}]

UrlMC == {url}
CentralMC == {{acmeNorm} \X CountryMC}
=============================================================================
