---------------------------- MODULE MCCandidateApi ----------------------------
(***************************************************************************)
(* Three vacancies, of which an import changes what one says: the first    *)
(* two tie for everybody, the second is later "0 years of experience".     *)
(***************************************************************************)
EXTENDS CandidateApi, TLC

CONSTANTS python, pytorch, ml, backendRole, dataRole, nl, de, request1, request2,
          backend, data, before, after

SkillMC == {python, pytorch, ml}
RoleMC == {backendRole, dataRole}
FamilyOfMC == [r \in RoleMC |-> IF r = backendRole THEN "backend" ELSE "data_science"]
PlaceMC == {nl, de}
WeightMC == [visa |-> 35, skill |-> 30, experience |-> 15, country |-> 10,
             company |-> 10, role |-> 0]
RequestMC == {request1, request2}
Symmetric == Permutations(RequestMC)

Ask(required, preferred, minimum, seniority) ==
  [required |-> required, preferred |-> preferred, minimum |-> minimum,
   seniority |-> seniority]
NothingAsked == Ask({}, {}, None, None)

Offer(id, minimum) ==
  [id |-> id, active |-> TRUE, status |-> "eligible", posted |-> 5, country |-> nl,
   places |-> {nl}, scope |-> "other", remote |-> FALSE, titled |-> "fullstack",
   label |-> "backend", lay |-> FALSE, echoes |-> {},
   stored |-> Ask({ml}, {python}, minimum, "senior"), read |-> NothingAsked,
   vouched |-> TRUE,
   evidence |-> {"relocation_support", "apply_from_abroad", "visa_sponsorship",
                 "international_candidates", "verified_sponsor_registry"}]

Unsure == [Offer(3, None) EXCEPT
  !.status = "unknown", !.posted = 9, !.country = None, !.places = {}, !.scope = "europe",
  !.remote = TRUE, !.titled = "other", !.label = "ai_ml", !.stored = NothingAsked,
  !.read = Ask({python}, {}, 3, None), !.vouched = FALSE,
  !.evidence = {"eu_eea_only", "existing_work_rights"}]

CatalogMC == {before, after}
JobsMC == [c \in CatalogMC |-> {Offer(1, 4), Offer(2, IF c = before THEN 4 ELSE 0), Unsure}]

ContentMC == {backend, data}
SaysMC == [c \in ContentMC |->
  IF c = backend
  THEN [skills |-> {pytorch}, years |-> 2, seniority |-> "mid", roles |-> {backendRole},
        countries |-> {nl}, excluded |-> {}, remote |-> "no_preference",
        visa_required |-> TRUE]
  ELSE [skills |-> {python}, years |-> 6, seniority |-> None,
        roles |-> {dataRole, backendRole}, countries |-> {de}, excluded |-> {},
        remote |-> "preferred", visa_required |-> FALSE]]

StatusMC == {"not_applied", "applied"}
NoteMC == {"call back"}

Ranking(sort, include, limit, offset) ==
  [sort |-> sort, include_unknown |-> include, country |-> None, family |-> None,
   min_score |-> 1000, limit |-> limit, offset |-> offset]
QueryMC == {Ranking("match", TRUE, 2, 0), Ranking("newest", TRUE, 1, 1),
            Ranking("visa", FALSE, 1, 0)}
===============================================================================
