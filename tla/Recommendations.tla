---------------------------- MODULE Recommendations ----------------------------
(***************************************************************************)
(* What a vacancy is worth to a profile (intelligence/matching.py,         *)
(* company.py, ranking.py) and the page of a shortlist that is served of   *)
(* it (api/app.py).                                                        *)
(*                                                                         *)
(* Scores are hundredths of a percent, 0..10000, and divisions truncate    *)
(* where the code has floats.  Texts are what the code reads off them: the *)
(* skills, minimum and seniority of a description, the family of a title,  *)
(* the places and the remote scope of a location.                          *)
(***************************************************************************)
EXTENDS Integers, FiniteSets, Sequences

CONSTANTS Skill, Specialist, MachineLearning,  \* skills, those that imply the broad one
          Role, FamilyOf,                      \* target roles, and classify_role of each
          Place,                               \* countries and locations
          Weight,                              \* config/ranking.yaml, in percent
          None

Family == {"backend", "frontend", "fullstack", "mobile", "qa_automation",
           "security_engineering", "software_engineering", "ai_ml", "data_science",
           "mlops", "devops_cloud", "data_engineering", "other"}

Levels == {"intern", "junior", "mid", "senior", "staff", "lead", "principal", "director"}

Score == 0..10000

\* RankingConfig.__post_init__.
ASSUME RankingAssumption ==
  /\ Weight \in [{"visa", "skill", "experience", "country", "company", "role"} -> Nat]
  /\ Weight["visa"] + Weight["skill"] + Weight["experience"] + Weight["country"]
       + Weight["company"] + Weight["role"] = 100
  /\ Specialist \subseteq Skill /\ MachineLearning \in Skill /\ IsFiniteSet(Skill)
  /\ FamilyOf \in [Role -> Family]
  /\ None \notin Nat \cup Levels \cup Place

\* What the vacancy asks for: persisted, or read off its text.
Requirements == [required : SUBSET Skill, preferred : SUBSET Skill,
                 minimum : Nat \cup {None}, seniority : Levels \cup {None}]

\* A vacancy; posted is 0 where the date is not known.
Vacancies ==
  [id : Nat \ {0}, active : BOOLEAN, status : {"eligible", "unknown", "rejected"},
   posted : Nat, country : Place \cup {None}, places : SUBSET Place,
   scope : {"us_only", "europe", "other"}, remote : BOOLEAN,
   titled : Family, label : Family, lay : BOOLEAN, echoes : SUBSET Role,
   stored : Requirements, read : Requirements,
   vouched : BOOLEAN, evidence : SUBSET STRING]

Profiles ==
  [skills : SUBSET Skill, years : Nat, seniority : Levels \cup {None},
   roles : SUBSET Role, countries : SUBSET Place, excluded : SUBSET Place,
   remote : {"required", "preferred", "no_preference"}, visa_required : BOOLEAN]

\* What recommendations and its explanation accept.
Queries ==
  [sort : {"match", "newest", "visa"}, include_unknown : BOOLEAN,
   country : Place \cup {None}, family : Family \cup {None},
   min_score : Score, limit : 1..500, offset : Nat]

Lower(a, b) == IF a < b THEN a ELSE b
\* Mutant: signals are added up and that is all.
Unclamped(x) == x

Clamp(x) == IF x < 0 THEN 0 ELSE IF x > 10000 THEN 10000 ELSE x

-------------------------------------------------------------------------------
(* CandidateMatcher.                                                       *)

\* Persisted requirements are authoritative where there are any.
Asked(job) ==
  IF /\ job.stored.required = {} /\ job.stored.preferred = {}
     /\ job.stored.minimum = None /\ job.stored.seniority = None
  THEN job.read
  ELSE [job.stored EXCEPT !.seniority = IF @ = None THEN job.read.seniority ELSE @]

\* A specialist has the broad skill; the reverse is not pretended.
SkillsOf(candidate) ==
  candidate.skills \cup
    (IF candidate.skills \cap Specialist # {} THEN {MachineLearning} ELSE {})

\* _coverage.
Coverage(skills, wanted) ==
  IF wanted = {} THEN 5000
  ELSE (10000 * Cardinality(skills \cap wanted)) \div Cardinality(wanted)

SkillScore(candidate, asked) ==
  LET required == Coverage(SkillsOf(candidate), asked.required)
      preferred == Coverage(SkillsOf(candidate), asked.preferred)
  IN  IF asked.required # {} /\ asked.preferred # {}
      THEN (7 * required + 3 * preferred) \div 10
      ELSE IF asked.required # {} THEN required
      ELSE preferred

Order == [level \in Levels |->
  CASE level = "intern" -> 0 [] level = "junior" -> 1 [] level = "mid" -> 2
    [] level = "senior" -> 3 [] level \in {"staff", "lead"} -> 4
    [] level = "principal" -> 5 [] level = "director" -> 6]

\* _seniority_match.
SeniorityMatch(mine, asked) ==
  IF None \in {mine, asked} THEN 5000
  ELSE LET d == Order[mine] - Order[asked]
       IN  IF d = 0 THEN 10000
           ELSE IF d \in {-1, 1} THEN 8000
           ELSE IF d \in {-2, 2} THEN 5000
           ELSE 2500

\* A minimum of no years divides by it (ZeroDivisionError).
Unscorable(job) == Asked(job).minimum = 0

\* _experience_match.
ExperienceScore(candidate, asked) ==
  LET level == SeniorityMatch(candidate.seniority, asked.seniority)
      years == Lower(10000, (10000 * candidate.years) \div asked.minimum)
  IN  IF asked.minimum = None THEN level
      ELSE IF None \in {candidate.seniority, asked.seniority} THEN years
      ELSE (7 * years + 3 * level) \div 10

\* _effective_job_family: the title, unless it says nothing of a technical role
\* and nothing against one.
FamilyOfJob(job) ==
  IF job.titled # "other" THEN job.titled
  ELSE IF job.lay THEN "other"
  ELSE job.label

Software == {"backend", "frontend", "fullstack", "mobile", "qa_automation",
             "security_engineering"}

Related(target) ==
  CASE target = "ai_ml" -> {"data_science", "mlops"}
    [] target = "data_science" -> {"ai_ml", "mlops"}
    [] target = "mlops" -> {"ai_ml", "data_science", "devops_cloud"}
    [] target = "devops_cloud" -> {"mlops", "backend"}
    [] target = "backend" -> {"fullstack", "devops_cloud"}
    [] target = "frontend" -> {"fullstack"}
    [] target = "fullstack" -> {"backend", "frontend"}
    [] OTHER -> {}

\* _role_similarity.
RoleSimilarity(candidate, job) ==
  LET family == FamilyOfJob(job)
      targets == {FamilyOf[role] : role \in candidate.roles}
  IN  IF candidate.roles = {} THEN 5000
      ELSE IF family \in targets \ {"other"} THEN 10000
      ELSE IF "software_engineering" \in targets /\ family \in Software THEN 9000
      ELSE IF family = "software_engineering" /\ targets \cap Software # {} THEN 8500
      ELSE IF \E target \in targets : family \in Related(target) THEN 7500
      ELSE IF candidate.roles \cap job.echoes # {} THEN 8500
      ELSE 2000

\* _country_match.
CountryScore(candidate, job) ==
  LET wanted == job.country \in candidate.countries
      none == candidate.countries = {}
      base == IF job.scope = "europe" /\ job.country = None
              THEN IF none THEN 6500 ELSE 7500
              ELSE IF wanted THEN 10000 ELSE IF none THEN 6500 ELSE 3500
  IN  IF candidate.excluded \cap (job.places \cup {job.country}) # {} THEN 0
      ELSE IF job.scope = "us_only" THEN 0
      ELSE IF candidate.remote = "required" /\ ~job.remote THEN 0
      ELSE IF candidate.remote = "preferred" /\ job.remote THEN Lower(10000, base + 1000)
      ELSE base

\* _visa_match.
VisaScore(candidate, job) ==
  IF candidate.visa_required
  THEN CASE job.status = "eligible" -> 10000 [] job.status = "unknown" -> 2500 [] OTHER -> 0
  ELSE IF job.status = "rejected" THEN 2500 ELSE 10000

Abroad == {"relocation_support", "relocation_provided", "international_candidates",
           "apply_from_abroad"}
Explicit == {"visa_sponsorship", "sponsor_work_visa", "work_permit_support",
             "immigration_support"}
Refusing == {"no_sponsorship", "no_sponsorship_direct"}
Restricting == {"without_sponsorship", "existing_work_rights", "eu_eea_only",
                "local_candidates_only", "citizenship_required"}

\* CompanyIntelligenceScorer.score: the register counts once.
CompanyScore(job) ==
  LET Count(codes) == Cardinality(job.evidence \cap codes)
      register == job.vouched \/ "verified_sponsor_registry" \in job.evidence
  IN  Clamp(2500 + (IF register THEN 4500 ELSE 0)
              + 1500 * Count(Abroad) + 1000 * Count(Explicit)
              - 5500 * Count(Refusing) - 4500 * Count(Restricting))

\* RankingEngine.score.
Total(candidate, job) ==
  (  Weight["visa"] * VisaScore(candidate, job)
   + Weight["skill"] * SkillScore(candidate, Asked(job))
   + Weight["experience"] * ExperienceScore(candidate, Asked(job))
   + Weight["country"] * CountryScore(candidate, job)
   + Weight["company"] * CompanyScore(job)
   + Weight["role"] * RoleSimilarity(candidate, job)) \div 100

-------------------------------------------------------------------------------
(* The shortlist.                                                          *)

\* iter_recommendation_jobs; its search for words is one more such condition.
Selected(jobs, query) ==
  {job \in jobs : /\ job.active
                  /\ \/ job.status = "eligible"
                     \/ job.status = "unknown" /\ query.include_unknown
                  /\ query.country \in {None, job.country}
                  /\ query.family \in {None, job.label}}

\* _rank_recommendations, qualifying.
Qualifying(candidate, jobs, query) ==
  {job \in Selected(jobs, query) : /\ Total(candidate, job) >= query.min_score
                                   /\ RoleSimilarity(candidate, job) >= 5000}

\* sort_key, as the sequence the code compares: smallest first.
SortKey(candidate, job, sort) ==
  LET total == -Total(candidate, job)
  IN  CASE sort = "newest" -> <<-job.posted, total, job.id>>
        [] sort = "visa" -> <<-VisaScore(candidate, job), total, -job.posted, job.id>>
        [] OTHER -> <<total, -job.posted, job.id>>

Precedes(a, b) ==
  \E i \in 1..Len(a) : a[i] < b[i] /\ \A j \in 1..(i - 1) : a[j] = b[j]

\* heapq.nsmallest: the item in each place has as many before it.
NSmallest(n, key) ==
  LET S == DOMAIN key
  IN  [k \in 1..Lower(n, Cardinality(S)) |->
         CHOOSE x \in S : Cardinality({y \in S : Precedes(key[y], key[x])}) = k - 1]

\* The best n vacancies.
Ranked(candidate, jobs, query, n) ==
  NSmallest(n, [job \in Qualifying(candidate, jobs, query) |->
                  SortKey(candidate, job, query.sort)])

\* Mutant: only as many as are shown.
PageOfPrefix(candidate, jobs, query) ==
  LET ranked == Ranked(candidate, jobs, query, query.limit)
  IN  SubSeq(ranked, query.offset + 1, Lower(Len(ranked), query.offset + query.limit))

\* The page of the best offset + limit that follows the first offset.
Page(candidate, jobs, query) ==
  LET ranked == Ranked(candidate, jobs, query, query.offset + query.limit)
  IN  SubSeq(ranked, query.offset + 1, Lower(Len(ranked), query.offset + query.limit))

\* The request fails as a whole where one vacancy it selects cannot be scored.
Servable(jobs, query) == \A job \in Selected(jobs, query) : ~Unscorable(job)
===============================================================================
