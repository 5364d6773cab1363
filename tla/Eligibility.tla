----------------------------- MODULE Eligibility -----------------------------
(***************************************************************************)
(* The eligibility engine (eligibility/engine.py): what one vacancy is     *)
(* worth to a candidate who needs a visa, from its text, the rule of its   *)
(* country and the register of sponsors.                                   *)
(*                                                                         *)
(* A text is the set of pattern groups of SponsorshipSignalDetector that   *)
(* match it; an evidence item is its code, or the group of its code where  *)
(* the engine does not tell the codes of a group apart.                    *)
(***************************************************************************)
EXTENDS Integers

CONSTANTS Country,           \* countries of vacancies, None for no country
          Supported,         \* those with a country rule
          RegisterRequired   \* those whose rule asks for a registered sponsor

ASSUME EligibilityAssumption ==
  /\ Supported \in SUBSET Country
  /\ RegisterRequired \in SUBSET Supported

Groups == {"refusal", "explicit", "relocation", "international"}

\* The code of every item the engine may attach to a vacancy.
Codes == Groups \cup {"unsupported_country", "supported_country",
                      "verified_sponsor_registry", "sponsor_registry_not_verified",
                      "insufficient_job_level_evidence"}

\* EvidenceKind of the codes that say something about the vacancy itself.
JobPositive == {"explicit", "relocation", "international", "insufficient_job_level_evidence"}
JobNegative == {"refusal"}

Verdict(status, score, evidence) ==
  [status |-> status, score |-> score, evidence |-> evidence]

Verdicts == [status : {"eligible", "unknown", "rejected"}, score : 0..100,
             evidence : SUBSET Codes]

\* Mutant: no ceiling.
First(a, b) == a

Least(a, b) == IF a < b THEN a ELSE b

\* Five points for the country, those of every group, 45 for the register.
ScoreOf(text, registered) ==
  5 + (IF "explicit" \in text THEN 50 ELSE 0)
    + (IF "relocation" \in text THEN 20 ELSE 0)
    + (IF "international" \in text THEN 15 ELSE 0)
    + (IF registered THEN 45 ELSE 0)

\* Explicit evidence, or a registered sponsor that looks abroad.
Strong(text, registered) ==
  \/ "explicit" \in text
  \/ registered /\ {"relocation", "international"} \cap text # {}

\* EligibilityEngine.assess.
Assess(text, country, registered) ==
  LET found == text \ {"refusal"}
      sponsor == IF registered THEN {"verified_sponsor_registry"} ELSE {}
      evidence == {"supported_country"} \cup found \cup sponsor
      score == ScoreOf(found, registered)
      Unknown(reason) == Verdict("unknown", Least(score, 69), evidence \cup {reason})
  IN  IF "refusal" \in text THEN Verdict("rejected", 0, {"refusal"})
      ELSE IF country \notin Supported
      THEN Verdict("unknown", 0, found \cup {"unsupported_country"})
      ELSE IF country \in RegisterRequired /\ ~registered
      THEN Unknown("sponsor_registry_not_verified")
      ELSE IF ~Strong(found, registered)
      THEN Unknown("insufficient_job_level_evidence")
      ELSE Verdict("eligible", Least(score, 100), evidence)

\* _job_sponsorship_signal.
Signal(evidence) ==
  LET positive == evidence \cap JobPositive # {}
      negative == evidence \cap JobNegative # {}
  IN  IF positive /\ negative THEN "conflicting"
      ELSE IF positive THEN "confirmed_yes"
      ELSE IF negative THEN "confirmed_no"
      ELSE "not_mentioned"

Signals == {"conflicting", "confirmed_yes", "confirmed_no", "not_mentioned"}

\* What the gate promises, read independently of the order of its branches: a
\* vacancy that refuses nobody, in a country with a rule, with the licence its
\* country asks for, and with words or a licence behind it.
Justified(text, country, registered) ==
  /\ "refusal" \notin text
  /\ country \in Supported
  /\ country \in RegisterRequired => registered
  /\ Strong(text, registered)
===============================================================================
