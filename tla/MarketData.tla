----------------------------- MODULE MarketData ------------------------------
(***************************************************************************)
(* What the three workflows promise whoever reads the market-data branch:  *)
(* each publication is a whole run applied to the branch as it stood when  *)
(* it was published, as if runs came one after the other, whatever else    *)
(* ran, failed or was pushed by hand in between.                           *)
(***************************************************************************)
CONSTANTS Content,       \* what the branch may hold
          Published(_),  \* what a run makes of what it has fetched
          ByHand(_)      \* what a maintainer does

VARIABLE branch

Init == branch \in Content

Publish == branch' \in Published(branch)

Edit == branch' \in ByHand(branch)

Next == Publish \/ Edit

Spec == Init /\ [][Next]_branch
==============================================================================
