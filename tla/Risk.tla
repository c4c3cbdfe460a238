-------------------------------- MODULE Risk --------------------------------
(***************************************************************************)
(* apps/risk: each player's risk state and open case, and what the fraud   *)
(* engine, staff and superusers do to them.  A detector's arithmetic is    *)
(* left out: a finding is the outcome it comes to, "low" (nothing but the  *)
(* score), "review" or "suspend".  The requests a finding holds are in     *)
(* Withdrawals.  Every action is one transaction that has locked the       *)
(* player's profile (or the case, and then updates the profile).           *)
(***************************************************************************)
EXTENDS Naturals

CONSTANT Players

Findings == {"low", "review", "suspend"}

VARIABLES
  underReview,  \* RiskProfile.under_review
  frozen,       \* RiskProfile.withdrawals_frozen
  bonusBlocked, \* RiskProfile.bonus_blocked
  suspended,    \* Player.is_suspended, and who did it: "no", "auto", "staff"
  case          \* the player's open RiskCase: "none", or its action

riskVars == <<underReview, frozen, bonusBlocked, suspended, case>>

RiskInit ==
  /\ underReview = [p \in Players |-> FALSE]
  /\ frozen = [p \in Players |-> FALSE]
  /\ bonusBlocked = [p \in Players |-> FALSE]
  /\ suspended = [p \in Players |-> "no"]
  /\ case = [p \in Players |-> "none"]

RiskTypeOK ==
  /\ underReview \in [Players -> BOOLEAN]
  /\ frozen \in [Players -> BOOLEAN]
  /\ bonusBlocked \in [Players -> BOOLEAN]
  /\ suspended \in [Players -> {"no", "auto", "staff"}]
  /\ case \in [Players -> {"none", "review", "suspended"}]

\* _act: what a finding does to the profile, the account and the case.
Act(p, finding) ==
  IF finding = "low" THEN UNCHANGED riskVars
  ELSE LET suspend == finding = "suspend"
       IN  /\ underReview' = [underReview EXCEPT ![p] = TRUE]
           /\ bonusBlocked' = [bonusBlocked EXCEPT ![p] = TRUE]
           /\ frozen' = [frozen EXCEPT ![p] = @ \/ suspend]
           /\ suspended' = [suspended EXCEPT ![p] = IF suspend /\ @ = "no" THEN "auto" ELSE @]
           /\ case' = [case EXCEPT ![p] = IF suspend THEN "suspended"
                                          ELSE IF @ = "none" THEN "review" ELSE @]

\* decide(dismiss): everything is lifted, whoever had set it.
Lift(p) ==
  /\ case[p] # "none"
  /\ underReview' = [underReview EXCEPT ![p] = FALSE]
  /\ frozen' = [frozen EXCEPT ![p] = FALSE]
  /\ bonusBlocked' = [bonusBlocked EXCEPT ![p] = FALSE]
  /\ suspended' = [suspended EXCEPT ![p] = IF case[p] = "suspended" THEN "no" ELSE @]
  /\ case' = [case EXCEPT ![p] = "none"]

\* decide(confirm): the case closes, the restrictions stay.
Uphold(p) ==
  /\ case[p] # "none"
  /\ case' = [case EXCEPT ![p] = "none"]
  /\ UNCHANGED <<underReview, frozen, bonusBlocked, suspended>>

\* set_restrictions: staff freeze or unfreeze, block or unblock bonuses.
SetRestrictions(p, freeze, block) ==
  /\ frozen' = [frozen EXCEPT ![p] = freeze]
  /\ bonusBlocked' = [bonusBlocked EXCEPT ![p] = block]
  /\ UNCHANGED <<underReview, suspended, case>>

\* suspend_player and unsuspend_player, called by staff.
SetSuspended(p, how) ==
  /\ suspended' = [suspended EXCEPT ![p] = how]
  /\ UNCHANGED <<underReview, frozen, bonusBlocked, case>>

\* withdrawals_blocked, as the player asking finds it.
Blocked(p) == suspended[p] # "no" \/ frozen[p]
=============================================================================
