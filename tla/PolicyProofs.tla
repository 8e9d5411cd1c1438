---------------------------- MODULE PolicyProofs ----------------------------
(* What PolicyChanges checks on every situation, proved.                     *)
EXTENDS PolicyChanges, TLAPS

SituationOK == situation \in Situations

\* What callers change are legal situations.
LEMMA SituationsKept == PolicySpec => []SituationOK
<1>1. PolicyInit => SituationOK
  BY DEF PolicyInit, SituationOK
<1>2. SituationOK /\ [PolicyNext]_situation => SituationOK'
  BY DEF SituationOK, PolicyNext, Withdraw, Govern, Reclassify, Situations, RiskClasses, ExecutionModes
<1> QED
  BY <1>1, <1>2, PTL DEF PolicySpec

\* Each kind of tightening never lowers the severity of the decision.
LEMMA TighteningStep ==
    ASSUME situation \in Situations, situation' \in Situations, PolicyNext
    PROVE  Severity(Decision(situation')) >= Severity(Decision(situation))
<1> USE DEF Situations, RiskClasses, ExecutionModes, Decision, Evaluate, BuildContext, MutationType,
            IsDenied, NeedsReview, NeedsApproval, Severity
<1>1. CASE Withdraw
  BY <1>1 DEF Withdraw
<1>2. CASE Govern
  BY <1>2 DEF Govern
<1>3. CASE Reclassify
  BY <1>3 DEF Reclassify, RiskLevel
<1> QED
  BY <1>1, <1>2, <1>3 DEF PolicyNext

\* Adding a reason for caution never makes evaluate_execution_policy laxer.
THEOREM Tightening == PolicySpec => TighteningNeverRelaxes
<1>1. SituationOK /\ SituationOK' /\ [PolicyNext]_situation
        => [Severity(Decision(situation')) >= Severity(Decision(situation))]_situation
  BY TighteningStep DEF SituationOK
<1> QED
  BY <1>1, SituationsKept, PTL DEF PolicySpec, TighteningNeverRelaxes

\* The execution mode bypasses neither a denial nor a human review.
THEOREM ModeHasNoSay == PolicySpec => []ModeBypassesNothing
<1>1. SituationOK => ModeBypassesNothing
  BY DEF SituationOK, ModeBypassesNothing, Situations, RiskClasses, ExecutionModes, Decision, Evaluate,
         BuildContext, MutationType, IsDenied, NeedsReview, NeedsApproval
<1> QED
  BY <1>1, SituationsKept, PTL
=============================================================================
