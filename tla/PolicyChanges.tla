--------------------------- MODULE PolicyChanges ---------------------------
(***************************************************************************)
(* A capability's situation while administrators only tighten it: scopes   *)
(* are revoked, the governance policy grows, the risk class is raised, the *)
(* mode becomes STEP_BY_STEP.  A run evaluates the policy of a step again  *)
(* whenever it comes back to it.                                           *)
(***************************************************************************)
EXTENDS ExecutionPolicy

VARIABLE situation

PolicyInit == situation \in Situations

\* How much a decision demands of the caller.
Severity(result) ==
    CASE result = "AUTO_APPROVED"          -> 0
      [] result = "REQUIRES_APPROVAL"      -> 1
      [] result = "MANDATORY_HUMAN_REVIEW" -> 2
      [] result = "DENIED"                 -> 3

\* Risk classes in the order of what they may do.
RiskLevel(risk) ==
    CASE risk = "LOW" -> 0
      [] risk = "MEDIUM" -> 1
      [] risk \in {"HIGH", "ENGINEERING_MUTATION", "UNKNOWN"} -> 2
      [] risk \in {"CRITICAL", "SAFETY_CRITICAL"} -> 3

Withdraw ==
    \/ situation' = [situation EXCEPT !.authenticated = FALSE]
    \/ situation' = [situation EXCEPT !.known = FALSE]
    \/ situation' = [situation EXCEPT !.scoped = FALSE]

Govern ==
    \/ situation' = [situation EXCEPT !.denied = TRUE]
    \/ situation' = [situation EXCEPT !.governanceReview = TRUE]
    \/ situation' = [situation EXCEPT !.requireAll = TRUE]
    \/ situation' = [situation EXCEPT !.mode = "STEP_BY_STEP"]

Reclassify ==
    \E risk \in RiskClasses :
        /\ RiskLevel(risk) >= RiskLevel(situation.risk)
        /\ situation' = [situation EXCEPT !.risk = risk]

PolicyNext == Withdraw \/ Govern \/ Reclassify

PolicySpec == PolicyInit /\ [][PolicyNext]_situation

\* However the rules of evaluate_execution_policy overlap, adding one more
\* reason for caution never yields a laxer decision than before.
TighteningNeverRelaxes ==
    [][Severity(Decision(situation')) >= Severity(Decision(situation))]_situation

\* "NEVER converted into an approval request" and "Auto Approval can NEVER
\* downgrade this result" (execution_policy.py 205-211): no approval stands in
\* for a scope the principal lacks, and the mode has no say in who is denied
\* or reviewed by a human.
ModeBypassesNothing ==
    LET inMode(m) == Decision([situation EXCEPT !.mode = m]) IN
    /\ situation.known /\ ~situation.scoped => Decision(situation) = "DENIED"
    /\ \A result \in {"DENIED", "MANDATORY_HUMAN_REVIEW"} :
          inMode("AUTO") = result <=> inMode("STEP_BY_STEP") = result
=============================================================================
