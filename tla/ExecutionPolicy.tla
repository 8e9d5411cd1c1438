-------------------------- MODULE ExecutionPolicy --------------------------
(***************************************************************************)
(* build_policy_context and evaluate_execution_policy of                   *)
(* backend/core/execution_policy.py.  The context keeps what the decision  *)
(* depends on; the reasons given with it are left out.                     *)
(***************************************************************************)
EXTENDS Naturals

RiskClasses == {"LOW", "MEDIUM", "HIGH", "ENGINEERING_MUTATION", "CRITICAL",
                "SAFETY_CRITICAL", "UNKNOWN"}

MutationTypes == {"READ_ONLY", "REVERSIBLE_MUTATION", "ENGINEERING_MUTATION",
                  "SAFETY_CRITICAL"}

ExecutionModes == {"AUTO", "STEP_BY_STEP"}

PolicyResults == {"AUTO_APPROVED", "REQUIRES_APPROVAL", "MANDATORY_HUMAN_REVIEW", "DENIED"}

\* A risk class nobody knows counts as an engineering mutation.
MutationType(risk) ==
    CASE risk \in {"CRITICAL", "SAFETY_CRITICAL"} -> "SAFETY_CRITICAL"
      [] risk = "MEDIUM" -> "REVERSIBLE_MUTATION"
      [] risk = "LOW" -> "READ_ONLY"
      [] OTHER -> "ENGINEERING_MUTATION"

\* What a caller brings: its principal, the registered capability and the
\* governance policy of the plan.
Situations == [authenticated : BOOLEAN, known : BOOLEAN, risk : RiskClasses,
               scoped : BOOLEAN,             \* holds every required scope
               denied : BOOLEAN,             \* deniedCapabilities
               governanceReview : BOOLEAN,   \* mandatoryReviewCapabilities
               requireAll : BOOLEAN,         \* requireApprovalForAllMutations
               mode : ExecutionModes]

\* build_policy_context without overrides.  An unknown capability requires
\* no scope and has risk class UNKNOWN.
BuildContext(s) ==
    LET mutation == MutationType(IF s.known THEN s.risk ELSE "UNKNOWN")
    IN [authenticated    |-> s.authenticated,
        known            |-> s.known,
        scoped           |-> s.known => s.scoped,
        denied           |-> s.denied,
        governanceReview |-> s.governanceReview,
        requireAll       |-> s.requireAll,
        mode             |-> s.mode,
        mutation         |-> mutation,
        reversible       |-> mutation \in {"READ_ONLY", "REVERSIBLE_MUTATION"},
        mandatoryReview  |-> mutation = "SAFETY_CRITICAL"]

Contexts == [authenticated : BOOLEAN, known : BOOLEAN, scoped : BOOLEAN,
             denied : BOOLEAN, governanceReview : BOOLEAN, requireAll : BOOLEAN,
             mode : ExecutionModes, mutation : MutationTypes,
             reversible : BOOLEAN, mandatoryReview : BOOLEAN]

IsDenied(c) == ~c.authenticated \/ ~c.known \/ c.denied \/ ~c.scoped

\* That production makes a safety-critical mutation need review adds nothing
\* to the second disjunct.
NeedsReview(c) ==
    c.mandatoryReview \/ c.mutation = "SAFETY_CRITICAL" \/ c.governanceReview

NeedsApproval(c) ==
    \/ c.mode = "STEP_BY_STEP"
    \/ c.requireAll
    \/ ~c.reversible
    \/ c.mutation = "ENGINEERING_MUTATION"

\* Mutant: the step-by-step mode is looked at before the mandatory review.
EvaluateModeFirst(c) ==
    IF IsDenied(c) THEN "DENIED"
    ELSE IF c.mode = "STEP_BY_STEP" /\ c.mutation # "READ_ONLY" THEN "REQUIRES_APPROVAL"
    ELSE IF NeedsReview(c) THEN "MANDATORY_HUMAN_REVIEW"
    ELSE IF c.mutation = "READ_ONLY" THEN "AUTO_APPROVED"
    ELSE IF NeedsApproval(c) THEN "REQUIRES_APPROVAL"
    ELSE "AUTO_APPROVED"

\* Mutant: a missing scope is turned into an approval request.
EvaluateScopeLast(c) ==
    IF ~c.authenticated \/ ~c.known \/ c.denied THEN "DENIED"
    ELSE IF NeedsReview(c) THEN "MANDATORY_HUMAN_REVIEW"
    ELSE IF c.mutation = "READ_ONLY" THEN "AUTO_APPROVED"
    ELSE IF NeedsApproval(c) \/ ~c.scoped THEN "REQUIRES_APPROVAL"
    ELSE "AUTO_APPROVED"

\* Safety dominates convenience: the order of the tests is the precedence.
Evaluate(c) ==
    IF IsDenied(c) THEN "DENIED"
    ELSE IF NeedsReview(c) THEN "MANDATORY_HUMAN_REVIEW"
    ELSE IF c.mutation = "READ_ONLY" THEN "AUTO_APPROVED"
    ELSE IF NeedsApproval(c) THEN "REQUIRES_APPROVAL"
    ELSE "AUTO_APPROVED"

Decision(s) == Evaluate(BuildContext(s))
=============================================================================
