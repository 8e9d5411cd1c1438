----------------------------- MODULE MCAgentRun -----------------------------
(* AgentRun with plans of ordinary, governed and denied steps.               *)
EXTENDS AgentRun, TLC

Context(risk, denied) ==
    BuildContext([authenticated |-> TRUE, known |-> TRUE, risk |-> risk,
                  scoped |-> TRUE, denied |-> denied, governanceReview |-> FALSE,
                  requireAll |-> FALSE, mode |-> "AUTO"])

Ordinary == Context("MEDIUM", FALSE)
Engineering == Context("HIGH", FALSE)
Critical == Context("CRITICAL", FALSE)
Forbidden == Context("LOW", TRUE)

MCOrdinaryFirst == <<Ordinary, Engineering>>
MCGovernedFirst == <<Critical, Ordinary>>
MCDeniedLast == <<Engineering, Forbidden>>

\* What a run may be created with.  Only the first plan can be COMPLETED.
MCPlans == {MCOrdinaryFirst, MCDeniedLast}
MCOrdinaryPlan == {MCOrdinaryFirst}
MCGovernedPlan == {MCGovernedFirst}

Symmetry == Permutations(Threads)
=============================================================================
