------------------------ MODULE ReviewPipelineProofs ------------------------
(***************************************************************************)
(* Proofs about ReviewPipeline, for every file: the review gate is in no   *)
(* run's way, and what protects a design that nobody reviews is the status *)
(* the report gives it.                                                    *)
(***************************************************************************)
EXTENDS ReviewPipeline, TLAPS

\* Before the gate has run nothing says that a review is required, and without
\* that nothing leads to the gate.
GateUnused ==
    /\ ~reviewRequired
    /\ node # "human_review_gate"
    /\ wfStatus # "AWAITING_REVIEW"

\* What the nodes before the report have established when it is their turn.
NodesInOrder ==
    /\ node \in {"initialize", "parse", "validate"} => ~validationPassed
    /\ node = "conflict_detection" => nfpaResults = rooms
    /\ node = "generate_report" /\ validationPassed =>
          /\ nfpaResults = rooms
          /\ hasCriticalConflicts = (\E r \in rooms : Unprotected(r))
    /\ wfStatus = "COMPLETED" => node = "end"

PipelineInv == PipelineTypeOK /\ GateUnused /\ NodesInOrder /\ CompletedDesignProtects

LEMMA InitInv == PipelineInit => PipelineInv
BY DEF PipelineInit, PipelineInv, PipelineTypeOK, GateUnused, NodesInOrder,
       CompletedDesignProtects, Nodes, WorkflowStatuses

\* The gate and the decisions about it are not enabled where it is unused.
LEMMA GateIsDead == GateUnused => ~Gate /\ ~ApproveWorkflow /\ ~RejectWorkflow
BY DEF GateUnused, Gate, ApproveWorkflow, RejectWorkflow

LEMMA StepInv == PipelineInv /\ [ReviewNext]_pipelineVars => PipelineInv'
<1> SUFFICES ASSUME PipelineInv, [ReviewNext]_pipelineVars PROVE PipelineInv'
  OBVIOUS
<1> USE DEF PipelineInv, PipelineTypeOK, GateUnused, NodesInOrder, CompletedDesignProtects,
            Nodes, WorkflowStatuses
<1>1. CASE Initialize
  BY <1>1 DEF Initialize
<1>2. CASE Parse
  BY <1>2 DEF Parse
<1>3. CASE Validate
  BY <1>3 DEF Validate
<1>4. CASE Analyse
  BY <1>4 DEF Analyse
<1>5. CASE Detect
  BY <1>5 DEF Detect
<1>6. CASE GenerateReport
  <2>1. \A r \in Rooms : ~r.known => Unprotected(r)
    BY DEF Unprotected
  <2> QED
    BY <1>6, <2>1 DEF GenerateReport
<1>7. CASE NodeRaises
  BY <1>7 DEF NodeRaises
<1>8. CASE UNCHANGED pipelineVars
  <2>1. PipelineTypeOK' /\ GateUnused'
    BY <1>8 DEF pipelineVars
  <2>2. NodesInOrder' /\ CompletedDesignProtects'
    BY <1>8, Zenon DEF pipelineVars, Unprotected
  <2> QED
    BY <2>1, <2>2
<1> QED
  BY <1>1, <1>2, <1>3, <1>4, <1>5, <1>6, <1>7, <1>8, GateIsDead DEF ReviewNext, PipelineNext

LEMMA Invariance == ReviewSpec => []PipelineInv
BY InitInv, StepInv, PTL DEF ReviewSpec

\* PipelineTypeOK, for every file and with or without the interrupt.
THEOREM TypeCorrect == ReviewSpec => []PipelineTypeOK
<1>1. PipelineInv => PipelineTypeOK
  BY DEF PipelineInv
<1> QED
  BY <1>1, Invariance, PTL

\* A design that passed validation is COMPLETED only with a detector in every room.
THEOREM CompletedIsProtected == ReviewSpec => []CompletedDesignProtects
<1>1. PipelineInv => CompletedDesignProtects
  BY DEF PipelineInv
<1> QED
  BY <1>1, Invariance, PTL

\* Whatever the file, skip_human_review or not: the service with its gate does
\* no step that the service without one would not do.
THEOREM NobodyReviews == ReviewSpec => [][PipelineNext]_pipelineVars
<1>1. PipelineInv /\ [ReviewNext]_pipelineVars => [PipelineNext]_pipelineVars
  BY GateIsDead DEF PipelineInv, ReviewNext
<1> QED
  BY <1>1, Invariance, PTL DEF ReviewSpec
=============================================================================
