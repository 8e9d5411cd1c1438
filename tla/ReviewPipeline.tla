--------------------------- MODULE ReviewPipeline ---------------------------
(***************************************************************************)
(* One analysis of backend/services/workflow_service.py: the nodes of the  *)
(* graph that build_fireai_workflow lays out, run one after the other, the *)
(* gate at which a human reviews the design, and the decisions about it.   *)
(* A room is what the nodes tell apart: whether its occupancy is known, it *)
(* has an area, and a detector can be selected for it.                     *)
(***************************************************************************)
EXTENDS Naturals

VARIABLES
    file,               \* "missing", "unreadable" or "readable"
    rooms,              \* state["rooms"]; before parse, what the file holds
    node,               \* the next node
    parseSuccess,
    validationPassed,
    nfpaResults,        \* the rooms analysed
    hasCriticalConflicts,
    reviewRequired,
    reviewerDecision,
    interrupt,          \* is the graph compiled with interrupt_before?
    wfStatus,
    report              \* is there a report?

pipelineVars == <<file, rooms, node, parseSuccess, validationPassed, nfpaResults,
                  hasCriticalConflicts, reviewRequired, reviewerDecision,
                  interrupt, wfStatus, report>>

Rooms == [known : BOOLEAN, sized : BOOLEAN, selectable : BOOLEAN]

Nodes == {"initialize", "parse", "validate", "nfpa_analysis", "conflict_detection",
          "human_review_gate", "generate_report", "end"}

\* Nothing sets ERROR, and STUCK is the watchdog's word.
WorkflowStatuses == {"PENDING", "RUNNING", "AWAITING_REVIEW", "APPROVED",
                     "REJECTED", "COMPLETED", "FAILED"}

PipelineTypeOK ==
    /\ file \in {"missing", "unreadable", "readable"}
    /\ rooms \in SUBSET Rooms
    /\ node \in Nodes
    /\ parseSuccess \in BOOLEAN
    /\ validationPassed \in BOOLEAN
    /\ nfpaResults \in SUBSET Rooms
    /\ hasCriticalConflicts \in BOOLEAN
    /\ reviewRequired \in BOOLEAN
    /\ reviewerDecision \in {"none", "approved", "rejected"}
    /\ interrupt \in BOOLEAN
    /\ wfStatus \in WorkflowStatuses
    /\ report \in BOOLEAN

\* The initial_state of start_workflow, without or with skip_human_review.
PipelineInit ==
    /\ file \in {"missing", "unreadable", "readable"}
    /\ rooms \in SUBSET Rooms
    /\ node = "initialize"
    /\ parseSuccess = FALSE
    /\ validationPassed = FALSE
    /\ nfpaResults = {}
    /\ hasCriticalConflicts = FALSE
    /\ reviewRequired = FALSE
    /\ reviewerDecision = "none"
    /\ interrupt \in BOOLEAN
    /\ wfStatus = "PENDING"
    /\ report = FALSE

\* A file that is missing fails the run, and the run goes on.
Initialize ==
    /\ node = "initialize"
    /\ node' = "parse"
    /\ wfStatus' = IF file = "missing" THEN "FAILED" ELSE "RUNNING"
    /\ UNCHANGED <<file, rooms, parseSuccess, validationPassed, nfpaResults,
                   hasCriticalConflicts, reviewRequired, reviewerDecision, interrupt, report>>

\* node_parse, then should_proceed_after_parse.
Parse ==
    /\ node = "parse"
    /\ parseSuccess' = (file = "readable" /\ rooms # {})
    /\ rooms' = IF file = "readable" THEN rooms ELSE {}
    /\ wfStatus' = IF parseSuccess' THEN wfStatus ELSE "FAILED"
    /\ node' = IF parseSuccess' THEN "validate" ELSE "generate_report"
    /\ UNCHANGED <<file, validationPassed, nfpaResults, hasCriticalConflicts,
                   reviewRequired, reviewerDecision, interrupt, report>>

\* node_validate, then should_proceed_after_validation.  Unknown occupancy is
\* noted but passes, and so do duplicate names.  Rooms of absurd size fail like
\* rooms without one.  The two nodes that follow only add context.
Validate ==
    /\ node = "validate"
    /\ validationPassed' = \A r \in rooms : r.sized
    /\ node' = IF validationPassed' THEN "nfpa_analysis" ELSE "generate_report"
    /\ UNCHANGED <<file, rooms, parseSuccess, nfpaResults, hasCriticalConflicts,
                   reviewRequired, reviewerDecision, interrupt, wfStatus, report>>

Analyse ==
    /\ node = "nfpa_analysis"
    /\ nfpaResults' = rooms
    /\ node' = "conflict_detection"
    /\ UNCHANGED <<file, rooms, parseSuccess, validationPassed, hasCriticalConflicts,
                   reviewRequired, reviewerDecision, interrupt, wfStatus, report>>

Unprotected(r) == ~r.known \/ ~r.selectable

\* node_conflict_detection, then should_require_review: a room without a
\* detector is a critical conflict.  The smoke detector in a kitchen, the other
\* critical one, has been replaced by then.
Detect ==
    /\ node = "conflict_detection"
    /\ hasCriticalConflicts' = \E r \in nfpaResults : Unprotected(r)
    /\ node' = IF reviewRequired THEN "human_review_gate" ELSE "generate_report"
    /\ UNCHANGED <<file, rooms, parseSuccess, validationPassed, nfpaResults,
                   reviewRequired, reviewerDecision, interrupt, wfStatus, report>>

\* node_human_review_gate, then should_proceed_after_review.  A graph that is
\* compiled with interrupt_before stops in front of it.
Gate ==
    /\ node = "human_review_gate" /\ ~interrupt
    /\ reviewRequired' = (hasCriticalConflicts \/ \E r \in nfpaResults : ~r.known)
    /\ wfStatus' = IF reviewRequired' THEN "AWAITING_REVIEW" ELSE wfStatus
    /\ node' = IF reviewerDecision = "approved" THEN "generate_report" ELSE "end"
    /\ UNCHANGED <<file, rooms, parseSuccess, validationPassed, nfpaResults,
                   hasCriticalConflicts, reviewerDecision, interrupt, report>>

\* Mutant: the status of a report whose rooms lack a detector is not looked at.
GenerateReportUnchecked ==
    /\ node = "generate_report"
    /\ report' = TRUE
    /\ wfStatus' = "COMPLETED"
    /\ node' = "end"
    /\ UNCHANGED <<file, rooms, parseSuccess, validationPassed, nfpaResults,
                   hasCriticalConflicts, reviewRequired, reviewerDecision, interrupt>>

\* node_generate_report.  The status it was given is not looked at.
GenerateReport ==
    /\ node = "generate_report"
    /\ report' = TRUE
    /\ wfStatus' = IF \E r \in nfpaResults : ~r.known THEN "FAILED"
                   ELSE IF hasCriticalConflicts THEN "REJECTED" ELSE "COMPLETED"
    /\ node' = "end"
    /\ UNCHANGED <<file, rooms, parseSuccess, validationPassed, nfpaResults,
                   hasCriticalConflicts, reviewRequired, reviewerDecision, interrupt>>

\* _run_graph: a node raises, and the state it returns is the initial one.
NodeRaises ==
    /\ node \notin {"end", "human_review_gate"}
    /\ node' = "end"
    /\ wfStatus' = "FAILED"
    /\ parseSuccess' = FALSE /\ validationPassed' = FALSE
    /\ rooms' = {} /\ nfpaResults' = {}
    /\ hasCriticalConflicts' = FALSE
    /\ UNCHANGED <<file, reviewRequired, reviewerDecision, interrupt, report>>

\* approve_workflow.  It invokes the graph with a state, that is from its entry.
ApproveWorkflow ==
    /\ wfStatus = "AWAITING_REVIEW"
    /\ reviewerDecision' = "approved"
    /\ wfStatus' = "APPROVED"
    /\ node' = "initialize"
    /\ UNCHANGED <<file, rooms, parseSuccess, validationPassed, nfpaResults,
                   hasCriticalConflicts, reviewRequired, interrupt, report>>

\* reject_workflow.
RejectWorkflow ==
    /\ wfStatus = "AWAITING_REVIEW"
    /\ reviewerDecision' = "rejected"
    /\ wfStatus' = "REJECTED"
    /\ UNCHANGED <<file, rooms, node, parseSuccess, validationPassed, nfpaResults,
                   hasCriticalConflicts, reviewRequired, interrupt, report>>

\* All that is ever reached: the gate is not, so that there is no decision either.
PipelineNext ==
    Initialize \/ Parse \/ Validate \/ Analyse \/ Detect \/ GenerateReport \/ NodeRaises

ReviewNext == PipelineNext \/ Gate \/ ApproveWorkflow \/ RejectWorkflow

ReviewSpec == PipelineInit /\ [][ReviewNext]_pipelineVars

-----------------------------------------------------------------------------
(* Properties                                                               *)

\* Although nobody reviews it, a design that was analysed is COMPLETED only if
\* every room of the file has a detector.
CompletedDesignProtects ==
    wfStatus = "COMPLETED" /\ validationPassed => \A r \in rooms : ~Unprotected(r)

\* start_workflow of the router: "If critical issues are found (unknown rooms,
\* missing detectors), the workflow pauses at the Human Review Gate and must be
\* explicitly approved or rejected before proceeding" (routers/workflow.py 215).
\* What routes to the gate is review_required, which only the gate sets.
CriticalIssuesAreReviewed ==
    report /\ (\E r \in nfpaResults : Unprotected(r)) => reviewerDecision = "approved"
=============================================================================
