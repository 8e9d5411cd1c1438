---------------------------- MODULE RunLifecycle ----------------------------
(***************************************************************************)
(* The lifecycle of an agent run: RunStatus, VALID_TRANSITIONS and the     *)
(* approval statuses of backend/core/agent_run_store.py.                   *)
(***************************************************************************)

\* "ABSENT" stands for a run that has no row yet.
Statuses == {"ABSENT", "PLANNING", "READY", "RUNNING", "WAITING_APPROVAL",
             "PAUSED", "FAILED", "CANCELLED", "COMPLETED"}

TerminalStatuses == {"CANCELLED", "COMPLETED"}

ValidTransitions == [
    ABSENT           |-> {},
    PLANNING         |-> {"READY", "FAILED", "CANCELLED"},
    READY            |-> {"RUNNING", "CANCELLED", "FAILED"},
    RUNNING          |-> {"WAITING_APPROVAL", "PAUSED", "FAILED", "CANCELLED", "COMPLETED"},
    WAITING_APPROVAL |-> {"RUNNING", "FAILED", "CANCELLED", "PAUSED"},
    PAUSED           |-> {"RUNNING", "CANCELLED", "FAILED"},
    FAILED           |-> {"RUNNING", "CANCELLED"},
    CANCELLED        |-> {},
    COMPLETED        |-> {}]

\* validate_transition
CanMove(from, to) == to \in ValidTransitions[from]

\* "FREE": the row does not exist yet.  Nobody expires an approval: it is
\* created without expires_at.
ApprovalStatuses == {"FREE", "PENDING", "APPROVED", "REJECTED", "CANCELLED"}
=============================================================================
