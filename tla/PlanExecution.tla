--------------------------- MODULE PlanExecution ---------------------------
(***************************************************************************)
(* What an agent run promises to the project it changes: the steps of its  *)
(* plan are committed once and in order, each one that is governed after   *)
(* somebody has approved it, and reported done only while the run is       *)
(* RUNNING.  The module knows no threads, versions, snapshots or           *)
(* revisions: AgentRun implements it.                                      *)
(***************************************************************************)
EXTENDS Naturals, RunLifecycle

CONSTANT Steps   \* numbers, in plan order

VARIABLES permission, \* what each step needs: "none", "approval" or "never"
          status,     \* of the run
          approved,   \* steps that were approved
          committed,  \* steps whose commands have changed the project
          done        \* steps the run reports completed

planVars == <<permission, status, approved, committed, done>>

Permissions == {"none", "approval", "never"}

PlanInit ==
    /\ permission \in [Steps -> Permissions]
    /\ status = "ABSENT"
    /\ approved = {} /\ committed = {} /\ done = {}

Earlier(s) == {e \in Steps : e < s}

\* The approval of a step is asked for, and given, when everything before it is done.
ApproveStep(s) ==
    /\ permission[s] = "approval"
    /\ Earlier(s) \subseteq done
    /\ approved' = approved \cup {s}
    /\ UNCHANGED <<permission, status, committed, done>>

CommitStep(s) ==
    /\ s \notin committed
    /\ Earlier(s) \subseteq done
    /\ permission[s] = "none" \/ (permission[s] = "approval" /\ s \in approved)
    /\ committed' = committed \cup {s}
    /\ UNCHANGED <<permission, status, approved, done>>

CompleteStep(s) ==
    /\ status = "RUNNING"
    /\ s \in committed
    /\ done' = done \cup {s}
    /\ UNCHANGED <<permission, status, approved, committed>>

\* A COMPLETED run has done the whole plan.
Move(to) ==
    /\ \/ status = "ABSENT" /\ to = "PLANNING"
       \/ CanMove(status, to)
    /\ to = "COMPLETED" => done = Steps
    /\ status' = to
    /\ UNCHANGED <<permission, approved, committed, done>>

PlanNext ==
    \/ \E s \in Steps : ApproveStep(s) \/ CommitStep(s) \/ CompleteStep(s)
    \/ \E to \in Statuses : Move(to)

PlanSpec == PlanInit /\ [][PlanNext]_planVars
=============================================================================
