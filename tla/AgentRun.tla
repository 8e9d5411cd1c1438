------------------------------ MODULE AgentRun ------------------------------
(***************************************************************************)
(* One agent run of backend/core/agent_run_orchestrator.py over the store  *)
(* of backend/core/agent_run_store.py and the command bus.                 *)
(*                                                                         *)
(* Every lifecycle operation runs in a thread of its own and is a series   *)
(* of database transactions: one action each.  The thread's decisions      *)
(* between two transactions use the snapshot it holds and are merged with  *)
(* the transaction that read it.  A read whose result nothing uses is left *)
(* out.  Requests that are refused at once change nothing and are no step. *)
(* The steps of the plan are numbered in plan order.                       *)
(***************************************************************************)
EXTENDS Naturals, RunLifecycle, ExecutionPolicy

CONSTANTS Threads,
          StepCount,     \* number of steps in the plan
          Plans,         \* the plans a run may be created with
          MaxOperations, \* bound: lifecycle operations started
          MaxRevision,   \* bound: revisions other writers leave behind
          MaxVersion     \* bound: versions at which a loop starts a step

Steps == 1..StepCount

ASSUME AgentRunAssumption ==
    /\ StepCount \in Nat \ {0}
    /\ Plans \subseteq [Steps -> Contexts]
    /\ MaxOperations \in Nat
    /\ MaxRevision \in Nat \ {0}
    /\ MaxVersion \in Nat

VARIABLES run,       \* the row of agent_runs
          plan,      \* its plan: the policy context of each step
          approvals, \* the rows of pending_approvals, in the order created
          revision,  \* the project's canonical revision; 0: it was deleted
          ledger,    \* committed revision of each step's command; 0: none
          operations,\* operations started so far
          pc,        \* where each thread is
          snap,      \* the AgentRun object it holds
          step,      \* the step it works on; 0: none
          expected,  \* expected_revision for the command; 0: not given
          approval   \* the approval it works on; 0: none

dbVars == <<run, plan, approvals, revision, ledger>>
threadVars == <<pc, snap, step, expected, approval>>
vars == <<dbVars, operations, threadVars>>

\* _evaluate_step_policy: the same on every evaluation, for the plan binds
\* the owner's scopes and the governance policy.
Policy(s) == Evaluate(plan[s])
Governed(s) == Policy(s) \in {"REQUIRES_APPROVAL", "MANDATORY_HUMAN_REVIEW"}

\* An operation creates at most one approval.
ApprovalIds == 1..MaxOperations

\* lastRevision is recovery_state["last_completed_revision"], failedStep the
\* step of the last entry of failed_steps, pending the pending_approval_id.
RunRow == [status : Statuses, version : Nat, completed : SUBSET Steps,
           pending : {0} \cup ApprovalIds, failedStep : {0} \cup Steps,
           lastRevision : Nat]

ApprovalRow == [step : {0} \cup Steps, revision : Nat, status : ApprovalStatuses]

Places == {"idle", "ready", "advance", "running", "progress", "policy", "check",
           "readRevision", "lookup", "precheck", "commit", "record", "fail",
           "finalize", "approvalRevision", "approvalLookup", "createApproval",
           "wait", "pause", "cancelApprovals", "cancel", "resumeApproval",
           "recover", "resumeRevision", "unpause", "retryRevision", "retry",
           "decideRevision", "decideStale", "claim", "reject", "approve", "approved"}

TypeOK ==
    /\ run \in RunRow
    /\ plan \in Plans
    /\ approvals \in [ApprovalIds -> ApprovalRow]
    /\ revision \in Nat
    /\ ledger \in [Steps -> Nat]
    /\ operations \in Nat
    /\ pc \in [Threads -> Places]
    /\ snap \in [Threads -> RunRow]
    /\ step \in [Threads -> {0} \cup Steps]
    /\ expected \in [Threads -> Nat]
    /\ approval \in [Threads -> {0} \cup ApprovalIds]

NoRun == [status |-> "ABSENT", version |-> 0, completed |-> {}, pending |-> 0,
          failedStep |-> 0, lastRevision |-> 0]

NoApproval == [step |-> 0, revision |-> 0, status |-> "FREE"]

Init ==
    /\ run = NoRun
    /\ plan \in Plans
    /\ approvals = [a \in ApprovalIds |-> NoApproval]
    /\ revision = 1
    /\ ledger = [s \in Steps |-> 0]
    /\ operations = 0
    /\ pc = [t \in Threads |-> "idle"]
    /\ snap = [t \in Threads |-> NoRun]
    /\ step = [t \in Threads |-> 0]
    /\ expected = [t \in Threads |-> 0]
    /\ approval = [t \in Threads |-> 0]

-----------------------------------------------------------------------------
(* The transactions of the store.                                           *)

\* transition_run: the new row keeps what the call does not set.  Without
\* expected_version the CAS compares with the version read in the same
\* transaction, so only the transition table guards the write.
Transition(to, row) ==
    /\ CanMove(run.status, to)
    /\ run' = [row EXCEPT !.status = to, !.version = run.version + 1]

\* InvalidTransitionError
Illegal(to) == ~CanMove(run.status, to) /\ UNCHANGED run

\* Mutant: the UPDATE has lost its "AND version = ?".
UpdateProgressUnguarded(t, row) ==
    run' = [row EXCEPT !.version = run.version + 1]

\* update_progress: compare-and-swap on the version of the snapshot alone.
UpdateProgress(t, row) ==
    /\ run.version = snap[t].version
    /\ run' = [row EXCEPT !.version = run.version + 1]

\* RunConcurrencyConflictError
Conflict(t) == run.version # snap[t].version /\ UNCHANGED run

\* The recovery_state of the caller's snapshot replaces the stored one.
WithRecoveryOf(t) == [run EXCEPT !.lastRevision = snap[t].lastRevision]

PendingFor(s) == {a \in ApprovalIds :
                    approvals[a].step = s /\ approvals[a].status = "PENDING"}

RowsFor(s) == {a \in ApprovalIds :
                    approvals[a].step = s /\ approvals[a].status # "FREE"}

-----------------------------------------------------------------------------
(* The thread.                                                              *)

At(t, where) == pc[t] = where

Goto(t, where) ==
    /\ pc' = [pc EXCEPT ![t] = where]
    /\ UNCHANGED <<snap, step, expected, approval>>

\* The operation ends, by a return or by an exception: its locals are gone.
Return(t) ==
    /\ pc' = [pc EXCEPT ![t] = "idle"]
    /\ snap' = [snap EXCEPT ![t] = NoRun]
    /\ step' = [step EXCEPT ![t] = 0]
    /\ expected' = [expected EXCEPT ![t] = 0]
    /\ approval' = [approval EXCEPT ![t] = 0]

Begin(t) ==
    /\ At(t, "idle")
    /\ operations < MaxOperations
    /\ operations' = operations + 1

\* The operation holds the row it has just read.
Hold(t, where) ==
    /\ snap' = [snap EXCEPT ![t] = run]
    /\ pc' = [pc EXCEPT ![t] = where]
    /\ UNCHANGED <<step, expected, approval>>

\* A step of an operation that is under way and leaves approvals, revision
\* and ledger alone.
OnlyRun == UNCHANGED <<plan, approvals, revision, ledger, operations>>
ReadOnly == UNCHANGED <<dbVars, operations>>

-----------------------------------------------------------------------------
(* start_run                                                                *)

Start(t) ==
    /\ Begin(t)
    /\ run.status = "ABSENT"
    /\ run' = [NoRun EXCEPT !.status = "PLANNING", !.version = 1]
    /\ Goto(t, "ready")
    /\ UNCHANGED <<plan, approvals, revision, ledger>>

Ready(t) ==
    /\ At(t, "ready")
    /\ \/ Transition("READY", run) /\ Goto(t, "advance")
       \/ Illegal("READY") /\ Return(t)
    /\ OnlyRun

-----------------------------------------------------------------------------
(* _advance: the execution loop.                                            *)

Halted == {"WAITING_APPROVAL", "PAUSED", "FAILED", "CANCELLED", "COMPLETED"}

\* Mutant: any step that is not completed will do.
IsAnyStep(s) == s \notin run.completed

IsNextStep(s) ==
    /\ s \notin run.completed
    /\ \A earlier \in Steps : earlier < s => earlier \in run.completed

Advance(t) ==
    /\ At(t, "advance")
    /\ \/ run.status \in Halted /\ Return(t)
       \/ run.status = "READY" /\ Hold(t, "running")
       \/ /\ run.status \notin Halted \cup {"READY"}
          /\ \/ run.completed = Steps /\ Hold(t, "finalize")
             \/ \E s \in Steps :
                  /\ IsNextStep(s)
                  /\ step' = [step EXCEPT ![t] = s]
                  /\ snap' = [snap EXCEPT ![t] = run]
                  /\ pc' = [pc EXCEPT ![t] = "progress"]
                  /\ UNCHANGED <<expected, approval>>
    /\ ReadOnly

Running(t) ==
    /\ At(t, "running")
    /\ \/ Transition("RUNNING", run) /\ Goto(t, "advance")
       \/ Illegal("RUNNING") /\ Return(t)
    /\ OnlyRun

\* Mutant: the write that lost the race is tried again with the same version.
ProgressAgain(t) ==
    /\ At(t, "progress")
    /\ \/ UpdateProgress(t, run) /\ Goto(t, "policy")
       \/ Conflict(t) /\ Goto(t, "progress")
    /\ OnlyRun

\* current_step is set; nothing but displays reads it.  Two threads in the
\* loop can make each other lose Record forever, each new round raising the
\* version, so the rounds are bounded here.
Progress(t) ==
    /\ At(t, "progress")
    /\ \/ /\ run.version < MaxVersion
          /\ UpdateProgress(t, run)
          /\ Goto(t, "policy")
       \/ Conflict(t) /\ Return(t)
    /\ OnlyRun

\* Mutant: a denied step asks for an approval like any other that may not run.
EvaluatePolicyAsksAnyway(t) ==
    /\ At(t, "policy")
    /\ snap' = [snap EXCEPT ![t] = run]
    /\ pc' = [pc EXCEPT ![t] = IF Policy(step[t]) = "AUTO_APPROVED" THEN "check"
                               ELSE "approvalRevision"]
    /\ expected' = [expected EXCEPT ![t] = 0]
    /\ UNCHANGED <<step, approval>>
    /\ ReadOnly

\* update_progress re-reads the row in another transaction: the snapshot may
\* be newer than the write.  Then the policy decides.
EvaluatePolicy(t) ==
    /\ At(t, "policy")
    /\ snap' = [snap EXCEPT ![t] = run]
    /\ pc' = [pc EXCEPT ![t] = CASE Policy(step[t]) = "DENIED" -> "fail"
                                 [] Governed(step[t]) -> "approvalRevision"
                                 [] Policy(step[t]) = "AUTO_APPROVED" -> "check"]
    /\ expected' = [expected EXCEPT ![t] = 0]
    /\ UNCHANGED <<step, approval>>
    /\ ReadOnly

-----------------------------------------------------------------------------
(* _execute_step and CommandBus.execute                                     *)

\* A run that is no longer RUNNING makes the step fail, RUN_NO_LONGER_RUNNING.
Check(t) ==
    /\ At(t, "check")
    /\ Goto(t, CASE run.status # "RUNNING" -> "fail"
                 [] run.status = "RUNNING" /\ expected[t] = 0 -> "readRevision"
                 [] run.status = "RUNNING" /\ expected[t] # 0 -> "lookup")
    /\ ReadOnly

\* Without a revision the step fails, PROJECT_REVISION_NOT_FOUND.
ReadRevision(t) ==
    /\ At(t, "readRevision")
    /\ \/ revision = 0 /\ Goto(t, "fail")
       \/ /\ revision # 0
          /\ expected' = [expected EXCEPT ![t] = revision]
          /\ pc' = [pc EXCEPT ![t] = "lookup"]
          /\ UNCHANGED <<snap, step, approval>>
    /\ ReadOnly

\* The commandId is the run's and the step's, the payload the plan's: a step
\* that was committed is replayed.
Lookup(t) ==
    /\ At(t, "lookup")
    /\ Goto(t, IF ledger[step[t]] = 0 THEN "precheck" ELSE "record")
    /\ ReadOnly

\* The handler may fail.
Precheck(t) ==
    /\ At(t, "precheck")
    /\ \/ Goto(t, "fail")
       \/ revision = expected[t] /\ Goto(t, "commit")
    /\ ReadOnly

\* Mutant: command_id is not the primary key of the ledger.
CommitWithoutKey(t) ==
    /\ At(t, "commit")
    /\ \/ /\ revision # expected[t]
          /\ Goto(t, "fail")
          /\ UNCHANGED <<revision, ledger>>
       \/ /\ revision = expected[t]
          /\ revision' = expected[t] + 1
          /\ ledger' = [ledger EXCEPT ![step[t]] = expected[t] + 1]
          /\ Goto(t, "record")
    /\ UNCHANGED <<run, plan, approvals, operations>>

Commit(t) ==
    /\ At(t, "commit")
    /\ \/ /\ revision # expected[t]
          /\ Goto(t, "fail")
          /\ UNCHANGED <<revision, ledger>>
       \/ /\ revision = expected[t] /\ ledger[step[t]] # 0
          /\ Return(t)
          /\ UNCHANGED <<revision, ledger>>
       \/ /\ revision = expected[t] /\ ledger[step[t]] = 0
          /\ revision' = expected[t] + 1
          /\ ledger' = [ledger EXCEPT ![step[t]] = expected[t] + 1]
          /\ Goto(t, "record")
    /\ UNCHANGED <<run, plan, approvals, operations>>

\* _record_step_completion: after a conflict the completion is dropped, and
\* the loop goes on from the stored row.
Record(t) ==
    /\ At(t, "record")
    /\ \/ UpdateProgress(t, [run EXCEPT !.completed = snap[t].completed \cup {step[t]},
                                        !.lastRevision = ledger[step[t]]])
       \/ Conflict(t)
    /\ Goto(t, "advance")
    /\ OnlyRun

\* _fail_step, without a version: any status that may fail is overwritten.
Fail(t) ==
    /\ At(t, "fail")
    /\ \/ Transition("FAILED", [WithRecoveryOf(t) EXCEPT !.failedStep = step[t]])
       \/ Illegal("FAILED")
    /\ Return(t)
    /\ OnlyRun

\* _finalize_run
Finalize(t) ==
    /\ At(t, "finalize")
    /\ \/ Transition("COMPLETED", WithRecoveryOf(t))
       \/ Illegal("COMPLETED")
    /\ Return(t)
    /\ OnlyRun

-----------------------------------------------------------------------------
(* _request_approval                                                        *)

\* create_pending_approval stores 1 for a project that has no revision.
ApprovalRevision(t) ==
    /\ At(t, "approvalRevision")
    /\ expected' = [expected EXCEPT ![t] = IF revision = 0 THEN 1 ELSE revision]
    /\ pc' = [pc EXCEPT ![t] = "approvalLookup"]
    /\ UNCHANGED <<snap, step, approval>>
    /\ ReadOnly

\* get_pending_approval_for_step selects by run and step, whatever the status,
\* and takes one row: the oldest.
OldestFor(s, a) == a \in RowsFor(s) /\ \A b \in RowsFor(s) : a <= b

ApprovalLookup(t) ==
    /\ At(t, "approvalLookup")
    /\ \/ \E a \in ApprovalIds :
            /\ OldestFor(step[t], a) /\ approvals[a].status = "PENDING"
            /\ approval' = [approval EXCEPT ![t] = a]
            /\ pc' = [pc EXCEPT ![t] = "wait"]
            /\ UNCHANGED <<snap, step, expected>>
       \/ /\ \A a \in ApprovalIds :
                ~(OldestFor(step[t], a) /\ approvals[a].status = "PENDING")
          /\ Goto(t, "createApproval")
    /\ ReadOnly

\* The unique index on the pending approvals of a step raises IntegrityError.
CreateApproval(t) ==
    /\ At(t, "createApproval")
    /\ \/ /\ PendingFor(step[t]) # {}
          /\ Return(t)
          /\ UNCHANGED approvals
       \/ /\ PendingFor(step[t]) = {}
          /\ \E a \in ApprovalIds :
               /\ approvals[a].status = "FREE"
               /\ \A b \in ApprovalIds : b < a => approvals[b].status # "FREE"
               /\ approvals' = [approvals EXCEPT ![a] =
                     [step |-> step[t], revision |-> expected[t], status |-> "PENDING"]]
               /\ approval' = [approval EXCEPT ![t] = a]
          /\ pc' = [pc EXCEPT ![t] = "wait"]
          /\ UNCHANGED <<snap, step, expected>>
    /\ UNCHANGED <<run, plan, revision, ledger, operations>>

\* The only transition that passes expected_version.
Wait(t) ==
    /\ At(t, "wait")
    /\ \/ /\ run.version = snap[t].version
          /\ Transition("WAITING_APPROVAL",
                [WithRecoveryOf(t) EXCEPT !.pending = approval[t]])
       \/ /\ run.version # snap[t].version \/ ~CanMove(run.status, "WAITING_APPROVAL")
          /\ UNCHANGED run
    /\ Return(t)
    /\ OnlyRun

-----------------------------------------------------------------------------
(* pause_run and cancel_run                                                 *)

PauseBegin(t) ==
    /\ Begin(t)
    /\ run.status \in {"RUNNING", "WAITING_APPROVAL"}
    /\ Hold(t, "pause")
    /\ UNCHANGED dbVars

Pause(t) ==
    /\ At(t, "pause")
    /\ \/ Transition("PAUSED", WithRecoveryOf(t))
       \/ Illegal("PAUSED")
    /\ Return(t)
    /\ OnlyRun

CancelBegin(t) ==
    /\ Begin(t)
    /\ run.status \notin TerminalStatuses \cup {"ABSENT"}
    /\ Hold(t, "cancelApprovals")
    /\ UNCHANGED dbVars

CancelApprovals(t) ==
    /\ At(t, "cancelApprovals")
    /\ approvals' = [a \in ApprovalIds |->
                        IF approvals[a].status = "PENDING"
                        THEN [approvals[a] EXCEPT !.status = "CANCELLED"]
                        ELSE approvals[a]]
    /\ Goto(t, "cancel")
    /\ UNCHANGED <<run, plan, revision, ledger, operations>>

Cancel(t) ==
    /\ At(t, "cancel")
    /\ \/ Transition("CANCELLED", WithRecoveryOf(t))
       \/ Illegal("CANCELLED")
    /\ Return(t)
    /\ OnlyRun

-----------------------------------------------------------------------------
(* resume_run                                                               *)

ResumeBegin(t) ==
    /\ Begin(t)
    /\ \/ run.status = "WAITING_APPROVAL" /\ run.pending # 0 /\ Hold(t, "resumeApproval")
       \/ run.status = "WAITING_APPROVAL" /\ run.pending = 0 /\ Hold(t, "recover")
       \/ /\ run.status \in {"PAUSED", "RUNNING", "READY"}
          /\ Hold(t, CASE run.lastRevision # 0 -> "resumeRevision"
                       [] run.lastRevision = 0 /\ run.status = "PAUSED" -> "unpause"
                       [] run.lastRevision = 0 /\ run.status # "PAUSED" -> "advance")
    /\ UNCHANGED dbVars

\* A run that waits on a live approval is not resumed.
ResumeApproval(t) ==
    /\ At(t, "resumeApproval")
    /\ \/ approvals[snap[t].pending].status = "PENDING" /\ Return(t)
       \/ approvals[snap[t].pending].status # "PENDING" /\ Goto(t, "recover")
    /\ ReadOnly

Recover(t) ==
    /\ At(t, "recover")
    /\ \/ Transition("RUNNING", [WithRecoveryOf(t) EXCEPT !.pending = 0]) /\ Goto(t, "advance")
       \/ Illegal("RUNNING") /\ Return(t)
    /\ OnlyRun

\* The project must not be behind the run's completed work; int(None) of a
\* project without a revision raises, which also ends the operation.
ResumeRevision(t) ==
    /\ At(t, "resumeRevision")
    /\ \/ revision < snap[t].lastRevision /\ Return(t)
       \/ /\ revision >= snap[t].lastRevision
          /\ Goto(t, IF snap[t].status = "PAUSED" THEN "unpause" ELSE "advance")
    /\ ReadOnly

Unpause(t) ==
    /\ At(t, "unpause")
    /\ \/ Transition("RUNNING", WithRecoveryOf(t)) /\ Goto(t, "advance")
       \/ Illegal("RUNNING") /\ Return(t)
    /\ OnlyRun

-----------------------------------------------------------------------------
(* retry_run                                                                *)

RetryBegin(t) ==
    /\ Begin(t)
    /\ run.status = "FAILED"
    /\ Policy(run.failedStep) # "DENIED"
    /\ Hold(t, "retryRevision")
    /\ UNCHANGED dbVars

RetryRevision(t) ==
    /\ At(t, "retryRevision")
    /\ \/ revision < snap[t].lastRevision /\ Return(t)
       \/ revision >= snap[t].lastRevision /\ Goto(t, "retry")
    /\ ReadOnly

Retry(t) ==
    /\ At(t, "retry")
    /\ \/ Transition("RUNNING", WithRecoveryOf(t)) /\ Goto(t, "advance")
       \/ Illegal("RUNNING") /\ Return(t)
    /\ OnlyRun

-----------------------------------------------------------------------------
(* decide_approval                                                          *)

\* The approval's binding to the plan never changes, so it is checked with
\* the run's status and pending approval.
DecideBegin(t) ==
    /\ Begin(t)
    /\ run.status = "WAITING_APPROVAL" /\ run.pending # 0
    /\ snap' = [snap EXCEPT ![t] = run]
    /\ approval' = [approval EXCEPT ![t] = run.pending]
    /\ step' = [step EXCEPT ![t] = approvals[run.pending].step]
    /\ pc' = [pc EXCEPT ![t] = "decideRevision"]
    /\ UNCHANGED expected
    /\ UNCHANGED dbVars

\* The comparison raises when the project has no revision.
DecideRevision(t) ==
    /\ At(t, "decideRevision")
    /\ \/ revision = 0 /\ Return(t)
       \/ /\ revision \notin {0, approvals[approval[t]].revision}
          /\ Goto(t, "decideStale")
       \/ /\ revision # 0 /\ revision = approvals[approval[t]].revision
          /\ Goto(t, "claim")
    /\ ReadOnly

\* Mutant: the column gets a word that is no status.
ClaimUnknown(t, decision) ==
    /\ approvals[approval[t]].status = "PENDING"
    /\ approvals' = [approvals EXCEPT ![approval[t]].status = "DECIDED"]

\* decide_pending_approval claims the row while it is PENDING and appends the
\* decision in the same transaction; the status stands for both.
Claim(t, decision) ==
    /\ approvals[approval[t]].status = "PENDING"
    /\ approvals' = [approvals EXCEPT ![approval[t]].status = decision]

AlreadyDecided(t) ==
    /\ approvals[approval[t]].status # "PENDING"
    /\ UNCHANGED approvals

\* The project has moved on: the approval is rejected, the run left waiting.
DecideStale(t) ==
    /\ At(t, "decideStale")
    /\ Claim(t, "REJECTED") \/ AlreadyDecided(t)
    /\ Return(t)
    /\ UNCHANGED <<run, plan, revision, ledger, operations>>

Decide(t) ==
    /\ At(t, "claim")
    /\ \/ Claim(t, "APPROVED") /\ Goto(t, "approve")
       \/ Claim(t, "REJECTED") /\ Goto(t, "reject")
       \/ AlreadyDecided(t) /\ Return(t)
    /\ UNCHANGED <<run, plan, revision, ledger, operations>>

Reject(t) ==
    /\ At(t, "reject")
    /\ \/ Transition("FAILED", [WithRecoveryOf(t) EXCEPT !.failedStep = step[t], !.pending = 0])
       \/ Illegal("FAILED")
    /\ Return(t)
    /\ OnlyRun

Approve(t) ==
    /\ At(t, "approve")
    /\ \/ Transition("RUNNING", [WithRecoveryOf(t) EXCEPT !.pending = 0]) /\ Goto(t, "approved")
       \/ Illegal("RUNNING") /\ Return(t)
    /\ OnlyRun

\* Mutant: the approved revision is not passed on.
ApprovedUnbound(t) ==
    /\ At(t, "approved")
    /\ snap' = [snap EXCEPT ![t] = run]
    /\ expected' = [expected EXCEPT ![t] = 0]
    /\ pc' = [pc EXCEPT ![t] = "check"]
    /\ UNCHANGED <<step, approval>>
    /\ ReadOnly

\* transition_run re-reads the row; the step is executed at the revision that
\* was approved.
Approved(t) ==
    /\ At(t, "approved")
    /\ snap' = [snap EXCEPT ![t] = run]
    /\ expected' = [expected EXCEPT ![t] = approvals[approval[t]].revision]
    /\ pc' = [pc EXCEPT ![t] = "check"]
    /\ UNCHANGED <<step, approval>>
    /\ ReadOnly

-----------------------------------------------------------------------------
(* The environment.                                                         *)

\* The process restarts, or the thread dies: what is not in the database is lost.
Crash(t) ==
    /\ pc[t] # "idle"
    /\ Return(t)
    /\ ReadOnly

\* Other runs, commands, imports, manual edits and the deletion of the project:
\* they leave any revision or none, all that SharedLedger leaves them.
OtherWriter ==
    /\ \E r \in 0..MaxRevision : r # revision /\ revision' = r
    /\ UNCHANGED <<run, plan, approvals, ledger, operations, threadVars>>

Operation(t) ==
    \/ Start(t) \/ PauseBegin(t) \/ CancelBegin(t) \/ ResumeBegin(t)
    \/ RetryBegin(t) \/ DecideBegin(t)

Continue(t) ==
    \/ Ready(t) \/ Advance(t) \/ Running(t) \/ Progress(t) \/ EvaluatePolicy(t)
    \/ Check(t) \/ ReadRevision(t) \/ Lookup(t) \/ Precheck(t) \/ Commit(t)
    \/ Record(t) \/ Fail(t) \/ Finalize(t)
    \/ ApprovalRevision(t) \/ ApprovalLookup(t) \/ CreateApproval(t) \/ Wait(t)
    \/ Pause(t) \/ CancelApprovals(t) \/ Cancel(t)
    \/ ResumeApproval(t) \/ Recover(t) \/ ResumeRevision(t) \/ Unpause(t)
    \/ RetryRevision(t) \/ Retry(t)
    \/ DecideRevision(t) \/ DecideStale(t) \/ Decide(t) \/ Reject(t)
    \/ Approve(t) \/ Approved(t)

SteadyNext ==
    \/ \E t \in Threads : Operation(t) \/ Continue(t)
    \/ OtherWriter

Next == SteadyNext \/ \E t \in Threads : Crash(t)

Spec == Init /\ [][Next]_vars

\* The system while no thread is lost.
SteadySpec == Init /\ [][SteadyNext]_vars
\* A thread that runs keeps running.
Scheduled(t) == WF_vars(Continue(t))
FairSpec == Spec /\ \A t \in Threads : Scheduled(t)

-----------------------------------------------------------------------------
(* Safety.                                                                  *)

Committed == {s \in Steps : ledger[s] # 0}

\* A step is reported completed only when its command is in the ledger: no
\* stale snapshot, replay or lost race makes a run claim work it has not done.
CompletedWasCommitted == run.completed \subseteq Committed

\* A run that ends as COMPLETED has done its whole plan, although
\* _finalize_run writes without a version, on the word of an older snapshot.
CompletedRunIsWhole == run.status = "COMPLETED" => run.completed = Steps

\* The commands of a run are committed in plan order, whichever threads run
\* the loop, whatever is paused, approved, retried or resumed in between.
CommittedInPlanOrder ==
    \A s, earlier \in Steps : s \in Committed /\ earlier < s => earlier \in Committed

\* A governed step is committed only on an approval of that very step, still
\* recorded as APPROVED, and on top of the very revision that was approved; a
\* denied step never is (module docstring, "Auto Approval is NOT a safety
\* bypass" and "Approvals are bound server-side").
GovernedStepsAreApproved ==
    \A s \in Committed :
        /\ Policy(s) # "DENIED"
        /\ Governed(s) =>
              \E a \in ApprovalIds :
                  /\ approvals[a].step = s
                  /\ approvals[a].status = "APPROVED"
                  /\ ledger[s] = approvals[a].revision + 1

\* A committed step is replayed from the ledger, never committed again, even
\* when manual edits set the project back to the revision it started from.
CommittedOnce ==
    [][\A s \in Steps : ledger[s] # 0 => ledger'[s] = ledger[s]]_vars

\* A cancelled or completed run is frozen: no thread that still holds an
\* older snapshot changes its row, although update_progress checks no status.
TerminalRunIsFrozen ==
    [][run.status \in TerminalStatuses => run' = run]_vars

\* Progress is recorded only on a run that is RUNNING, and is never lost.
ProgressOnlyWhileRunning ==
    [][/\ run.completed \subseteq run'.completed
       /\ run'.completed # run.completed => run.status = "RUNNING"]_vars

\* What the policy asks of each step, and the steps that were approved.
PermissionOf == [s \in Steps |-> IF Policy(s) = "DENIED" THEN "never"
                                 ELSE IF Governed(s) THEN "approval" ELSE "none"]

ApprovedSteps ==
    {s \in Steps : \E a \in ApprovalIds :
                      approvals[a].step = s /\ approvals[a].status = "APPROVED"}

Plan == INSTANCE PlanExecution WITH permission <- PermissionOf, status <- run.status,
            approved <- ApprovedSteps, committed <- Committed, done <- run.completed

\* Whatever threads, stale snapshots, crashes and other writers do, a run is the
\* execution of its plan: approved, committed and completed step by step, in order,
\* along the transitions of its status.
PlanSpec == Plan!PlanSpec

\* What the run has in the ledger of the bus.
RunCommits == {[id |-> s, rev |-> ledger[s]] : s \in Committed}

View == INSTANCE SharedLedger WITH Commands <- Steps, committed <- RunCommits

\* The run is one client among the writers of its project: it commits each step
\* once, on the revision the project has, and takes any other change of the
\* revision as it comes.
RunSharesTheLedger == View!Spec

-----------------------------------------------------------------------------
(* Liveness, under FairSpec.                                                *)

LeavesTerminalRun(t) == run.status \in TerminalStatuses ~> pc[t] = "idle"

\* Once a run is cancelled or completed, every thread that still works on it
\* notices and returns: none waits for, or retries, what can no longer happen.
TerminalRunIsLeft == \A t \in Threads : LeavesTerminalRun(t)

\* Where the bound on the rounds of the loop, and nothing in the code, stops it.
AtBound(t) ==
    pc[t] = "progress" /\ run.version = snap[t].version /\ run.version >= MaxVersion

\* An operation under way can always go on: whatever the others have made of the
\* run, the project and the approvals since it looked, some branch of it applies.
NobodyIsStuck ==
    \A t \in Threads : pc[t] # "idle" /\ ~AtBound(t) => ENABLED <<Continue(t)>>_vars

\* The text of a doc that the code does not keep.

\* _request_approval "Reuses an existing LIVE (PENDING) approval for the same
\* run+step when one exists (e.g. resume after pause) instead of duplicating
\* it" (agent_run_orchestrator.py 438): a new row is asked for only when the
\* step has no live approval.
LiveApprovalIsReused ==
    \A t \in Threads : pc[t] = "createApproval" => PendingFor(step[t]) = {}

\* cancel_run: "Invalidate any pending approvals atomically with the
\* cancellation" (agent_run_orchestrator.py 508).
CancelledRunHasNoLiveApproval ==
    run.status = "CANCELLED" => \A a \in ApprovalIds : approvals[a].status # "PENDING"

\* _execute_step: "a concurrent cancel prevents unsafe commits"
\* (agent_run_orchestrator.py 284): a cancelled run commits nothing.
CancelPreventsCommit ==
    [][ledger' # ledger => run.status # "CANCELLED"]_vars
=============================================================================
