--------------------------- MODULE AgentRunProofs ---------------------------
(***************************************************************************)
(* The properties of AgentRun for every plan and every number of threads   *)
(* and operations: safety, two refinements and, last, that the threads     *)
(* leave a run that is over.                                               *)
(*                                                                         *)
(* Effects(t) says what a step of thread t may do to the state that the    *)
(* threads share; ThreadOK(t) is what a thread knows at each of its        *)
(* places; DataOK is what holds of the shared state alone.  Every step of  *)
(* t has Effects(t) and keeps ThreadOK(t); Effects(t) alone keeps ThreadOK *)
(* of the other threads and DataOK.                                        *)
(***************************************************************************)
EXTENDS AgentRun, TLAPS

\* Where a thread executes its step, asks for an approval of it, or decides
\* on one; in all of these it works on a step.
ExecPlaces == {"readRevision", "lookup", "precheck", "commit", "record"}
RequestPlaces == {"approvalRevision", "approvalLookup", "createApproval", "wait"}
DecisionPlaces == {"decideRevision", "decideStale", "claim", "reject", "approve", "approved"}
WorkPlaces == {"progress", "policy", "check", "fail"}
                  \cup ExecPlaces \cup RequestPlaces \cup DecisionPlaces

\* Where a run need not have been started.
OuterPlaces == {"idle", "ready", "cancelApprovals", "cancel"}

Exists(a) == a \in ApprovalIds /\ approvals[a].status # "FREE"

DoneBefore(s) == \A earlier \in Steps : earlier < s => earlier \in run.completed

-----------------------------------------------------------------------------
\* The thread knows its step, and everything before it is done.
StepKnown(t) ==
    pc[t] \in WorkPlaces => step[t] \in Steps /\ DoneBefore(step[t])

\* The approval it decides on, or waits for, is one of its step.
ApprovalKnown(t) ==
    pc[t] \in DecisionPlaces \cup {"wait"} =>
        Exists(approval[t]) /\ approvals[approval[t]].step = step[t]

\* Its snapshot is never newer than the row, and is the row if its version is.
SnapshotAged(t) ==
    /\ snap[t].version <= run.version
    /\ snap[t].version = run.version => snap[t] = run

\* A compare-and-swap that succeeds finds the run still RUNNING.
StatusKnown(t) ==
    /\ pc[t] \notin OuterPlaces => run.status \notin {"ABSENT", "PLANNING"}
    /\ pc[t] \in ExecPlaces \cup {"progress"} /\ snap[t].version = run.version
          => run.status = "RUNNING"

CompletionKnown(t) ==
    /\ pc[t] = "record" => step[t] \in Committed
    /\ pc[t] = "finalize" => run.completed = Steps

\* The revision the step is executed on is the one that was approved for it.
Bound(t) ==
    /\ approval[t] \in ApprovalIds
    /\ approvals[approval[t]].step = step[t]
    /\ approvals[approval[t]].status = "APPROVED"
    /\ approvals[approval[t]].revision = expected[t]

PermissionKnown(t) ==
    /\ pc[t] \in RequestPlaces => Governed(step[t])
    /\ pc[t] \in {"approvalLookup", "createApproval"} => expected[t] # 0
    /\ pc[t] \in {"approve", "approved"} => approvals[approval[t]].status = "APPROVED"
    /\ pc[t] \in {"check"} \cup ExecPlaces =>
          Policy(step[t]) # "DENIED" /\ (Governed(step[t]) => Bound(t))
    /\ pc[t] = "readRevision" => ~Governed(step[t])

ThreadOK(t) ==
    /\ StepKnown(t)
    /\ ApprovalKnown(t)
    /\ SnapshotAged(t)
    /\ StatusKnown(t)
    /\ CompletionKnown(t)
    /\ PermissionKnown(t)

\* Every approval was asked for a governed step whose predecessors are done.
RowsOK ==
    /\ \A a \in ApprovalIds : Exists(a) =>
          /\ approvals[a].step \in Steps
          /\ DoneBefore(approvals[a].step)
          /\ Governed(approvals[a].step)
          /\ approvals[a].revision # 0
    /\ run.pending # 0 => Exists(run.pending)

RunOK ==
    /\ run.status = "ABSENT" => run = NoRun
    /\ run.version = 0 => run = NoRun

DataOK ==
    /\ RowsOK
    /\ RunOK
    /\ CompletedWasCommitted
    /\ CompletedRunIsWhole
    /\ CommittedInPlanOrder
    /\ GovernedStepsAreApproved

ThreadsOK == \A t \in Threads : ThreadOK(t)

IInv == TypeOK /\ DataOK /\ ThreadsOK

-----------------------------------------------------------------------------
\* What a step of thread t does to the row of the run, if anything.
RunEffect(t) ==
    \/ run' = run
    \/ /\ run.status \notin TerminalStatuses
       /\ run'.version = run.version + 1
       /\ run'.status # "ABSENT"
       /\ run'.status = "PLANNING" => run.status = "ABSENT"
       /\ run'.status = "COMPLETED" => pc[t] = "finalize"
       /\ \/ run'.status = run.status
          \/ run.status = "ABSENT" /\ run'.status = "PLANNING"
          \/ CanMove(run.status, run'.status)
       /\ \/ run'.completed = run.completed
          \/ /\ pc[t] = "record" /\ run.status = "RUNNING" /\ run'.status = "RUNNING"
             /\ run'.completed = run.completed \cup {step[t]}
       /\ pc[t] \notin {"commit", "claim"}
       /\ \/ run'.pending \in {0, run.pending}
          \/ pc[t] = "wait" /\ run'.pending = approval[t]

\* Only pending approvals change, and only their status; whoever approves one has
\* claimed it.
RowEffect(t, a) ==
    \/ approvals'[a] = approvals[a]
    \/ /\ approvals[a].status = "PENDING"
       /\ approvals'[a].status # "FREE"
       /\ approvals'[a].status = "APPROVED" => pc[t] = "claim" /\ a = approval[t]
       /\ approvals'[a].step = approvals[a].step
       /\ approvals'[a].revision = approvals[a].revision
    \/ /\ pc[t] = "createApproval"
       /\ approvals[a].status = "FREE" /\ approvals'[a].status = "PENDING"
       /\ approvals'[a].step = step[t]
       /\ approvals'[a].revision = expected[t]

LedgerEffect(t, s) ==
    \/ ledger'[s] = ledger[s]
    \/ /\ pc[t] = "commit" /\ s = step[t]
       /\ ledger[s] = 0 /\ ledger'[s] = expected[t] + 1

\* The thread keeps its snapshot, drops it, or holds the row as it is.
SnapshotEffect(t) ==
    \/ snap'[t] = snap[t]
    \/ snap'[t] = NoRun
    \/ snap'[t] = run /\ run' = run

ThreadWaits(u) ==
    /\ pc'[u] = pc[u] /\ snap'[u] = snap[u] /\ step'[u] = step[u]
    /\ expected'[u] = expected[u] /\ approval'[u] = approval[u]

Effects(t) ==
    /\ plan' = plan
    /\ RunEffect(t)
    /\ \A a \in ApprovalIds : RowEffect(t, a)
    /\ \A s \in Steps : LedgerEffect(t, s)
    /\ SnapshotEffect(t)
    /\ \A u \in Threads : u # t => ThreadWaits(u)

-----------------------------------------------------------------------------
\* The policy has four results.
LEMMA PolicyType == \A s \in Steps : Policy(s) \in PolicyResults
  BY DEF Policy, Evaluate, PolicyResults

\* The row of a run that does not exist is well typed.
LEMMA NoRunType == NoRun \in RunRow
  BY DEF NoRun, RunRow, Statuses

\* A legal transition leaves a status that is not terminal, and none leads to ABSENT
\* or PLANNING.
LEMMA MoveType ==
    ASSUME NEW from \in Statuses, NEW to, CanMove(from, to)
    PROVE  from \notin TerminalStatuses \cup {"ABSENT"} /\ to \notin {"ABSENT", "PLANNING"}
  BY DEF Statuses, CanMove, ValidTransitions, TerminalStatuses

\* The invariant holds before the first run.
LEMMA InitIInv == Init => IInv
<1> SUFFICES ASSUME Init PROVE IInv
  OBVIOUS
<1>1. TypeOK
  BY AgentRunAssumption DEF Init, TypeOK, NoRun, NoApproval, RunRow, ApprovalRow, Statuses,
     ApprovalStatuses, Places, ApprovalIds
<1>2. ThreadsOK
  BY DEF Init, ThreadsOK, ThreadOK, StepKnown, ApprovalKnown, SnapshotAged, StatusKnown,
     CompletionKnown, PermissionKnown, NoRun, WorkPlaces, ExecPlaces, RequestPlaces,
     DecisionPlaces, OuterPlaces
<1>3. RowsOK /\ RunOK
  BY DEF Init, RowsOK, RunOK, NoApproval, NoRun, Exists
<1>4. CompletedWasCommitted /\ CompletedRunIsWhole /\ CommittedInPlanOrder /\ GovernedStepsAreApproved
  BY DEF Init, NoRun, CompletedWasCommitted, GovernedStepsAreApproved, CompletedRunIsWhole,
     CommittedInPlanOrder, Committed
<1> QED
  BY <1>1, <1>2, <1>3, <1>4 DEF IInv, DataOK

-----------------------------------------------------------------------------
(* Types.                                                                   *)

\* transition_run writes well-typed rows.
LEMMA TransitionType ==
    ASSUME TypeOK, NEW to \in Statuses, NEW row \in RunRow, Transition(to, row)
    PROVE  run' \in RunRow
<1>1. run.version + 1 \in Nat
  BY DEF RunRow, TypeOK
<1>2. [row EXCEPT !.status = to, !.version = run.version + 1] \in RunRow
  BY <1>1 DEF RunRow
<1> QED
  BY <1>2 DEF Transition

\* update_progress writes well-typed rows.
LEMMA ProgressType ==
    ASSUME TypeOK, NEW t \in Threads, NEW row \in RunRow, UpdateProgress(t, row)
    PROVE  run' \in RunRow
<1>1. [row EXCEPT !.version = run.version + 1] \in RunRow
  BY DEF RunRow, TypeOK
<1> QED
  BY <1>1 DEF UpdateProgress

\* The rows the transactions write.
LEMMA RowsType ==
    ASSUME TypeOK, NEW t \in Threads
    PROVE  /\ WithRecoveryOf(t) \in RunRow
           /\ [WithRecoveryOf(t) EXCEPT !.pending = 0] \in RunRow
           /\ [WithRecoveryOf(t) EXCEPT !.pending = approval[t]] \in RunRow
           /\ step[t] \in Steps =>
                /\ [WithRecoveryOf(t) EXCEPT !.failedStep = step[t]] \in RunRow
                /\ [WithRecoveryOf(t) EXCEPT !.failedStep = step[t], !.pending = 0] \in RunRow
                /\ [run EXCEPT !.completed = snap[t].completed \cup {step[t]},
                               !.lastRevision = ledger[step[t]]] \in RunRow
<1> USE DEF RunRow, TypeOK
<1>1. WithRecoveryOf(t) \in RunRow
  BY DEF WithRecoveryOf
<1>2. [WithRecoveryOf(t) EXCEPT !.pending = 0] \in RunRow
  BY <1>1
<1>3. [WithRecoveryOf(t) EXCEPT !.pending = approval[t]] \in RunRow
  BY <1>1
<1>4. ASSUME step[t] \in Steps PROVE [WithRecoveryOf(t) EXCEPT !.failedStep = step[t]] \in RunRow
  BY <1>1, <1>4
<1>5. ASSUME step[t] \in Steps PROVE [WithRecoveryOf(t) EXCEPT !.failedStep = step[t], !.pending = 0] \in RunRow
  BY <1>1, <1>5
<1>6. ASSUME step[t] \in Steps
      PROVE  [run EXCEPT !.completed = snap[t].completed \cup {step[t]},
                               !.lastRevision = ledger[step[t]]] \in RunRow
  BY <1>6
<1> QED
  BY <1>1, <1>2, <1>3, <1>4, <1>5, <1>6

\* Every step keeps the types; what the thread knows of its step and approval is
\* needed where it writes them into a row.
LEMMA NextType == TypeOK /\ ThreadsOK /\ [Next]_vars => TypeOK'
<1> SUFFICES ASSUME TypeOK, ThreadsOK, [Next]_vars PROVE TypeOK'
  OBVIOUS
<1> USE AgentRunAssumption, NoRunType DEF TypeOK, dbVars, threadVars, vars,
      Goto, Return, Begin, Hold, OnlyRun, ReadOnly, At, Places
<1>1. ASSUME NEW t \in Threads, Start(t) PROVE TypeOK'
  <2>1. run' \in RunRow
    BY <1>1 DEF Start, NoRun, RunRow, Statuses
  <2> QED
    BY <1>1, <2>1 DEF Start
<1>2. ASSUME NEW t \in Threads, Ready(t) PROVE TypeOK'
  <2>1. run' \in RunRow
    BY <1>2, TransitionType, RowsType DEF Ready, Illegal, Statuses
  <2> QED
    BY <1>2, <2>1 DEF Ready
<1>3. ASSUME NEW t \in Threads, Advance(t) PROVE TypeOK'
  BY <1>3 DEF Advance, IsNextStep
<1>4. ASSUME NEW t \in Threads, Running(t) PROVE TypeOK'
  <2>1. run' \in RunRow
    BY <1>4, TransitionType, RowsType DEF Running, Illegal, Statuses
  <2> QED
    BY <1>4, <2>1 DEF Running
<1>5. ASSUME NEW t \in Threads, Progress(t) PROVE TypeOK'
  <2>1. run' \in RunRow
    BY <1>5, ProgressType DEF Progress, Conflict
  <2> QED
    BY <1>5, <2>1 DEF Progress
<1>6. ASSUME NEW t \in Threads, EvaluatePolicy(t) PROVE TypeOK'
  BY <1>6, PolicyType DEF EvaluatePolicy, Governed, PolicyResults, ThreadsOK, ThreadOK,
     StepKnown, WorkPlaces
<1>7. ASSUME NEW t \in Threads, Check(t) PROVE TypeOK'
  BY <1>7 DEF Check
<1>8. ASSUME NEW t \in Threads, ReadRevision(t) PROVE TypeOK'
  BY <1>8 DEF ReadRevision
<1>9. ASSUME NEW t \in Threads, Lookup(t) PROVE TypeOK'
  BY <1>9 DEF Lookup
<1>10. ASSUME NEW t \in Threads, Precheck(t) PROVE TypeOK'
  BY <1>10 DEF Precheck
<1>11. ASSUME NEW t \in Threads, Commit(t) PROVE TypeOK'
  BY <1>11 DEF Commit
<1>12. ASSUME NEW t \in Threads, Record(t) PROVE TypeOK'
  BY <1>12, ProgressType, RowsType DEF Record, Conflict, ThreadsOK, ThreadOK, StepKnown,
     WorkPlaces, ExecPlaces
<1>13. ASSUME NEW t \in Threads, Fail(t) PROVE TypeOK'
  BY <1>13, TransitionType, RowsType DEF Fail, Illegal, Statuses, ThreadsOK, ThreadOK,
     StepKnown, WorkPlaces
<1>14. ASSUME NEW t \in Threads, Finalize(t) PROVE TypeOK'
  BY <1>14, TransitionType, RowsType DEF Finalize, Illegal, Statuses
<1>15. ASSUME NEW t \in Threads, ApprovalRevision(t) PROVE TypeOK'
  BY <1>15 DEF ApprovalRevision
<1>16. ASSUME NEW t \in Threads, ApprovalLookup(t) PROVE TypeOK'
  BY <1>16 DEF ApprovalLookup
<1>17. ASSUME NEW t \in Threads, CreateApproval(t) PROVE TypeOK'
  <2>1. approvals' \in [ApprovalIds -> ApprovalRow]
    BY <1>17 DEF CreateApproval, ApprovalRow, ApprovalStatuses
  <2> QED
    BY <1>17, <2>1 DEF CreateApproval
<1>18. ASSUME NEW t \in Threads, Wait(t) PROVE TypeOK'
  <2>1. run' \in RunRow
    BY <1>18, TransitionType, RowsType DEF Wait, Statuses
  <2> QED
    BY <1>18, <2>1 DEF Wait
<1>19. ASSUME NEW t \in Threads, PauseBegin(t) PROVE TypeOK'
  BY <1>19 DEF PauseBegin
<1>20. ASSUME NEW t \in Threads, Pause(t) PROVE TypeOK'
  BY <1>20, TransitionType, RowsType DEF Pause, Illegal, Statuses
<1>21. ASSUME NEW t \in Threads, CancelBegin(t) PROVE TypeOK'
  BY <1>21 DEF CancelBegin
<1>22. ASSUME NEW t \in Threads, CancelApprovals(t) PROVE TypeOK'
  BY <1>22 DEF CancelApprovals, ApprovalRow, ApprovalStatuses
<1>23. ASSUME NEW t \in Threads, Cancel(t) PROVE TypeOK'
  BY <1>23, TransitionType, RowsType DEF Cancel, Illegal, Statuses
<1>24. ASSUME NEW t \in Threads, ResumeBegin(t) PROVE TypeOK'
  BY <1>24 DEF ResumeBegin
<1>25. ASSUME NEW t \in Threads, ResumeApproval(t) PROVE TypeOK'
  BY <1>25 DEF ResumeApproval
<1>26. ASSUME NEW t \in Threads, Recover(t) PROVE TypeOK'
  <2>1. run' \in RunRow
    BY <1>26, TransitionType, RowsType DEF Recover, Illegal, Statuses
  <2> QED
    BY <1>26, <2>1 DEF Recover
<1>27. ASSUME NEW t \in Threads, ResumeRevision(t) PROVE TypeOK'
  BY <1>27 DEF ResumeRevision
<1>28. ASSUME NEW t \in Threads, Unpause(t) PROVE TypeOK'
  <2>1. run' \in RunRow
    BY <1>28, TransitionType, RowsType DEF Unpause, Illegal, Statuses
  <2> QED
    BY <1>28, <2>1 DEF Unpause
<1>29. ASSUME NEW t \in Threads, RetryBegin(t) PROVE TypeOK'
  BY <1>29 DEF RetryBegin
<1>30. ASSUME NEW t \in Threads, RetryRevision(t) PROVE TypeOK'
  BY <1>30 DEF RetryRevision
<1>31. ASSUME NEW t \in Threads, Retry(t) PROVE TypeOK'
  <2>1. run' \in RunRow
    BY <1>31, TransitionType, RowsType DEF Retry, Illegal, Statuses
  <2> QED
    BY <1>31, <2>1 DEF Retry
<1>32. ASSUME NEW t \in Threads, DecideBegin(t) PROVE TypeOK'
  BY <1>32 DEF DecideBegin, RunRow, ApprovalRow
<1>33. ASSUME NEW t \in Threads, DecideRevision(t) PROVE TypeOK'
  BY <1>33 DEF DecideRevision
<1>34. ASSUME NEW t \in Threads, DecideStale(t) PROVE TypeOK'
  BY <1>34 DEF DecideStale, Claim, AlreadyDecided, ApprovalRow, ApprovalStatuses
<1>35. ASSUME NEW t \in Threads, Decide(t) PROVE TypeOK'
  BY <1>35 DEF Decide, Claim, AlreadyDecided, ApprovalRow, ApprovalStatuses
<1>36. ASSUME NEW t \in Threads, Reject(t) PROVE TypeOK'
  BY <1>36, TransitionType, RowsType DEF Reject, Illegal, Statuses, ThreadsOK, ThreadOK,
     StepKnown, WorkPlaces, DecisionPlaces
<1>37. ASSUME NEW t \in Threads, Approve(t) PROVE TypeOK'
  <2>1. run' \in RunRow
    BY <1>37, TransitionType, RowsType DEF Approve, Illegal, Statuses
  <2> QED
    BY <1>37, <2>1 DEF Approve
<1>38. ASSUME NEW t \in Threads, Approved(t) PROVE TypeOK'
  BY <1>38 DEF Approved, ApprovalRow, ThreadsOK, ThreadOK, ApprovalKnown, DecisionPlaces, Exists
<1>39. ASSUME NEW t \in Threads, Crash(t) PROVE TypeOK'
  BY <1>39 DEF Crash
<1>40. CASE OtherWriter
  BY <1>40 DEF OtherWriter
<1>41. CASE UNCHANGED vars
  BY <1>41
<1> QED
  BY <1>1, <1>2, <1>3, <1>4, <1>5, <1>6, <1>7, <1>8, <1>9, <1>10, <1>11, <1>12, <1>13, <1>14,
     <1>15, <1>16, <1>17, <1>18, <1>19, <1>20, <1>21, <1>22, <1>23, <1>24, <1>25, <1>26,
     <1>27, <1>28, <1>29, <1>30, <1>31, <1>32, <1>33, <1>34, <1>35, <1>36, <1>37, <1>38,
     <1>39, <1>40, <1>41
     DEF Next, SteadyNext, Operation, Continue

-----------------------------------------------------------------------------
(* What every step does to the shared state.                                *)

\* A transition that keeps the completed steps has the effect announced.
LEMMA TransitionEffect ==
    ASSUME TypeOK, NEW t \in Threads, NEW to \in Statuses, NEW row \in RunRow,
           Transition(to, row),
           row.completed = run.completed,
           row.pending \in {0, run.pending} \/ (pc[t] = "wait" /\ row.pending = approval[t]),
           to = "COMPLETED" => pc[t] = "finalize",
           pc[t] \notin {"commit", "claim"}
    PROVE  RunEffect(t)
<1>1. run.status \in Statuses
  BY DEF TypeOK, RunRow
<1>2. run.status \notin TerminalStatuses \cup {"ABSENT"} /\ to \notin {"ABSENT", "PLANNING"}
  BY <1>1, MoveType DEF Transition
<1>3. run' = [row EXCEPT !.status = to, !.version = run.version + 1]
  BY DEF Transition
<1>4. /\ run'.version = run.version + 1 /\ run'.status = to
      /\ run'.completed = row.completed /\ run'.pending = row.pending
  BY <1>3 DEF RunRow
<1>5. CanMove(run.status, run'.status)
  BY <1>4 DEF Transition
<1> QED
  BY <1>2, <1>4, <1>5 DEF RunEffect

\* Restoring the snapshot's recovery_state touches neither the completed steps nor
\* the pending approval.
LEMMA RecoveryKeeps ==
    ASSUME TypeOK, NEW t \in Threads
    PROVE  /\ run \in RunRow
           /\ WithRecoveryOf(t).completed = run.completed
           /\ WithRecoveryOf(t).pending = run.pending
           /\ [WithRecoveryOf(t) EXCEPT !.pending = 0].completed = run.completed
           /\ [WithRecoveryOf(t) EXCEPT !.pending = 0].pending = 0
           /\ [WithRecoveryOf(t) EXCEPT !.pending = approval[t]].completed = run.completed
           /\ [WithRecoveryOf(t) EXCEPT !.pending = approval[t]].pending = approval[t]
           /\ [WithRecoveryOf(t) EXCEPT !.failedStep = step[t]].completed = run.completed
           /\ [WithRecoveryOf(t) EXCEPT !.failedStep = step[t]].pending = run.pending
           /\ [WithRecoveryOf(t) EXCEPT !.failedStep = step[t], !.pending = 0].completed = run.completed
           /\ [WithRecoveryOf(t) EXCEPT !.failedStep = step[t], !.pending = 0].pending = 0
  BY DEF WithRecoveryOf, TypeOK, RunRow

\* Each action has the effects announced, and no other.
LEMMA StepEffects ==
    ASSUME TypeOK, DataOK, NEW t \in Threads, ThreadOK(t),
           Operation(t) \/ Continue(t) \/ Crash(t)
    PROVE  Effects(t)
<1>1. revision \in Nat
  BY DEF TypeOK
<1> USE <1>1 DEF dbVars, threadVars, Goto, Return, Begin, Hold, OnlyRun, ReadOnly, At,
      Effects, RowEffect, LedgerEffect, ThreadWaits, SnapshotEffect
<1>2. ASSUME Start(t) PROVE Effects(t)
  <2>1. RunEffect(t)
    BY <1>2 DEF Start, RunEffect, DataOK, RunOK, NoRun, TerminalStatuses
  <2> QED
    BY <1>2, <2>1 DEF Start, TypeOK
<1>3. ASSUME Ready(t) PROVE Effects(t)
  <2> HIDE DEF Goto, Return
  <2>1. RunEffect(t)
    BY <1>3, TransitionEffect, RowsType, RecoveryKeeps DEF Ready, Illegal, Statuses, RunEffect
  <2> QED
    BY <1>3, <2>1 DEF Ready, TypeOK, Goto, Return
<1>4. ASSUME Advance(t) PROVE Effects(t)
  BY <1>4 DEF Advance, RunEffect, TypeOK
<1>5. ASSUME Running(t) PROVE Effects(t)
  <2> HIDE DEF Goto, Return
  <2>1. RunEffect(t)
    BY <1>5, TransitionEffect, RowsType, RecoveryKeeps DEF Running, Illegal, Statuses, RunEffect
  <2> QED
    BY <1>5, <2>1 DEF Running, TypeOK, Goto, Return
<1>6. ASSUME Progress(t) PROVE Effects(t)
  <2>1. RunEffect(t)
    BY <1>6 DEF Progress, UpdateProgress, Conflict, RunEffect, ThreadOK, StatusKnown,
       OuterPlaces,
       TerminalStatuses, TypeOK, RunRow
  <2> QED
    BY <1>6, <2>1 DEF Progress, TypeOK
<1>7. ASSUME EvaluatePolicy(t) PROVE Effects(t)
  BY <1>7 DEF EvaluatePolicy, RunEffect, TypeOK
<1>8. ASSUME Check(t) PROVE Effects(t)
  BY <1>8 DEF Check, RunEffect, TypeOK
<1>9. ASSUME ReadRevision(t) PROVE Effects(t)
  BY <1>9 DEF ReadRevision, RunEffect, TypeOK
<1>10. ASSUME Lookup(t) PROVE Effects(t)
  BY <1>10 DEF Lookup, RunEffect, TypeOK
<1>11. ASSUME Precheck(t) PROVE Effects(t)
  BY <1>11 DEF Precheck, RunEffect, TypeOK
<1>12. ASSUME Commit(t) PROVE Effects(t)
  BY <1>12 DEF Commit, RunEffect, TypeOK
<1>13. ASSUME Record(t) PROVE Effects(t)
  <2>1. RunEffect(t)
    BY <1>13 DEF Record, UpdateProgress, Conflict, RunEffect, ThreadOK, StatusKnown,
       SnapshotAged,
       OuterPlaces, ExecPlaces, TerminalStatuses, TypeOK, RunRow
  <2> QED
    BY <1>13, <2>1 DEF Record, TypeOK
<1>14. ASSUME Fail(t) PROVE Effects(t)
  <2>1. RunEffect(t)
    BY <1>14, TransitionEffect, RowsType, RecoveryKeeps DEF Fail, Illegal, Statuses,
       RunEffect, ThreadOK, StepKnown, WorkPlaces, DecisionPlaces
  <2> QED
    BY <1>14, <2>1 DEF Fail, TypeOK
<1>15. ASSUME Finalize(t) PROVE Effects(t)
  <2>1. RunEffect(t)
    BY <1>15, TransitionEffect, RowsType, RecoveryKeeps DEF Finalize, Illegal, Statuses,
       RunEffect
  <2> QED
    BY <1>15, <2>1 DEF Finalize, TypeOK
<1>16. ASSUME ApprovalRevision(t) PROVE Effects(t)
  BY <1>16 DEF ApprovalRevision, RunEffect, TypeOK
<1>17. ASSUME ApprovalLookup(t) PROVE Effects(t)
  BY <1>17 DEF ApprovalLookup, RunEffect, TypeOK
<1>18. ASSUME CreateApproval(t) PROVE Effects(t)
  <2>1. UNCHANGED <<run, plan, revision, ledger>> /\ SnapshotEffect(t) /\ \A u \in Threads : u # t => ThreadWaits(u)
    BY <1>18 DEF CreateApproval, TypeOK
  <2>2. ASSUME NEW a \in ApprovalIds PROVE RowEffect(t, a)
    BY <1>18, <2>2 DEF CreateApproval, TypeOK
  <2> QED
    BY <2>1, <2>2 DEF RunEffect
<1>19. ASSUME Wait(t) PROVE Effects(t)
  <2>1. RunEffect(t)
    BY <1>19, TransitionEffect, RowsType, RecoveryKeeps DEF Wait, Illegal, Statuses, RunEffect
  <2> QED
    BY <1>19, <2>1 DEF Wait, TypeOK
<1>20. ASSUME PauseBegin(t) PROVE Effects(t)
  BY <1>20 DEF PauseBegin, RunEffect, TypeOK
<1>21. ASSUME Pause(t) PROVE Effects(t)
  <2>1. RunEffect(t)
    BY <1>21, TransitionEffect, RowsType, RecoveryKeeps DEF Pause, Illegal, Statuses, RunEffect
  <2> QED
    BY <1>21, <2>1 DEF Pause, TypeOK
<1>22. ASSUME CancelBegin(t) PROVE Effects(t)
  BY <1>22 DEF CancelBegin, RunEffect, TypeOK
<1>23. ASSUME CancelApprovals(t) PROVE Effects(t)
  BY <1>23 DEF CancelApprovals, RunEffect, TypeOK, ApprovalRow
<1>24. ASSUME Cancel(t) PROVE Effects(t)
  <2>1. RunEffect(t)
    BY <1>24, TransitionEffect, RowsType, RecoveryKeeps DEF Cancel, Illegal, Statuses, RunEffect
  <2> QED
    BY <1>24, <2>1 DEF Cancel, TypeOK
<1>25. ASSUME ResumeBegin(t) PROVE Effects(t)
  BY <1>25 DEF ResumeBegin, RunEffect, TypeOK
<1>26. ASSUME ResumeApproval(t) PROVE Effects(t)
  BY <1>26 DEF ResumeApproval, RunEffect, TypeOK
<1>27. ASSUME Recover(t) PROVE Effects(t)
  <2> HIDE DEF Goto, Return
  <2>1. RunEffect(t)
    BY <1>27, TransitionEffect, RowsType, RecoveryKeeps DEF Recover, Illegal, Statuses,
       RunEffect
  <2> QED
    BY <1>27, <2>1 DEF Recover, TypeOK, Goto, Return
<1>28. ASSUME ResumeRevision(t) PROVE Effects(t)
  BY <1>28 DEF ResumeRevision, RunEffect, TypeOK
<1>29. ASSUME Unpause(t) PROVE Effects(t)
  <2> HIDE DEF Goto, Return
  <2>1. RunEffect(t)
    BY <1>29, TransitionEffect, RowsType, RecoveryKeeps DEF Unpause, Illegal, Statuses,
       RunEffect
  <2> QED
    BY <1>29, <2>1 DEF Unpause, TypeOK, Goto, Return
<1>30. ASSUME RetryBegin(t) PROVE Effects(t)
  BY <1>30 DEF RetryBegin, RunEffect, TypeOK
<1>31. ASSUME RetryRevision(t) PROVE Effects(t)
  BY <1>31 DEF RetryRevision, RunEffect, TypeOK
<1>32. ASSUME Retry(t) PROVE Effects(t)
  <2> HIDE DEF Goto, Return
  <2>1. RunEffect(t)
    BY <1>32, TransitionEffect, RowsType, RecoveryKeeps DEF Retry, Illegal, Statuses, RunEffect
  <2> QED
    BY <1>32, <2>1 DEF Retry, TypeOK, Goto, Return
<1>33. ASSUME DecideBegin(t) PROVE Effects(t)
  BY <1>33 DEF DecideBegin, RunEffect, TypeOK
<1>34. ASSUME DecideRevision(t) PROVE Effects(t)
  BY <1>34 DEF DecideRevision, RunEffect, TypeOK
<1>35. ASSUME DecideStale(t) PROVE Effects(t)
  BY <1>35 DEF DecideStale, RunEffect, TypeOK, Claim, AlreadyDecided, ApprovalRow
<1>36. ASSUME Decide(t) PROVE Effects(t)
  BY <1>36 DEF Decide, RunEffect, TypeOK, Claim, AlreadyDecided, ApprovalRow
<1>37. ASSUME Reject(t) PROVE Effects(t)
  <2>1. RunEffect(t)
    BY <1>37, TransitionEffect, RowsType, RecoveryKeeps DEF Reject, Illegal, Statuses,
       RunEffect, ThreadOK, StepKnown, WorkPlaces, DecisionPlaces
  <2> QED
    BY <1>37, <2>1 DEF Reject, TypeOK
<1>38. ASSUME Approve(t) PROVE Effects(t)
  <2> HIDE DEF Goto, Return
  <2>1. RunEffect(t)
    BY <1>38, TransitionEffect, RowsType, RecoveryKeeps DEF Approve, Illegal, Statuses,
       RunEffect
  <2> QED
    BY <1>38, <2>1 DEF Approve, TypeOK, Goto, Return
<1>39. ASSUME Approved(t) PROVE Effects(t)
  BY <1>39 DEF Approved, RunEffect, TypeOK
<1>40. ASSUME Crash(t) PROVE Effects(t)
  BY <1>40 DEF Crash, RunEffect, TypeOK
<1> QED
  BY <1>2, <1>3, <1>4, <1>5, <1>6, <1>7, <1>8, <1>9, <1>10, <1>11, <1>12, <1>13, <1>14, <1>15,
     <1>16, <1>17, <1>18, <1>19, <1>20, <1>21, <1>22, <1>23, <1>24, <1>25, <1>26, <1>27,
     <1>28, <1>29, <1>30, <1>31, <1>32, <1>33, <1>34, <1>35, <1>36, <1>37, <1>38, <1>39, <1>40
     DEF Operation, Continue

\* What is known stays known: work is not undone, approvals are not rewritten.
LEMMA Monotone ==
    ASSUME TypeOK, TypeOK', NEW t \in Threads, Effects(t)
    PROVE  /\ run.completed \subseteq run'.completed
           /\ \A s : DoneBefore(s) => DoneBefore(s)'
           /\ \A a \in ApprovalIds : Exists(a) =>
                /\ Exists(a)'
                /\ approvals'[a].step = approvals[a].step
                /\ approvals'[a].revision = approvals[a].revision
           /\ \A a \in ApprovalIds :
                approvals[a].status = "APPROVED" => approvals'[a] = approvals[a]
           /\ \A s : Policy(s)' = Policy(s) /\ (Governed(s)' <=> Governed(s))
           /\ \A s \in Steps : ledger[s] # 0 => ledger'[s] = ledger[s]
           /\ Committed \subseteq Committed'
           /\ run.status \notin {"ABSENT", "PLANNING"} => run'.status \notin {"ABSENT", "PLANNING"}
<1>1. run.completed \subseteq run'.completed
  BY DEF Effects, RunEffect
<1>2. \A s : DoneBefore(s) => DoneBefore(s)'
  BY <1>1 DEF DoneBefore
<1>3. \A a \in ApprovalIds : Exists(a) =>
         /\ Exists(a)'
         /\ approvals'[a].step = approvals[a].step
         /\ approvals'[a].revision = approvals[a].revision
  BY DEF Exists, Effects, RowEffect
<1>4. \A a \in ApprovalIds : approvals[a].status = "APPROVED" => approvals'[a] = approvals[a]
  BY DEF Effects, RowEffect
<1>5. \A s \in Steps : ledger[s] # 0 => ledger'[s] = ledger[s]
  BY DEF Effects, LedgerEffect
<1>6. Committed \subseteq Committed'
  BY <1>5 DEF Committed
<1>7. run.status \notin {"ABSENT", "PLANNING"} => run'.status \notin {"ABSENT", "PLANNING"}
  BY DEF Effects, RunEffect
<1>8. \A s : Policy(s)' = Policy(s) /\ (Governed(s)' <=> Governed(s))
  BY DEF Effects, Policy, Governed
<1> QED
  BY <1>1, <1>2, <1>3, <1>4, <1>5, <1>6, <1>7, <1>8

\* A step of t does not disturb what another thread knows.
LEMMA OtherThreads ==
    ASSUME TypeOK, TypeOK', NEW t \in Threads, Effects(t),
           NEW u \in Threads, u # t, ThreadOK(u)
    PROVE  ThreadOK(u)'
<1>1. ThreadWaits(u)
  BY DEF Effects
<1>2. StepKnown(u)'
  BY <1>1, Monotone DEF ThreadOK, StepKnown, ThreadWaits
<1>3. ApprovalKnown(u)'
  BY <1>1, Monotone DEF ThreadOK, ApprovalKnown, ThreadWaits, Exists
<1>4. SnapshotAged(u)'
  BY <1>1 DEF ThreadOK, SnapshotAged, ThreadWaits, Effects, RunEffect, TypeOK, RunRow
<1>5. StatusKnown(u)'
  BY <1>1, Monotone DEF ThreadOK, StatusKnown, SnapshotAged, ThreadWaits, Effects, RunEffect,
     TypeOK, RunRow
<1>6. CompletionKnown(u)'
  BY <1>1, Monotone DEF ThreadOK, CompletionKnown, ThreadWaits, TypeOK, RunRow
<1>7. PermissionKnown(u)'
  <2>1. Bound(u) => Bound(u)'
    BY <1>1, Monotone DEF Bound, ThreadWaits
  <2>2. pc[u] \in DecisionPlaces => approval[u] \in ApprovalIds
    BY DEF ThreadOK, ApprovalKnown, Exists
  <2> QED
    BY <1>1, <2>1, <2>2, Monotone DEF ThreadOK, PermissionKnown, ThreadWaits, DecisionPlaces
<1> QED
  BY <1>2, <1>3, <1>4, <1>5, <1>6, <1>7 DEF ThreadOK

\* Nor does it break what holds of the shared state.
LEMMA DataKept ==
    ASSUME TypeOK, TypeOK', DataOK, NEW t \in Threads, ThreadOK(t), Effects(t)
    PROVE  DataOK'
<1> USE DEF DataOK
<1>1. RowsOK'
  <2>1. ASSUME NEW a \in ApprovalIds, approvals'[a].status # "FREE"
        PROVE  /\ approvals'[a].step \in Steps
               /\ \A earlier \in Steps : earlier < approvals'[a].step => earlier \in run'.completed
               /\ Governed(approvals[a].step)'
               /\ approvals'[a].revision # 0
    <3>1. CASE Exists(a)
      BY <3>1, Monotone DEF RowsOK, DoneBefore, Governed, Policy
    <3>2. CASE ~Exists(a)
      <4>1. /\ pc[t] = "createApproval"
            /\ approvals'[a].step = step[t]
            /\ approvals'[a].revision = expected[t]
        BY <2>1, <3>2 DEF Effects, RowEffect, Exists
      <4>2. step[t] \in Steps /\ DoneBefore(step[t]) /\ Governed(step[t]) /\ expected[t] # 0
        BY <4>1 DEF ThreadOK, StepKnown, PermissionKnown, WorkPlaces, RequestPlaces
      <4> QED
        BY <4>1, <4>2, Monotone DEF DoneBefore, Governed, Policy
    <3> QED
      BY <3>1, <3>2
  <2>2. ASSUME run'.pending # 0
        PROVE  run'.pending \in ApprovalIds /\ approvals'[run'.pending].status # "FREE"
    <3>1. Exists(run'.pending)
      BY <2>2 DEF RowsOK, Effects, RunEffect, ThreadOK, ApprovalKnown
    <3> QED
      BY <3>1, Monotone DEF Exists
  <2> QED
    BY <2>1, <2>2 DEF RowsOK, Exists, DoneBefore
<1>2. RunOK'
  BY DEF RunOK, Effects, RunEffect, TypeOK, RunRow, NoRun
<1>3. CompletedWasCommitted'
  BY Monotone DEF CompletedWasCommitted, Effects, RunEffect, ThreadOK, CompletionKnown
<1>4. CompletedRunIsWhole'
  BY Monotone DEF CompletedRunIsWhole, Effects, RunEffect, ThreadOK, CompletionKnown, TypeOK,
     RunRow, TerminalStatuses
<1>5. ASSUME NEW s \in Steps, s \in Committed', s \notin Committed
      PROVE  pc[t] = "commit" /\ s = step[t] /\ ledger'[s] = expected[t] + 1
  BY <1>5 DEF Effects, LedgerEffect, Committed
<1>6. CommittedInPlanOrder'
  <2> SUFFICES ASSUME NEW s \in Steps, NEW earlier \in Steps, s \in Committed', earlier < s
               PROVE  earlier \in Committed'
    BY DEF CommittedInPlanOrder
  <2>1. CASE s \in Committed
    BY <2>1, Monotone DEF CommittedInPlanOrder
  <2>2. CASE s \notin Committed
    BY <2>2, <1>5, Monotone DEF ThreadOK, StepKnown, WorkPlaces, ExecPlaces, DoneBefore,
       CompletedWasCommitted
  <2> QED
    BY <2>1, <2>2
<1>7. GovernedStepsAreApproved'
  <2> SUFFICES ASSUME NEW s \in Steps, s \in Committed'
               PROVE  /\ Policy(s) # "DENIED"
                      /\ Governed(s) => \E a \in ApprovalIds :
                            /\ approvals'[a].step = s
                            /\ approvals'[a].status = "APPROVED"
                            /\ ledger'[s] = approvals'[a].revision + 1
    BY Monotone DEF GovernedStepsAreApproved, Committed
  <2>1. CASE s \in Committed
    <3>1. ledger'[s] = ledger[s]
      BY <2>1, Monotone DEF Committed
    <3> QED
      BY <2>1, <3>1, Monotone DEF GovernedStepsAreApproved
  <2>2. CASE s \notin Committed
    <3>1. pc[t] = "commit" /\ s = step[t] /\ ledger'[s] = expected[t] + 1
      BY <2>2, <1>5
    <3>2. Policy(s) # "DENIED" /\ (Governed(s) => Bound(t))
      BY <3>1 DEF ThreadOK, PermissionKnown, ExecPlaces
    <3> QED
      BY <3>1, <3>2, Monotone DEF Bound
  <2> QED
    BY <2>1, <2>2
<1> QED
  BY <1>1, <1>2, <1>3, <1>4, <1>6, <1>7

-----------------------------------------------------------------------------
(* What the thread itself knows after its step.                             *)

\* An operation that has ended knows nothing.
LEMMA Returned ==
    ASSUME TypeOK, TypeOK', DataOK', NEW t \in Threads, Return(t)
    PROVE  ThreadOK(t)'
<1>1. pc'[t] = "idle" /\ snap'[t] = NoRun
  BY DEF Return, TypeOK
<1>2. SnapshotAged(t)'
  BY <1>1 DEF SnapshotAged, DataOK, RunOK, NoRun, TypeOK, RunRow
<1> QED
  BY <1>1, <1>2 DEF ThreadOK, StepKnown, ApprovalKnown, StatusKnown, CompletionKnown,
     PermissionKnown, WorkPlaces, ExecPlaces, RequestPlaces, DecisionPlaces, OuterPlaces

\* The snapshot a thread holds after a step is not newer than the row.
LEMMA SnapshotKept ==
    ASSUME TypeOK, TypeOK', DataOK', NEW t \in Threads, ThreadOK(t), Effects(t)
    PROVE  SnapshotAged(t)'
<1>1. run.version \in Nat /\ run'.version \in Nat /\ snap[t].version \in Nat
  BY DEF TypeOK, RunRow
<1>2. CASE snap'[t] = NoRun
  BY <1>1, <1>2 DEF SnapshotAged, DataOK, RunOK, NoRun
<1>3. CASE snap'[t] # NoRun
  BY <1>1, <1>3 DEF ThreadOK, SnapshotAged, Effects, SnapshotEffect, RunEffect
<1> QED
  BY <1>2, <1>3

\* transition_run sets the status it was given.
LEMMA TransitionStatus ==
    ASSUME NEW to, NEW row \in RunRow, Transition(to, row)
    PROVE  run'.status = to
  BY DEF Transition, RunRow

\* What the thread knows is true at the place it has moved to.
LEMMA OwnThread ==
    ASSUME TypeOK, TypeOK', DataOK, DataOK', NEW t \in Threads, ThreadOK(t), Effects(t),
           Operation(t) \/ Continue(t) \/ Crash(t)
    PROVE  ThreadOK(t)'
<1>1. run.status \in Statuses /\ run'.status \in Statuses
  BY DEF TypeOK, RunRow
<1>2. SnapshotAged(t)'
  BY SnapshotKept
<1> USE DEF dbVars, threadVars, Begin, Hold, OnlyRun, ReadOnly, At, Goto, ThreadOK, StepKnown,
      ApprovalKnown, StatusKnown, CompletionKnown, PermissionKnown, WorkPlaces, ExecPlaces,
      RequestPlaces, DecisionPlaces, OuterPlaces
<1>3. ASSUME Start(t) PROVE ThreadOK(t)'
  BY <1>3, <1>1, <1>2, Monotone DEF Start, TypeOK
<1>4. ASSUME Ready(t) PROVE ThreadOK(t)'
  <2>1. CASE Return(t)
    BY <2>1, Returned
  <2>2. CASE ~Return(t)
    <3>1. Transition("READY", run) /\ Goto(t, "advance")
      BY <1>4, <2>2 DEF Ready
    <3>2. run'.status = "READY"
      BY <3>1, TransitionStatus DEF TypeOK
    <3> QED
      BY <3>1, <3>2, <1>2 DEF TypeOK
  <2> QED
    BY <2>1, <2>2
<1>5. ASSUME Advance(t) PROVE ThreadOK(t)'
  <2>1. CASE Return(t)
    BY <2>1, Returned
  <2>2. CASE ~Return(t)
    BY <1>5, <1>1, <1>2, <2>2, Monotone DEF Advance, TypeOK, Halted, IsNextStep, DoneBefore,
       Statuses
  <2> QED
    BY <2>1, <2>2
<1>6. ASSUME Running(t) PROVE ThreadOK(t)'
  <2>1. CASE Return(t)
    BY <2>1, Returned
  <2>2. CASE ~Return(t)
    BY <1>6, <1>1, <1>2, <2>2, Monotone DEF Running, TypeOK
  <2> QED
    BY <2>1, <2>2
<1>7. ASSUME Progress(t) PROVE ThreadOK(t)'
  <2>1. CASE Return(t)
    BY <2>1, Returned
  <2>2. CASE ~Return(t)
    BY <1>7, <1>1, <1>2, <2>2, Monotone DEF Progress, TypeOK
  <2> QED
    BY <2>1, <2>2
<1>8. ASSUME EvaluatePolicy(t) PROVE ThreadOK(t)'
  BY <1>8, <1>1, <1>2, Monotone, PolicyType DEF EvaluatePolicy, TypeOK, Governed, PolicyResults
<1>9. ASSUME Check(t) PROVE ThreadOK(t)'
  BY <1>9, <1>1, <1>2, Monotone DEF Check, TypeOK, DataOK, RowsOK, Exists, Bound
<1>10. ASSUME ReadRevision(t) PROVE ThreadOK(t)'
  BY <1>10, <1>1, <1>2, Monotone DEF ReadRevision, TypeOK, Bound
<1>11. ASSUME Lookup(t) PROVE ThreadOK(t)'
  BY <1>11, <1>1, <1>2, Monotone DEF Lookup, TypeOK, Committed, Bound
<1>12. ASSUME Precheck(t) PROVE ThreadOK(t)'
  BY <1>12, <1>1, <1>2, Monotone DEF Precheck, TypeOK, Bound
<1>13. ASSUME Commit(t) PROVE ThreadOK(t)'
  <2>1. CASE Return(t)
    BY <2>1, Returned
  <2>2. CASE ~Return(t)
    BY <1>13, <1>1, <1>2, <2>2, Monotone DEF Commit, TypeOK, Committed, Bound
  <2> QED
    BY <2>1, <2>2
<1>14. ASSUME Record(t) PROVE ThreadOK(t)'
  BY <1>14, <1>1, <1>2, Monotone DEF Record, TypeOK
<1>15. ASSUME Fail(t) PROVE ThreadOK(t)'
  BY <1>15, Returned DEF Fail
<1>16. ASSUME Finalize(t) PROVE ThreadOK(t)'
  BY <1>16, Returned DEF Finalize
<1>17. ASSUME ApprovalRevision(t) PROVE ThreadOK(t)'
  BY <1>17, <1>1, <1>2, Monotone DEF ApprovalRevision, TypeOK, DataOK, RunOK
<1>18. ASSUME ApprovalLookup(t) PROVE ThreadOK(t)'
  BY <1>18, <1>1, <1>2, Monotone DEF ApprovalLookup, TypeOK, OldestFor, RowsFor, Exists
<1>19. ASSUME CreateApproval(t) PROVE ThreadOK(t)'
  <2>1. CASE Return(t)
    BY <2>1, Returned
  <2>2. CASE ~Return(t)
    BY <1>19, <1>1, <1>2, <2>2, Monotone DEF CreateApproval, TypeOK, Exists
  <2> QED
    BY <2>1, <2>2
<1>20. ASSUME Wait(t) PROVE ThreadOK(t)'
  BY <1>20, Returned DEF Wait
<1>21. ASSUME PauseBegin(t) PROVE ThreadOK(t)'
  BY <1>21, <1>1, <1>2, Monotone DEF PauseBegin, TypeOK
<1>22. ASSUME Pause(t) PROVE ThreadOK(t)'
  BY <1>22, Returned DEF Pause
<1>23. ASSUME CancelBegin(t) PROVE ThreadOK(t)'
  BY <1>23, <1>1, <1>2, Monotone DEF CancelBegin, TypeOK
<1>24. ASSUME CancelApprovals(t) PROVE ThreadOK(t)'
  BY <1>24, <1>1, <1>2, Monotone DEF CancelApprovals, TypeOK
<1>25. ASSUME Cancel(t) PROVE ThreadOK(t)'
  BY <1>25, Returned DEF Cancel
<1>26. ASSUME ResumeBegin(t) PROVE ThreadOK(t)'
  BY <1>26, <1>1, <1>2, Monotone DEF ResumeBegin, TypeOK
<1>27. ASSUME ResumeApproval(t) PROVE ThreadOK(t)'
  <2>1. CASE Return(t)
    BY <2>1, Returned
  <2>2. CASE ~Return(t)
    BY <1>27, <1>1, <1>2, <2>2, Monotone DEF ResumeApproval, TypeOK
  <2> QED
    BY <2>1, <2>2
<1>28. ASSUME Recover(t) PROVE ThreadOK(t)'
  <2>1. CASE Return(t)
    BY <2>1, Returned
  <2>2. CASE ~Return(t)
    BY <1>28, <1>1, <1>2, <2>2, Monotone DEF Recover, TypeOK
  <2> QED
    BY <2>1, <2>2
<1>29. ASSUME ResumeRevision(t) PROVE ThreadOK(t)'
  <2>1. CASE Return(t)
    BY <2>1, Returned
  <2>2. CASE ~Return(t)
    BY <1>29, <1>1, <1>2, <2>2, Monotone DEF ResumeRevision, TypeOK
  <2> QED
    BY <2>1, <2>2
<1>30. ASSUME Unpause(t) PROVE ThreadOK(t)'
  <2>1. CASE Return(t)
    BY <2>1, Returned
  <2>2. CASE ~Return(t)
    BY <1>30, <1>1, <1>2, <2>2, Monotone DEF Unpause, TypeOK
  <2> QED
    BY <2>1, <2>2
<1>31. ASSUME RetryBegin(t) PROVE ThreadOK(t)'
  BY <1>31, <1>1, <1>2, Monotone DEF RetryBegin, TypeOK
<1>32. ASSUME RetryRevision(t) PROVE ThreadOK(t)'
  <2>1. CASE Return(t)
    BY <2>1, Returned
  <2>2. CASE ~Return(t)
    BY <1>32, <1>1, <1>2, <2>2, Monotone DEF RetryRevision, TypeOK
  <2> QED
    BY <2>1, <2>2
<1>33. ASSUME Retry(t) PROVE ThreadOK(t)'
  <2>1. CASE Return(t)
    BY <2>1, Returned
  <2>2. CASE ~Return(t)
    BY <1>33, <1>1, <1>2, <2>2, Monotone DEF Retry, TypeOK
  <2> QED
    BY <2>1, <2>2
<1>34. ASSUME DecideBegin(t) PROVE ThreadOK(t)'
  BY <1>34, <1>1, <1>2, Monotone DEF DecideBegin, TypeOK, DataOK, RowsOK, Exists
<1>35. ASSUME DecideRevision(t) PROVE ThreadOK(t)'
  <2>1. CASE Return(t)
    BY <2>1, Returned
  <2>2. CASE ~Return(t)
    BY <1>35, <1>1, <1>2, <2>2, Monotone DEF DecideRevision, TypeOK, Exists
  <2> QED
    BY <2>1, <2>2
<1>36. ASSUME DecideStale(t) PROVE ThreadOK(t)'
  BY <1>36, Returned DEF DecideStale
<1>37. ASSUME Decide(t) PROVE ThreadOK(t)'
  <2>1. CASE Return(t)
    BY <2>1, Returned
  <2>2. CASE ~Return(t)
    <3>1. /\ approval[t] \in ApprovalIds
          /\ step[t] \in Steps
          /\ \A earlier \in Steps : earlier < step[t] => earlier \in run'.completed
          /\ run'.status \notin {"ABSENT", "PLANNING"}
      BY <1>37, Monotone DEF Decide, Exists, DoneBefore
    <3>2. /\ approvals'[approval[t]].step = step[t]
          /\ pc[t] = "claim"
          /\ \/ pc' = [pc EXCEPT ![t] = "approve"] /\ approvals'[approval[t]].status = "APPROVED"
             \/ pc' = [pc EXCEPT ![t] = "reject"] /\ approvals'[approval[t]].status = "REJECTED"
          /\ UNCHANGED <<step, approval>>
      BY <1>37, <2>2, <3>1 DEF Decide, Claim, AlreadyDecided, TypeOK, ApprovalRow
    <3> QED
      BY <3>1, <3>2, <1>2 DEF TypeOK, Exists, DoneBefore
  <2> QED
    BY <2>1, <2>2
<1>38. ASSUME Reject(t) PROVE ThreadOK(t)'
  BY <1>38, Returned DEF Reject
<1>39. ASSUME Approve(t) PROVE ThreadOK(t)'
  <2>1. CASE Return(t)
    BY <2>1, Returned
  <2>2. CASE ~Return(t)
    BY <1>39, <1>1, <1>2, <2>2, Monotone DEF Approve, TypeOK, Exists
  <2> QED
    BY <2>1, <2>2
<1>40. ASSUME Approved(t) PROVE ThreadOK(t)'
  <2>1. /\ Exists(approval[t])
        /\ approvals[approval[t]].step = step[t]
        /\ approvals[approval[t]].status = "APPROVED"
    BY <1>40 DEF Approved
  <2>2. Bound(t)' /\ Governed(step[t]) /\ pc'[t] = "check" /\ step' = step
    BY <1>40, <2>1 DEF Approved, Bound, Exists, DataOK, RowsOK, TypeOK
  <2> QED
    BY <1>40, <2>2, <1>2, Monotone DEF Approved, Governed
<1>41. ASSUME Crash(t) PROVE ThreadOK(t)'
  BY <1>41, Returned DEF Crash
<1> QED
  BY <1>3, <1>4, <1>5, <1>6, <1>7, <1>8, <1>9, <1>10, <1>11, <1>12, <1>13, <1>14, <1>15,
     <1>16, <1>17, <1>18, <1>19, <1>20, <1>21, <1>22, <1>23, <1>24, <1>25, <1>26, <1>27,
     <1>28, <1>29, <1>30, <1>31, <1>32, <1>33, <1>34, <1>35, <1>36, <1>37, <1>38, <1>39,
     <1>40, <1>41
     DEF Operation, Continue

-----------------------------------------------------------------------------
(* The invariant is inductive, and what follows from it.                    *)

\* Another writer of the project, or a stutter, changes nothing the threads rely on.
LEMMA SharedOnly ==
    ASSUME IInv, OtherWriter \/ UNCHANGED vars, TypeOK'
    PROVE  IInv'
<1>1. UNCHANGED <<run, plan, approvals, ledger, threadVars>>
  BY DEF OtherWriter, vars, dbVars
<1>2. DataOK'
  BY <1>1 DEF IInv, DataOK, RowsOK, RunOK, Exists, DoneBefore, Governed, Policy,
     CompletedWasCommitted, CompletedRunIsWhole, CommittedInPlanOrder,
     GovernedStepsAreApproved, Committed
<1>3. ASSUME NEW t \in Threads PROVE ThreadOK(t)'
  <2>1. ThreadOK(t)
    BY DEF IInv, ThreadsOK
  <2> QED
    BY <1>1, <2>1 DEF threadVars, ThreadOK, StepKnown, ApprovalKnown, SnapshotAged, StatusKnown,
       CompletionKnown, PermissionKnown, Bound, Exists, DoneBefore, Governed, Policy, Committed
<1> QED
  BY <1>2, <1>3 DEF IInv, ThreadsOK

\* A step is a step of one thread, of another writer, or a stutter.
LEMMA NextCases ==
    ASSUME [Next]_vars
    PROVE  \/ \E t \in Threads : Operation(t) \/ Continue(t) \/ Crash(t)
           \/ OtherWriter \/ UNCHANGED vars
  BY DEF Next, SteadyNext

\* The invariant is inductive.
LEMMA Inductive == IInv /\ [Next]_vars => IInv'
<1> SUFFICES ASSUME IInv, [Next]_vars PROVE IInv'
  OBVIOUS
<1>1. TypeOK /\ DataOK /\ ThreadsOK /\ TypeOK'
  BY NextType DEF IInv
<1>2. ASSUME NEW t \in Threads, Operation(t) \/ Continue(t) \/ Crash(t) PROVE IInv'
  <2>1. ThreadOK(t)
    BY <1>1 DEF ThreadsOK
  <2>2. Effects(t)
    BY <1>1, <1>2, <2>1, StepEffects
  <2>3. DataOK'
    BY <1>1, <2>1, <2>2, DataKept
  <2>4. ThreadOK(t)'
    BY <1>1, <1>2, <2>1, <2>2, <2>3, OwnThread
  <2>5. ASSUME NEW u \in Threads, u # t PROVE ThreadOK(u)'
    <3>1. ThreadOK(u)
      BY <1>1 DEF ThreadsOK
    <3> QED
      BY <1>1, <2>2, <2>5, <3>1, OtherThreads
  <2>6. ThreadsOK'
    BY <2>4, <2>5 DEF ThreadsOK
  <2> QED
    BY <1>1, <2>3, <2>6 DEF IInv
<1> QED
  BY <1>1, <1>2, NextCases, SharedOnly

\* Every reachable state is well typed and satisfies the inductive invariant.
LEMMA Invariant == Spec => []IInv
  BY InitIInv, Inductive, PTL DEF Spec

\* What a step of the system does to the shared state, when the invariant holds.
LEMMA NextEffects ==
    ASSUME IInv, [Next]_vars
    PROVE  \/ \E t \in Threads : ThreadOK(t) /\ Effects(t)
           \/ UNCHANGED <<run, plan, approvals, ledger>>
<1>1. CASE \E t \in Threads : Operation(t) \/ Continue(t) \/ Crash(t)
  BY <1>1, StepEffects DEF IInv, ThreadsOK
<1>2. CASE OtherWriter \/ UNCHANGED vars
  BY <1>2 DEF OtherWriter, vars, dbVars
<1> QED
  BY <1>1, <1>2, NextCases

\* The types of all variables, at every number of threads, steps and
\* operations: no thread writes a row the tables cannot hold.
THEOREM TypeCorrect == Spec => []TypeOK
<1>1. IInv => TypeOK
  BY DEF IInv
<1> QED
  BY <1>1, Invariant, PTL

\* A run never reports a step completed whose command is not in the ledger,
\* however many threads hold snapshots of it (_record_step_completion).
THEOREM NoUnearnedCompletion == Spec => []CompletedWasCommitted
<1>1. IInv => CompletedWasCommitted
  BY DEF IInv, DataOK
<1> QED
  BY <1>1, Invariant, PTL

\* A run that is COMPLETED has done every step of its plan (_finalize_run,
\* which compares no version).
THEOREM CompletedMeansWhole == Spec => []CompletedRunIsWhole
<1>1. IInv => CompletedRunIsWhole
  BY DEF IInv, DataOK
<1> QED
  BY <1>1, Invariant, PTL

\* The commands of a run reach the project in plan order (_advance and the
\* ledger of the command bus).
THEOREM PlanOrder == Spec => []CommittedInPlanOrder
<1>1. IInv => CommittedInPlanOrder
  BY DEF IInv, DataOK
<1> QED
  BY <1>1, Invariant, PTL

\* No governed step is committed without an approval of that step at the very
\* revision it was committed on, and no denied step is (_evaluate_step_policy,
\* decide_approval, CommandBus.execute).
THEOREM ApprovalCannotBeBypassed == Spec => []GovernedStepsAreApproved
<1>1. IInv => GovernedStepsAreApproved
  BY DEF IInv, DataOK
<1> QED
  BY <1>1, Invariant, PTL

\* A command that is in the ledger is never committed again (INSERT of
\* command_idempotency in the transaction of the revision).
THEOREM NoDoubleCommit == Spec => CommittedOnce
<1>1. IInv /\ [Next]_vars => [\A s \in Steps : ledger[s] # 0 => ledger'[s] = ledger[s]]_vars
  <2> SUFFICES ASSUME IInv, [Next]_vars
               PROVE  \A s \in Steps : ledger[s] # 0 => ledger'[s] = ledger[s]
    OBVIOUS
  <2> QED
    BY NextEffects DEF Effects, LedgerEffect
<1> QED
  BY <1>1, Invariant, PTL DEF Spec, CommittedOnce

\* No write of any thread changes a run that is CANCELLED or COMPLETED
\* (transition_run and update_progress).
THEOREM TerminalIsFinal == Spec => TerminalRunIsFrozen
<1>1. IInv /\ [Next]_vars => [run.status \in TerminalStatuses => run' = run]_vars
  <2> SUFFICES ASSUME IInv, [Next]_vars, run.status \in TerminalStatuses PROVE run' = run
    OBVIOUS
  <2> QED
    BY NextEffects DEF Effects, RunEffect
<1> QED
  BY <1>1, Invariant, PTL DEF Spec, TerminalRunIsFrozen

\* A completed step is never forgotten, and none is recorded while the run is
\* paused, waiting, failed or over (_record_step_completion).
THEOREM ProgressIsGuarded == Spec => ProgressOnlyWhileRunning
<1>1. IInv /\ [Next]_vars =>
        [/\ run.completed \subseteq run'.completed
         /\ run'.completed # run.completed => run.status = "RUNNING"]_vars
  <2> SUFFICES ASSUME IInv, [Next]_vars
               PROVE  /\ run.completed \subseteq run'.completed
                      /\ run'.completed # run.completed => run.status = "RUNNING"
    OBVIOUS
  <2> QED
    BY NextEffects DEF Effects, RunEffect
<1> QED
  BY <1>1, Invariant, PTL DEF Spec, ProgressOnlyWhileRunning

-----------------------------------------------------------------------------
(* A run is the execution of its plan.                                      *)

\* What the abstract machine sees of a step that leaves the row of the run alone.
LEMMA SeenElsewhere ==
    ASSUME IInv, TypeOK', NEW t \in Threads, ThreadOK(t), Effects(t), run' = run
    PROVE  Plan!PlanNext \/ UNCHANGED Plan!planVars
<1>1. PermissionOf' = PermissionOf
  BY Monotone DEF IInv, PermissionOf
<1>2. ApprovedSteps \subseteq ApprovedSteps'
  BY Monotone DEF IInv, ApprovedSteps
<1>3. ASSUME NEW s \in Steps, s \in Committed', s \notin Committed
      PROVE  /\ pc[t] = "commit" /\ s = step[t]
             /\ DoneBefore(s) /\ Policy(s) # "DENIED" /\ (Governed(s) => s \in ApprovedSteps)
  <2>1. pc[t] = "commit" /\ s = step[t]
    BY <1>3 DEF Effects, LedgerEffect, Committed
  <2>2. Policy(s) # "DENIED" /\ (Governed(s) => Bound(t)) /\ DoneBefore(s)
    BY <2>1 DEF ThreadOK, PermissionKnown, StepKnown, WorkPlaces, ExecPlaces
  <2> QED
    BY <2>1, <2>2 DEF Bound, ApprovedSteps
<1>4. ASSUME NEW s \in Steps, s \in ApprovedSteps', s \notin ApprovedSteps
      PROVE  /\ pc[t] = "claim" /\ s = step[t]
             /\ DoneBefore(s) /\ Governed(s)
  <2>1. PICK a \in ApprovalIds : approvals'[a].step = s /\ approvals'[a].status = "APPROVED"
    BY <1>4 DEF ApprovedSteps
  <2>2. approvals'[a] # approvals[a]
    BY <1>4, <2>1 DEF ApprovedSteps
  <2>3. /\ approvals[a].status = "PENDING" /\ approvals[a].step = s
        /\ pc[t] = "claim" /\ a = approval[t]
    BY <2>1, <2>2 DEF Effects, RowEffect
  <2>4. Exists(a) /\ approvals[a].step = step[t]
    BY <2>3 DEF ThreadOK, ApprovalKnown, DecisionPlaces
  <2> QED
    BY <2>3, <2>4 DEF IInv, DataOK, RowsOK
<1>5. Committed \subseteq Steps /\ Committed' \subseteq Steps /\ Committed \subseteq Committed'
  BY Monotone DEF IInv, Committed
<1>6. ApprovedSteps \subseteq Steps /\ ApprovedSteps' \subseteq Steps
  BY DEF ApprovedSteps
<1>7. CASE Committed' = Committed /\ ApprovedSteps' = ApprovedSteps
  BY <1>1, <1>7 DEF Plan!planVars
<1>8. CASE Committed' # Committed
  <2>1. PICK s \in Steps : s \in Committed' /\ s \notin Committed
    BY <1>5, <1>8
  <2>2. Committed' = Committed \cup {s}
    BY <1>3, <1>5, <2>1
  <2>3. ApprovedSteps' = ApprovedSteps
    BY <1>2, <1>3, <1>4, <1>6, <2>1
  <2>4. Plan!Earlier(s) \subseteq run.completed
    BY <1>3, <2>1 DEF Plan!Earlier, DoneBefore
  <2>5. PermissionOf[s] = "none" \/ (PermissionOf[s] = "approval" /\ s \in ApprovedSteps)
    BY <1>3, <2>1 DEF PermissionOf
  <2>6. Plan!CommitStep(s)
    BY <1>1, <2>1, <2>2, <2>3, <2>4, <2>5 DEF Plan!CommitStep
  <2> QED
    BY <2>6 DEF Plan!PlanNext
<1>9. CASE Committed' = Committed /\ ApprovedSteps' # ApprovedSteps
  <2>1. PICK s \in Steps : s \in ApprovedSteps' /\ s \notin ApprovedSteps
    BY <1>2, <1>6, <1>9
  <2>2. ApprovedSteps' = ApprovedSteps \cup {s}
    BY <1>2, <1>4, <1>6, <2>1
  <2>3. Plan!Earlier(s) \subseteq run.completed
    BY <1>4, <2>1 DEF Plan!Earlier, DoneBefore
  <2>4. PermissionOf[s] = "approval"
    BY <1>4, <2>1 DEF PermissionOf, Governed
  <2>5. Plan!ApproveStep(s)
    BY <1>1, <1>9, <2>2, <2>3, <2>4 DEF Plan!ApproveStep
  <2> QED
    BY <2>5 DEF Plan!PlanNext
<1> QED
  BY <1>7, <1>8, <1>9

\* A step that writes the row of the run: a transition or a completion.
LEMMA SeenRow ==
    ASSUME IInv, TypeOK', NEW t \in Threads, ThreadOK(t), Effects(t), run' # run
    PROVE  Plan!PlanNext \/ UNCHANGED Plan!planVars
<1>1. PermissionOf' = PermissionOf
  BY Monotone DEF IInv, PermissionOf
<1>2. /\ run.status \notin TerminalStatuses
      /\ run'.status = "COMPLETED" => pc[t] = "finalize"
      /\ \/ run'.status = run.status
         \/ run.status = "ABSENT" /\ run'.status = "PLANNING"
         \/ CanMove(run.status, run'.status)
      /\ \/ run'.completed = run.completed
         \/ /\ pc[t] = "record" /\ run.status = "RUNNING" /\ run'.status = "RUNNING"
            /\ run'.completed = run.completed \cup {step[t]}
      /\ pc[t] \notin {"commit", "claim"}
  BY DEF Effects, RunEffect
<1>3. Committed' = Committed
  BY <1>2 DEF Effects, LedgerEffect, Committed
<1>4. ApprovedSteps' = ApprovedSteps
  <2>1. ASSUME NEW a \in ApprovalIds
        PROVE  approvals'[a].status = "APPROVED" <=> approvals[a].status = "APPROVED"
    BY <1>2 DEF Effects, RowEffect
  <2>2. ASSUME NEW a \in ApprovalIds, approvals[a].status = "APPROVED"
        PROVE  approvals'[a].step = approvals[a].step
    BY <2>2, Monotone DEF IInv
  <2> QED
    BY <2>1, <2>2 DEF ApprovedSteps
<1>5. CASE run'.completed # run.completed
  <2>1. step[t] \in Steps /\ step[t] \in Committed
    BY <1>2, <1>5 DEF ThreadOK, StepKnown, CompletionKnown, WorkPlaces, ExecPlaces
  <2>2. Plan!CompleteStep(step[t])
    BY <1>1, <1>2, <1>3, <1>4, <1>5, <2>1 DEF Plan!CompleteStep
  <2> QED
    BY <2>1, <2>2 DEF Plan!PlanNext
<1>6. CASE run'.completed = run.completed /\ run'.status # run.status
  <2>1. run'.status \in Statuses
    BY DEF TypeOK, RunRow
  <2>2. run'.status = "COMPLETED" => run.completed = Steps
    BY <1>2 DEF ThreadOK, CompletionKnown
  <2>3. Plan!Move(run'.status)
    BY <1>1, <1>2, <1>3, <1>4, <1>6, <2>2 DEF Plan!Move, CanMove, ValidTransitions,
       Plan!CanMove, Plan!ValidTransitions
  <2> QED
    BY <2>1, <2>3 DEF Plan!PlanNext, Statuses, Plan!Statuses
<1>7. CASE run'.completed = run.completed /\ run'.status = run.status
  BY <1>1, <1>3, <1>4, <1>7 DEF Plan!planVars
<1> QED
  BY <1>5, <1>6, <1>7

\* Refinement: whatever threads, stale snapshots, crashes and other writers of the
\* project do, what a run approves, commits and completes is an execution of its
\* plan (_advance, _request_approval, _execute_step, decide_approval).
THEOREM RunImplementsPlan == Spec => PlanSpec
<1>1. Init => Plan!PlanInit
  <2> SUFFICES ASSUME Init PROVE Plan!PlanInit
    OBVIOUS
  <2>1. PermissionOf \in [Steps -> Plan!Permissions]
    BY DEF PermissionOf, Plan!Permissions
  <2>2. ApprovedSteps = {} /\ Committed = {} /\ run.completed = {} /\ run.status = "ABSENT"
    BY DEF Init, NoRun, NoApproval, ApprovedSteps, Committed
  <2> QED
    BY <2>1, <2>2 DEF Plan!PlanInit
<1>2. IInv /\ [Next]_vars => [Plan!PlanNext]_(Plan!planVars)
  <2> SUFFICES ASSUME IInv, [Next]_vars PROVE [Plan!PlanNext]_(Plan!planVars)
    OBVIOUS
  <2>1. TypeOK'
    BY Inductive DEF IInv
  <2>2. ASSUME NEW t \in Threads, ThreadOK(t), Effects(t) PROVE Plan!PlanNext \/ UNCHANGED Plan!planVars
    BY <2>1, <2>2, SeenElsewhere, SeenRow
  <2>3. CASE UNCHANGED <<run, plan, approvals, ledger>>
    BY <2>3 DEF Plan!planVars, PermissionOf, Policy, Governed, ApprovedSteps, Committed
  <2> QED
    BY <2>2, <2>3, NextEffects
<1> QED
  BY <1>1, <1>2, Invariant, PTL DEF Spec, PlanSpec, Plan!PlanSpec

-----------------------------------------------------------------------------
(* The run is one client among the writers of its project.                  *)

\* A command never reaches the bus without the revision it expects.
GivenTo(t) == pc[t] \in {"lookup", "precheck", "commit"} => expected[t] # 0
RevisionGiven == \A t \in Threads : GivenTo(t)

\* A thread that moves on to a place where the revision is needed has it.
LEMMA OwnRevisionGiven ==
    ASSUME TypeOK, NEW t \in Threads, ThreadOK(t), GivenTo(t),
           Operation(t) \/ Continue(t) \/ Crash(t)
    PROVE  GivenTo(t)'
<1> USE DEF TypeOK, GivenTo
<1>1. CASE Check(t) \/ ReadRevision(t) \/ Lookup(t) \/ Precheck(t)
  BY <1>1 DEF Check, ReadRevision, Lookup, Precheck, Goto, At
<1>2. CASE \/ Advance(t) \/ ApprovalRevision(t) \/ ApprovalLookup(t) \/ CreateApproval(t)
           \/ Approved(t)
  BY <1>2 DEF Advance, ApprovalRevision, ApprovalLookup, CreateApproval, Approved,
     Hold, Goto, Return
<1>3. CASE \/ Ready(t) \/ Running(t) \/ Progress(t) \/ Commit(t) \/ Record(t) \/ Fail(t)
           \/ Finalize(t) \/ Wait(t) \/ Pause(t) \/ CancelApprovals(t) \/ Cancel(t)
  BY <1>3 DEF Ready, Running, Progress, Commit, Record, Fail, Finalize, Wait, Pause,
     CancelApprovals, Cancel, Goto, Return
<1>4. CASE \/ ResumeApproval(t) \/ Recover(t) \/ ResumeRevision(t) \/ Unpause(t)
           \/ RetryRevision(t) \/ Retry(t) \/ DecideRevision(t) \/ DecideStale(t)
           \/ Decide(t) \/ Reject(t) \/ Approve(t) \/ Crash(t)
  BY <1>4 DEF ResumeApproval, Recover, ResumeRevision, Unpause, RetryRevision, Retry,
     DecideRevision, DecideStale, Decide, Reject, Approve, Crash, Goto, Return
<1>5. ASSUME Operation(t) PROVE GivenTo(t)'
  <2>1. ASSUME NEW where, where \notin {"lookup", "precheck", "commit"}, Hold(t, where)
        PROVE  GivenTo(t)'
    BY <2>1 DEF Hold
  <2>2. CASE Start(t) \/ DecideBegin(t)
    BY <2>2 DEF Start, DecideBegin, Goto
  <2> QED
    BY <1>5, <2>1, <2>2 DEF Operation, PauseBegin, CancelBegin, ResumeBegin, RetryBegin
<1>6. ASSUME EvaluatePolicy(t) PROVE GivenTo(t)'
  <2>1. step[t] \in Steps
    BY <1>6 DEF EvaluatePolicy, At, ThreadOK, StepKnown, WorkPlaces
  <2>2. Policy(step[t]) \in PolicyResults
    BY <2>1, PolicyType
  <2> QED
    BY <1>6, <2>2 DEF EvaluatePolicy, PolicyResults, Governed
<1> QED
  BY <1>1, <1>2, <1>3, <1>4, <1>5, <1>6 DEF Continue

LEMMA RevisionIsGiven == Spec => []RevisionGiven
<1>1. Init => RevisionGiven
  BY DEF Init, RevisionGiven, GivenTo
<1>2. IInv /\ RevisionGiven /\ [Next]_vars => RevisionGiven'
  <2> SUFFICES ASSUME IInv, RevisionGiven, [Next]_vars, NEW u \in Threads PROVE GivenTo(u)'
    BY DEF RevisionGiven
  <2>1. GivenTo(u) /\ TypeOK /\ ThreadOK(u)
    BY DEF RevisionGiven, IInv, ThreadsOK
  <2>2. ASSUME NEW t \in Threads, Operation(t) \/ Continue(t) \/ Crash(t) PROVE GivenTo(u)'
    <3>1. CASE t = u
      BY <2>1, <2>2, <3>1, OwnRevisionGiven
    <3>2. CASE t # u
      <4>1. Effects(t)
        BY <2>2, StepEffects DEF IInv, ThreadsOK
      <4> QED
        BY <2>1, <3>2, <4>1 DEF Effects, ThreadWaits, GivenTo
    <3> QED
      BY <3>1, <3>2
  <2>3. CASE OtherWriter \/ UNCHANGED vars
    BY <2>1, <2>3 DEF OtherWriter, vars, threadVars, GivenTo
  <2> QED
    BY <2>2, <2>3, NextCases
<1> QED
  BY <1>1, <1>2, Invariant, PTL DEF Spec

\* The transaction that succeeds, and the only one that writes to the ledger.
Succeeds(t) ==
    /\ pc[t] = "commit"
    /\ revision = expected[t] /\ ledger[step[t]] = 0
    /\ revision' = expected[t] + 1
    /\ ledger' = [ledger EXCEPT ![step[t]] = expected[t] + 1]

LEMMA OnlyCommitWrites ==
    ASSUME [Next]_vars
    PROVE  ledger' = ledger \/ \E t \in Threads : Succeeds(t)
<1> USE DEF OnlyRun, ReadOnly, dbVars
<1>1. ASSUME NEW t \in Threads, Operation(t) PROVE ledger' = ledger
  BY <1>1 DEF Operation, Start, PauseBegin, CancelBegin, ResumeBegin, RetryBegin, DecideBegin
<1>2. ASSUME NEW t \in Threads, Continue(t), ~Commit(t) PROVE ledger' = ledger
  BY <1>2 DEF Continue, Ready, Advance, Running, Progress, EvaluatePolicy, Check, ReadRevision,
     Lookup, Precheck, Record, Fail, Finalize, ApprovalRevision, ApprovalLookup, CreateApproval,
     Wait, Pause, CancelApprovals, Cancel, ResumeApproval, Recover, ResumeRevision, Unpause,
     RetryRevision, Retry, DecideRevision, DecideStale, Decide, Reject, Approve, Approved
<1>3. ASSUME NEW t \in Threads, Commit(t) PROVE ledger' = ledger \/ Succeeds(t)
  BY <1>3 DEF Commit, Succeeds, At
<1>4. ASSUME NEW t \in Threads, Crash(t) PROVE ledger' = ledger
  BY <1>4 DEF Crash
<1>5. CASE OtherWriter \/ UNCHANGED vars
  BY <1>5 DEF OtherWriter, vars
<1> QED
  BY <1>1, <1>2, <1>3, <1>4, <1>5, NextCases

\* It commits the step on the revision the project has.
LEMMA SuccessIsACommit ==
    ASSUME IInv, RevisionGiven, NEW t \in Threads, Succeeds(t)
    PROVE  step[t] \in Steps /\ View!Commit({step[t]})
<1>1. step[t] \in Steps /\ revision \in Nat /\ ledger \in [Steps -> Nat]
  BY DEF Succeeds, IInv, TypeOK, ThreadsOK, ThreadOK, StepKnown, WorkPlaces, ExecPlaces
<1>2. revision # 0
  BY DEF Succeeds, RevisionGiven, GivenTo
<1>3. /\ ledger'[step[t]] = revision + 1
      /\ \A s \in Steps : s # step[t] => ledger'[s] = ledger[s]
  BY <1>1 DEF Succeeds
<1>4. Committed' = Committed \cup {step[t]} /\ step[t] \notin Committed
  BY <1>1, <1>3 DEF Succeeds, Committed
<1>5. \A e \in RunCommits : e.id \notin {step[t]}
  BY <1>4 DEF RunCommits
<1>6. \A s \in Committed : s \in Steps /\ s # step[t]
  BY <1>4 DEF Committed
<1>7. RunCommits' = RunCommits \cup {[id |-> i, rev |-> revision + 1] : i \in {step[t]}}
  <2> DEFINE Old(s) == [id |-> s, rev |-> ledger[s]]
             New(s) == [id |-> s, rev |-> ledger'[s]]
             Row(i) == [id |-> i, rev |-> revision + 1]
  <2>1. RunCommits = {Old(s) : s \in Committed} /\ RunCommits' = {New(s) : s \in Committed'}
    BY DEF RunCommits
  <2>2. \A s \in Committed : New(s) = Old(s)
    BY <1>3, <1>6
  <2>3. New(step[t]) = Row(step[t])
    BY <1>3
  <2> HIDE DEF Old, New, Row
  <2>4. {New(s) : s \in Committed'} = {Old(s) : s \in Committed} \cup {Row(i) : i \in {step[t]}}
    BY <1>4, <2>2, <2>3
  <2> QED
    BY <2>1, <2>4 DEF Row
<1>8. revision' = revision + 1
  BY DEF Succeeds
<1> QED
  BY <1>1, <1>2, <1>5, <1>7, <1>8 DEF View!Commit

\* With its threads, approvals, crashes and stale snapshots, the run asks no more of
\* the bus and of the other writers than SharedLedger gives to any client, which
\* BusServesClient proves of the bus (CommandBus.execute, commit_transaction).
THEOREM RunIsAClient == Spec => RunSharesTheLedger
<1>1. Init => View!Init
  BY DEF Init, View!Init, RunCommits, Committed
<1>2. IInv /\ IInv' /\ RevisionGiven /\ [Next]_vars => [View!Next]_(View!vars)
  <2> SUFFICES ASSUME IInv, IInv', RevisionGiven, [Next]_vars PROVE View!Next
    OBVIOUS
  <2>1. CASE ledger' = ledger
    <3>1. revision' \in Nat
      BY DEF IInv, TypeOK
    <3>2. UNCHANGED RunCommits
      BY <2>1 DEF RunCommits, Committed
    <3> QED
      BY <3>1, <3>2 DEF View!Next, View!Disturb
  <2>2. ASSUME NEW t \in Threads, Succeeds(t) PROVE View!Next
    <3>1. {step[t]} \in (SUBSET Steps) \ {{}} /\ View!Commit({step[t]})
      BY <2>2, SuccessIsACommit
    <3> QED
      BY <3>1 DEF View!Next
  <2> QED
    BY <2>1, <2>2, OnlyCommitWrites
<1> QED
  BY <1>1, <1>2, Invariant, RevisionIsGiven, PTL DEF Spec, RunSharesTheLedger, View!Spec

-----------------------------------------------------------------------------
(* A run that is over is left by its threads.                               *)

\* How many steps of its own a thread is at most away from the end of its operation
\* once the run is over: every transition is refused then, and the loop not resumed.
Distance(place) ==
    CASE place = "idle" -> 0
      [] place \in {"ready", "advance", "running", "progress", "fail", "finalize", "wait",
                    "pause", "cancel", "recover", "unpause", "retry", "decideStale",
                    "reject", "approve"} -> 1
      [] place \in {"check", "record", "createApproval", "cancelApprovals", "resumeApproval",
                    "resumeRevision", "retryRevision", "claim"} -> 2
      [] place \in {"commit", "approvalLookup", "decideRevision", "approved"} -> 3
      [] place \in {"precheck", "approvalRevision"} -> 4
      [] place \in {"lookup", "policy"} -> 5
      [] place = "readRevision" -> 6

Over == run.status \in TerminalStatuses

LEMMA DistanceType == \A place \in Places : Distance(place) \in 0..6
  BY DEF Distance, Places

LEMMA NothingMovesOver ==
    ASSUME Over, NEW to, NEW row
    PROVE  ~CanMove(run.status, to) /\ ~Transition(to, row)
  BY DEF Over, TerminalStatuses, Transition, CanMove, ValidTransitions

\* Each step of a thread on a run that is over brings it nearer to the end.
LEMMA Descend ==
    ASSUME IInv, Over, NEW t \in Threads, Continue(t)
    PROVE  Distance(pc'[t]) < Distance(pc[t])
<1>1. pc \in [Threads -> Places] /\ run.status \in Statuses /\ run.status \in {"CANCELLED", "COMPLETED"}
  BY DEF IInv, TypeOK, RunRow, Over, TerminalStatuses
<1>2. \A to, row : ~CanMove(run.status, to) /\ ~Transition(to, row)
  BY NothingMovesOver
<1>3. \A where : Goto(t, where) => pc'[t] = where
  BY <1>1 DEF Goto
<1>4. Return(t) => pc'[t] = "idle"
  BY <1>1 DEF Return
<1>5. CASE Ready(t) \/ Running(t) \/ Recover(t) \/ Unpause(t) \/ Retry(t) \/ Approve(t)
  BY <1>2, <1>4, <1>5 DEF Ready, Running, Recover, Unpause, Retry, Approve, At, Distance
<1>6. CASE Fail(t) \/ Finalize(t) \/ Wait(t) \/ Pause(t) \/ Cancel(t) \/ Reject(t) \/ DecideStale(t)
  BY <1>4, <1>6 DEF Fail, Finalize, Wait, Pause, Cancel, Reject, DecideStale, At, Distance
<1>7. CASE Advance(t)
  BY <1>1, <1>4, <1>7 DEF Advance, Halted, At, Distance
<1>8. CASE Progress(t)
  <2>1. pc[t] = "progress" /\ run.version # snap[t].version
    BY <1>1, <1>8 DEF Progress, At, UpdateProgress, IInv, ThreadsOK, ThreadOK, StatusKnown
  <2> QED
    BY <1>4, <1>8, <2>1 DEF Progress, UpdateProgress, Distance
<1>9. CASE EvaluatePolicy(t)
  <2>1. pc[t] = "policy" /\ pc'[t] \in {"fail", "approvalRevision", "check"}
    <3>1. step[t] \in Steps
      BY <1>9 DEF EvaluatePolicy, At, IInv, ThreadsOK, ThreadOK, StepKnown, WorkPlaces
    <3>2. Policy(step[t]) \in PolicyResults
      BY <3>1, PolicyType
    <3> QED
      BY <1>1, <1>9, <3>2 DEF EvaluatePolicy, At, Governed, PolicyResults
  <2> QED
    BY <2>1 DEF Distance
<1>10. CASE Check(t)
  BY <1>1, <1>3, <1>10 DEF Check, At, Distance
<1>11. CASE ReadRevision(t) \/ Lookup(t) \/ Precheck(t)
  BY <1>1, <1>3, <1>11 DEF ReadRevision, Lookup, Precheck, At, Distance
<1>12. CASE Commit(t) \/ Record(t)
  BY <1>3, <1>4, <1>12 DEF Commit, Record, At, Distance
<1>13. CASE ApprovalRevision(t) \/ ApprovalLookup(t) \/ CreateApproval(t)
  BY <1>1, <1>3, <1>4, <1>13 DEF ApprovalRevision, ApprovalLookup, CreateApproval, At, Distance
<1>14. CASE CancelApprovals(t) \/ ResumeApproval(t) \/ RetryRevision(t) \/ ResumeRevision(t)
  BY <1>3, <1>4, <1>14 DEF CancelApprovals, ResumeApproval, RetryRevision, ResumeRevision, At, Distance
<1>15. CASE DecideRevision(t) \/ Decide(t) \/ Approved(t)
  BY <1>1, <1>3, <1>4, <1>15 DEF DecideRevision, Decide, Approved, At, Distance
<1> QED
  BY <1>5, <1>6, <1>7, <1>8, <1>9, <1>10, <1>11, <1>12, <1>13, <1>14, <1>15 DEF Continue

\* No operation begins on a run that is over, and nobody else moves a thread.
LEMMA NeverFarther ==
    ASSUME IInv, Over, NEW t \in Threads, [Next]_vars
    PROVE  Over' /\ Distance(pc'[t]) <= Distance(pc[t])
<1>1. pc \in [Threads -> Places] /\ Distance(pc[t]) \in 0..6 /\ Distance(pc'[t]) \in 0..6
  BY Inductive, DistanceType DEF IInv, TypeOK
<1>2. Over'
  BY NextEffects DEF Over, Effects, RunEffect
<1>3. ASSUME pc'[t] = pc[t] PROVE Distance(pc'[t]) <= Distance(pc[t])
  <2>1. Distance(pc'[t]) = Distance(pc[t])
    BY <1>3
  <2> QED
    BY <1>1, <2>1
<1>4. ASSUME NEW u \in Threads, Operation(u) PROVE FALSE
  BY <1>4 DEF Operation, Start, PauseBegin, CancelBegin, ResumeBegin, RetryBegin, DecideBegin,
     Over, TerminalStatuses
<1>5. ASSUME NEW u \in Threads, u # t, Continue(u) \/ Crash(u)
      PROVE  pc'[t] = pc[t]
  <2>1. ThreadOK(u) /\ TypeOK /\ DataOK
    BY DEF IInv, ThreadsOK
  <2>2. Effects(u)
    BY <1>5, <2>1, StepEffects
  <2>3. ThreadWaits(t)
    BY <1>5, <2>2 DEF Effects
  <2> QED
    BY <2>3 DEF ThreadWaits
<1>6. CASE Continue(t)
  BY <1>1, <1>2, <1>6, Descend
<1>7. CASE Crash(t)
  <2>1. pc'[t] = "idle"
    BY <1>1, <1>7 DEF Crash, Return
  <2>2. Distance("idle") = 0
    BY DEF Distance
  <2> QED
    BY <1>1, <1>2, <2>1, <2>2
<1>8. CASE OtherWriter \/ UNCHANGED vars
  BY <1>2, <1>3, <1>8 DEF OtherWriter, threadVars, vars
<1> QED
  BY <1>2, <1>3, <1>4, <1>5, <1>6, <1>7, <1>8, NextCases

\* At most k steps from the end.
Near(t, k) == Over /\ Distance(pc[t]) <= k

LEMMA OneStepNearer ==
    ASSUME IInv, NEW t \in Threads, NEW k \in 1..6
    PROVE  /\ Near(t, k) /\ [Next]_vars => Near(t, k)'
           /\ Near(t, k) /\ <<Continue(t)>>_vars => Near(t, k - 1)'
           /\ Near(t, k) /\ NobodyIsStuck => Near(t, k - 1) \/ ENABLED <<Continue(t)>>_vars
<1>1. pc[t] \in Places /\ Distance(pc[t]) \in 0..6
  BY DistanceType DEF IInv, TypeOK
<1>2. ASSUME Near(t, k), [Next]_vars PROVE Near(t, k)' /\ Distance(pc'[t]) \in 0..6
  <2>1. pc'[t] \in Places
    BY <1>2, Inductive DEF IInv, TypeOK
  <2>2. Distance(pc'[t]) \in 0..6
    BY <2>1, DistanceType
  <2>3. Over' /\ Distance(pc'[t]) <= Distance(pc[t])
    BY <1>2, NeverFarther DEF Near
  <2> QED
    BY <1>1, <1>2, <2>2, <2>3 DEF Near
<1>3. ASSUME Near(t, k), <<Continue(t)>>_vars PROVE Near(t, k - 1)'
  <2>1. [Next]_vars
    BY <1>3 DEF Next, SteadyNext
  <2>2. Over' /\ Distance(pc'[t]) \in 0..6
    BY <1>2, <1>3, <2>1 DEF Near
  <2>3. Distance(pc'[t]) < Distance(pc[t])
    BY <1>3, Descend DEF Near
  <2> QED
    BY <1>1, <1>3, <2>2, <2>3 DEF Near
<1>4. ASSUME Near(t, k), NobodyIsStuck, ~Near(t, k - 1) PROVE ENABLED <<Continue(t)>>_vars
  <2>1. pc[t] # "idle"
    BY <1>1, <1>4 DEF Near, Distance
  <2>2. ~AtBound(t)
    <3> SUFFICES ASSUME AtBound(t) PROVE FALSE
      OBVIOUS
    <3>1. run.status = "RUNNING"
      BY DEF AtBound, IInv, ThreadsOK, ThreadOK, StatusKnown
    <3> QED
      BY <1>4, <3>1 DEF Near, Over, TerminalStatuses
  <2> QED
    BY <1>4, <2>1, <2>2 DEF NobodyIsStuck
<1> QED
  BY <1>2, <1>3, <1>4

LEMMA OneThreadLeaves ==
    ASSUME NEW t \in Threads
    PROVE  [][Next]_vars /\ Scheduled(t) /\ []IInv /\ []NobodyIsStuck => LeavesTerminalRun(t)
<1>1. ASSUME NEW k \in 1..6
      PROVE  /\ IInv /\ Near(t, k) /\ [Next]_vars => Near(t, k)'
             /\ IInv /\ Near(t, k) /\ <<Continue(t)>>_vars => Near(t, k - 1)'
             /\ IInv /\ Near(t, k) /\ NobodyIsStuck => Near(t, k - 1) \/ ENABLED <<Continue(t)>>_vars
  BY OneStepNearer
<1>2. /\ IInv /\ Near(t, 1) /\ [Next]_vars => Near(t, 1)'
      /\ IInv /\ Near(t, 1) /\ <<Continue(t)>>_vars => Near(t, 0)'
      /\ IInv /\ Near(t, 1) /\ NobodyIsStuck => Near(t, 0) \/ ENABLED <<Continue(t)>>_vars
  BY <1>1
<1>3. /\ IInv /\ Near(t, 2) /\ [Next]_vars => Near(t, 2)'
      /\ IInv /\ Near(t, 2) /\ <<Continue(t)>>_vars => Near(t, 1)'
      /\ IInv /\ Near(t, 2) /\ NobodyIsStuck => Near(t, 1) \/ ENABLED <<Continue(t)>>_vars
  BY <1>1
<1>4. /\ IInv /\ Near(t, 3) /\ [Next]_vars => Near(t, 3)'
      /\ IInv /\ Near(t, 3) /\ <<Continue(t)>>_vars => Near(t, 2)'
      /\ IInv /\ Near(t, 3) /\ NobodyIsStuck => Near(t, 2) \/ ENABLED <<Continue(t)>>_vars
  BY <1>1
<1>5. /\ IInv /\ Near(t, 4) /\ [Next]_vars => Near(t, 4)'
      /\ IInv /\ Near(t, 4) /\ <<Continue(t)>>_vars => Near(t, 3)'
      /\ IInv /\ Near(t, 4) /\ NobodyIsStuck => Near(t, 3) \/ ENABLED <<Continue(t)>>_vars
  BY <1>1
<1>6. /\ IInv /\ Near(t, 5) /\ [Next]_vars => Near(t, 5)'
      /\ IInv /\ Near(t, 5) /\ <<Continue(t)>>_vars => Near(t, 4)'
      /\ IInv /\ Near(t, 5) /\ NobodyIsStuck => Near(t, 4) \/ ENABLED <<Continue(t)>>_vars
  BY <1>1
<1>7. /\ IInv /\ Near(t, 6) /\ [Next]_vars => Near(t, 6)'
      /\ IInv /\ Near(t, 6) /\ <<Continue(t)>>_vars => Near(t, 5)'
      /\ IInv /\ Near(t, 6) /\ NobodyIsStuck => Near(t, 5) \/ ENABLED <<Continue(t)>>_vars
  BY <1>1
<1>8. IInv /\ run.status \in TerminalStatuses => Near(t, 6)
  BY DistanceType DEF IInv, TypeOK, Near, Over
<1>9. IInv /\ Near(t, 0) => pc[t] = "idle"
  BY DistanceType DEF IInv, TypeOK, Near, Distance, Places
<1> QED
  BY <1>2, <1>3, <1>4, <1>5, <1>6, <1>7, <1>8, <1>9, PTL DEF Scheduled, LeavesTerminalRun

\* TerminalRunIsLeft, for any plan, threads and bounds, as long as a thread that is
\* scheduled can take a step: NobodyIsStuck.
THEOREM EveryoneLeaves == FairSpec /\ []NobodyIsStuck => TerminalRunIsLeft
<1>1. FairSpec => [][Next]_vars /\ []IInv
  BY Invariant, PTL DEF FairSpec, Spec
<1>2. FairSpec => \A t \in Threads : Scheduled(t)
  BY DEF FairSpec
<1>3. ASSUME NEW t \in Threads
      PROVE  FairSpec /\ []NobodyIsStuck => LeavesTerminalRun(t)
  <2>1. FairSpec => Scheduled(t)
    BY <1>2
  <2> QED
    BY <1>1, <2>1, OneThreadLeaves, PTL
<1> QED
  BY <1>3 DEF TerminalRunIsLeft
=============================================================================
