# BAZspark: specification of the execution core and its queues

BAZspark is a platform for fire and electrical engineering.  A language model or
a user proposes *commands* on a building project; the backend decides whether
they may run, runs them, and keeps one canonical, versioned state of each
project.  Around that core are queues and channels: to Revit and AutoCAD on the
engineer's desk, to subscribers of webhooks, between the distributed engines.
This directory holds TLA+ modules of these parts, the configurations that check
them with TLC, and theorems about them that are proved with TLAPS.

    tlc -config MCCommandBus.cfg MCCommandBus.tla     checks a configuration
    tlapm AgentRunProofs.tla                          checks the proofs (about 3 minutes)

## 1. Inventory of the system

### 1.1 The execution core (modelled)

| component | state | operations | what makes it correct |
|---|---|---|---|
| **Command bus** `backend/core/command_bus.py` over **state store** `state_store.py` | tables `project_revisions`, `command_executions` (the idempotency ledger), `domain_events`, `canonical_states` | `execute`: authenticate, check keys, capability and scopes, look the command up in the ledger, compare the revision, run the handler, commit; `commit_transaction`, `commit_composite_transaction` | two workers never both win one revision; the revision counts the commits; ledger and events tell one story; a success is durable; a command id is executed once |
| **Workflow executor** `workflow_engine.py` | none of its own; an overlay of the canonical state while it runs | `execute`: order the DAG, run every step on the overlay, commit all of them at one revision | a composite is all or nothing, and counts as one commit |
| **Other writers** `handle_user_mutation` in `routers/agent_ws.py`, `execute_import` in `import_orchestrator.py`, `delete_project` in `db/repositories/project.py` | the same `project_revisions` row | read the revision, later write it; delete the project | a command is executed once whatever they do; their writes neither undo commits nor bring back what is deleted (they can: section 5) |
| **Agent run orchestrator** `agent_run_orchestrator.py` over **run store** `agent_run_store.py` | `agent_runs` (status, version, completed and failed steps, pending approval, recovery state), `pending_approvals`, `approval_decisions` | `start_run`, the loop `_advance`, `pause_run`, `cancel_run`, `resume_run`, `retry_run`, `decide_approval` | progress is never claimed without the commit nor lost; governed steps run only on their approval, on the approved revision; plan order; terminal runs are final |
| **Execution policy** `execution_policy.py` | none | `build_policy_context`, `evaluate_execution_policy` | caution never relaxes a decision; the execution mode bypasses neither a denial nor a human review |

How they interact: an HTTP request or a websocket message calls one lifecycle
operation of the orchestrator in a thread of its own.  The loop evaluates the
policy of the next step of the plan, asks for an approval or sends the step to
the command bus as a command with the run's id and the step's id, and records the
completion.  Commands of other clients, workflows, imports and manual edits write
the same revision row.  All parts share one database; nothing else is shared
between the threads.  `backend/core/database.py` runs a transaction under a
process-wide lock (`_transaction`, lines 329-345) and commits or rolls back as a
whole, so a method of a store is one atomic step; every *sequence* of two methods
can be interleaved with anything, and cut off by a crash.

What is hard here: the orchestrator works on snapshots of a row while other
threads change it; only two of its writes compare the version; completions,
failures and cancellations arrive in any order; a crash falls between a commit
and its record; the revision checked is not the revision written; approvals can
be older than what they approve.

### 1.2 Queues, channels and the analysis pipeline (modelled)

| component | state | operations | what makes it correct |
|---|---|---|---|
| **Event processor** `facp_distributed/event_bus/event_processor.py` over four **message queues** `message_queue.py` | the heaps of the queues input, output, retry and dead, each with its topic heaps; attempts; the circuit and the failure records | `submit_event`, the loop `_processing_worker` (filter, circuit, stages, delivery, retry, dead letter), `stop` | an event has one place and one fate; none is lost without a reason; every event is settled |
| **Workflow service** `backend/services/workflow_service.py` | the state of one analysis: rooms, results, conflicts, review, status | the nodes of the graph, `approve_workflow`, `reject_workflow` | a design with a room that lacks a detector is not completed; critical issues are reviewed (they are not: section 5) |
| **Revit MCP server** `fireai/mcp_server` and its **add-in** `templates/revit_addin` | the server's queue, the circuit breaker, the named pipe; the add-in's queue and its external event | the update requests, `send_command`, `EnqueueAction`, `Execute`, start and end of Revit | the client is told the truth; updates are executed in order; each is executed (it need not be: section 5) |
| **Webhook service** `fireai/infrastructure/webhook_service.py` | subscriptions, deliveries, the dead-letter queue | `subscribe`, `publish_event`, `_deliver_with_retry`, `replay_dead_letter`, `clear_dead_letter_queue` | a dead letter is in one place; what is settled stays so; every delivery ends |
| **Desktop agent channel** the endpoint and `send_agent_command` in `backend/routers/agent_ws.py` | sessions, the registry of the one agent, futures in two tables, a lock for each session | registration, replacement, heartbeat and end of a session; sending a command and awaiting the response | no call hangs; the answer is that of the command; no future leaks |

These parts meet the core only through requests: a capability handler may send a
command to the desktop agent, an engine may publish an event.  Nothing of the
core's state depends on their answers except whether a handler fails, which the
bus model leaves open.  Among themselves they share nothing.

What is hard here: a message can be in a queue, in a thread's hands or in two
queues' lengths at once; a put waits while it holds the lock a get needs; two
answers race with a timeout, a replacement and a disconnection; one event of
Revit stands for several raises; an entry taken out for a replay comes back into
a queue that has changed.

### 1.3 The rest of the repository

| part | state and hard behaviour | here |
|---|---|---|
| FACP priorities, acknowledgement, expiry, dispatcher, transport (`facp_distributed/event_bus`, `transport`) | an in-flight table that the processor does not use: it never acknowledges | partly, with the event processor |
| FACP scheduler, balancer, engine pool (`l2_orchestrator`, `l3_engine_workers`) | a scaling decision and listeners under locks that are not reentrant | not modelled: production code does not instantiate them |
| FDS jobs (`services/fds_queue_service.py`, `routers/fds_webhook.py`) | a job is one status that the last message overwrites | not modelled |
| Retry and circuit breaker (`core/retry.py`) | a decorator that production code does not apply | not modelled |
| Digital twin, session and shared state, audit store, ETAP adapter | snapshots, expiring entries, a hash chain, a breaker around a simulator | not modelled |
| Project and device repositories | the canonical row a project is created with and its deletion are in the modules; the rest is CRUD | partly |
| Registry and planners, export, routers, authentication, gateway | static tables, language model calls, single transactions, checks of single requests | not modelled: no protocol of their own |
| Engineering engines, QOMN, marine, parsers, other add-ins, front end, deployment | numerical code over real numbers and geometry, file formats, user interfaces | not modelled: out of TLC's reach |

The engineering engines, parsers and the user interface are most of the repository's
lines; what is modelled is most of what keeps state across requests and threads.
PROJECT.json lists all parts with their sources, and all hazards with their lines.

## 2. Modules

    CommandLedger                     abstract: the ledger the bus promises
       ^ implemented by
    CommandBus                        the transactions of bus, store and workflows
       ^ extended by                    (CommandBusProofs)
    CanonicalWriters                  CommandBus + manual edits + imports + deletion
       | implements                     (also CommandBusProofs)
       v
    SharedLedger                      abstract: what one client is sure of among other writers
       ^ implemented by
    AgentRun                          (see below)

    ExecutionPolicy                   the decision function
       ^                ^
    PolicyChanges     AgentRun --> RunLifecycle     one run, its threads, its project
    (PolicyProofs)      |              ^            (AgentRunProofs)
                        | implements   |
                        v              |
                      PlanExecution ---+            abstract: a plan is carried out

    EventFates                        abstract: what becomes of an event
       ^ implemented by
    EventProcessor                    (EventProcessorProofs)

    UpdateFates                       abstract: one line of model updates
       ^ implemented by
    RevitBridge                       (RevitBridgeProofs)

    DeliveryLives                     abstract: what becomes of a webhook delivery
       ^ implemented by
    WebhookDelivery                   (WebhookDeliveryProofs)

    CommandCalls                      abstract: calls of the desktop agent
       ^ implemented by
    AgentChannel                      (AgentChannelProofs)

    ReviewPipeline                    (ReviewPipelineProofs)

A module whose name ends in `Proofs` extends the one it is beside and holds its theorems.

`MCComponents` puts the parts that share no state side by side: a behaviour belongs to
one of them, chosen in the initial state, while the others stay where they start.  So
each is explored in full, and nothing is multiplied.

Modules named `MC...` only give the constants values for TLC.  Operators that a
comment calls a mutant are faulty versions of the definition that follows them;
no specification uses them.  They are there to see that a property can fail.

### CommandBus

`Workers` are threads in `CommandBus.execute` or `WorkflowExecutor.execute`.

| action | code |
|---|---|
| `Submit` | a request arrives; authentication, keys, capability and scopes are checked before the store is touched |
| `Lookup` | `get_idempotent_command`: replay, key-reuse conflict, or go on; workflows and previews skip it |
| `Precheck` | `get_project_revision`, the comparison, the handlers, the answer of a preview |
| `Commit` | `commit_transaction` or `commit_composite_transaction`: compare again, write all or roll back |
| `Crash` | the process or the connection is lost; the database is not |
| `DeleteProject` | `delete_project`: the canonical row goes, ledger and events stay |

A project that exists at the start has the row of revision 1 that `create_project`
inserts; any other was never created.  Ids are fresh UUIDs, so no id comes into
being later under which a client already sends commands.

A payload stands for its hash.  A capability handler writes to none of the tables
modelled, so all of one is that it may fail.  `Requests` is the set of requests that clients may send; nothing limits
how often each is sent.

`CommandLedger` is what a client may rely on: a revision per project that grows by
one with each commit until the project is deleted, and commands committed at most once.  `CommandBus` maps its
`committed` to the project and revision of the ledger rows; the property
`LedgerSpec` says that each step of the bus is a commit of the ledger or nothing.

### CanonicalWriters

The two handlers read the revision and later write what they have read plus one.
They run on the event loop, so `loop` is the handler that holds it.  `EditSet`
writes, and gives up the loop at the `await` of `save_canonical_state`, which
`EditSave` performs from a thread.  `ImportRead` and `ImportWrite` are separate
transactions without an `await` between them: only the bus, in its threads, comes
in between.  `Delete` is the handler of `DELETE /projects/{id}`, which does not await
either: it can come between the two writes of an edit, not into an import.

### SharedLedger

What is left of `CommandLedger` once others write the revision: a client finds any revision at any time (`Disturb`), but
each of its commands is committed once at most, on the revision the project has, and stays committed.  It joins the two
models of the core.  `CanonicalWriters` implements it for the client with any commands, on any project: `View(p, own)` keeps the
project's revision and the ledger rows of those commands, and the commits of others, edits, imports and deletions are all `Disturb`.
`AgentRun` implements it as well: its steps are its commands, its own commits are `Commit`, and `OtherWriter` is `Disturb` up to
the bound `MaxRevision`.  So AgentRun assumes no more of its surroundings than CanonicalWriters gives, and leaves nothing out that the
other writers can do to a run.

### ExecutionPolicy and PolicyChanges

`Evaluate` is the code's chain of early returns, over contexts that keep what it
looks at.  `PolicyChanges` starts from every one of the 896 situations and tightens
them step by step.

### AgentRun

One run, with its row `run`, its rows of `pending_approvals` in the order created,
the revision of its project and the `ledger` of the bus for its commands.  Each of
`Threads` executes at most one lifecycle operation at a time and keeps what the
code keeps in local variables: the `AgentRun` object (`snap`), the step, the
`expected` revision and the approval.  `pc` names the next transaction.

| operation | actions |
|---|---|
| `start_run` | `Start`, `Ready` |
| `_advance` | `Advance`, `Running`, `Progress`, `EvaluatePolicy`, then one of the next two, or `Fail`, or `Finalize` |
| `_execute_step`, `CommandBus.execute`, `_record_step_completion` | `Check`, `ReadRevision`, `Lookup`, `Precheck`, `Commit`, `Record` |
| `_request_approval` | `ApprovalRevision`, `ApprovalLookup`, `CreateApproval`, `Wait` |
| `pause_run` | `PauseBegin`, `Pause` |
| `cancel_run` | `CancelBegin`, `CancelApprovals`, `Cancel` |
| `resume_run` | `ResumeBegin`, `ResumeApproval`, `Recover`, `ResumeRevision`, `Unpause` |
| `retry_run` | `RetryBegin`, `RetryRevision`, `Retry` |
| `decide_approval` | `DecideBegin`, `DecideRevision`, `DecideStale`, `Decide`, `Reject`, `Approve`, `Approved` |
| a restart or a lost thread | `Crash` |
| other runs, commands, edits and imports of the project, and its deletion | `OtherWriter`, which sets any revision or none: all that SharedLedger leaves them |

Two transition functions carry the code's guards: `Transition`, which checks the
transition table `ValidTransitions` against the row *in the transaction*, and
`UpdateProgress`, which compares the version with the snapshot's and checks no
status.

`plan` is what the row of the run says of its steps: the policy context of each.  It is one of
`Plans` and never changes.

`PlanExecution` is what a run promises: the steps of a plan are committed once and in order, governed
ones after their approval, reported done only while the run is RUNNING, and the status moves along the table.
`AgentRun` maps the decision of the policy to `permission`, the approval rows that are APPROVED to
`approved`, the ledger to `committed` and the column `completed` to `done`.  Threads, snapshots, versions,
revisions and crashes are hidden: `PlanSpec` says that none of them shows.

`completed` is a set because the code reads the list through `set(...)`.  The
policy of a step is the same whenever it is evaluated, because the plan is bound
to the owner's scopes and the governance policy when the run is created.  `revision` is 0 while
the project has no row: execution then fails, a decision or a resume that compares with the
last revision raises a TypeError and returns, and an approval that is asked for is stored with
revision 1.  Requests that are refused without a write are no step.

### EventFates and EventProcessor

A `MessageQueue` has one lock, the heap the processor takes from, and a heap for each topic
that it never takes from.  `Enqueue` puts into both; when the topic heap is full the put
waits for room inside the lock, so `lock[q]` names the thread that waits, and nothing can
be done with the queue from then on.

| action | code |
|---|---|
| `Submit`, `Divert` | `submit_event`: the input queue, or a second message to the retry queue, whose refusal nobody looks at |
| `Take`, `TakeNothing`, `Leave` | the dequeue of `_processing_worker`, and its exit |
| `Filter`, `FilterRaises`, `Gate`, `RunStages` | `_process_single_event`: filters, which may raise and then count as a failure whatever the circuit, `_is_circuit_open`, the stages |
| `Purge`, `Swap`, `SwapRaises`, `Count` | `_record_failure`, which goes through a dictionary that other workers change |
| `Deliver`, `Fail`, `Again` | the branches on the result |
| `Retake`, `RetakeNothing`, `Refill` | the look at the retry queue in each round |
| `Stop` | `stop` |

`EventFates` says what a producer may rely on: an event is accepted, pending, and then
delivered, dead or lost, once and for all.  `EventProcessor` maps its queues and hands to that.
`taken` is a history variable.  `failures` counts all records, since which stage failed matters to nothing here.

### ReviewPipeline

One analysis.  A room is three facts: its occupancy is known, it has an area, a detector can
be selected.  Each node of `build_fireai_workflow` is an action together with the function that routes after it;
`NodeRaises` is the handler in `_run_graph`.  `Gate`, `ApproveWorkflow` and `RejectWorkflow`
are modelled, though the proof shows that they are never reached; so `PipelineNext`, which
the run explores, is all there is, and the run `review_gate` and the theorem `NobodyReviews` use `ReviewNext`.

### RevitBridge

| action | code |
|---|---|
| `Refuse`, `Take` | `_handle_update_bim_parameter`, over `ThreadSafeModelUpdateQueue.enqueue` |
| `QueueBatch` | `_handle_room_classification` (one update) and `_handle_place_detector` (one for each device) |
| `PassGate`, `FailFast`, `CoolDown` | `can_execute` of the circuit breaker |
| `Connect`, `ConnectInVain`, `HearNothing` | `send_command` over the named pipe |
| `Enqueue`, `Raise`, `Respond`, `RespondInVain`, `Relisten` | `ListenLoop` of the add-in, its own thread |
| `Execute` | the external event's handler, in Revit's thread |
| `Shutdown`, `Startup` | `OnShutdown`, `OnStartup` of the add-in |

The server's loop over standard input serves one request at a time, so `server` and
`current` are the one request it is at.  The read of the answer has no timeout in the code,
and none here.

`enqueue` raises when an update is `Malformed` (it has no element or no parameter) or there is no room.  The loop over the
devices of a placement stops there: the request is refused as a whole, and the devices before it stay in the queue.  `Taken`
says how many.  The loop is one action because no other thread puts anything into that queue, and nobody takes
anything out.

`UpdateFates` has one line of updates instead of two queues, a request under way, a circuit and a pipe.  The line is
the server's queue, from which nothing is taken; the answers and fates are those of `RevitBridge`.  An update reaches
Revit while it is the newest of the line, is executed when no older one waits, and what the client is told is so,
except that a pipe error says nothing, and that a batch without room for its last updates is refused with its first ones accepted.

### WebhookDelivery

A delivery is an event and a subscription; its status tells whether it waits in the pool, is being
tried, or how it ended.  `Begin`, `Attempt` and `DeadLetter` are the thread of the pool,
`Publish` and `Return` the caller of `publish_event`, `TakeOut`, `FindSubscription`, `Redeliver` and
`PutBack` the four steps of `replay_dead_letter`: out of the queue under its lock, look for the subscription under another, one
attempt, back to the old index under the first.  What the slice `-dlq_max_size:` drops is `Excess`, with its quirk at 0.
An event of `Unencodable` has a payload that `json.dumps` refuses: its delivery raises before the first attempt, the pool's wrapper
logs that, and `Begin` leaves it `unsent`, neither delivered nor dead.

`DeliveryLives` knows no attempts, threads, positions or hands.  `LifeOf` calls a delivery pending while it is queued or tried, and
leaves the rest.  A pending delivery is delivered, cancelled, dropped unsent, or dies; a dead one is delivered by a replay, cleared, or evicted by a
newer one, and then only if as many dead letters as the queue has room for stay.

### AgentChannel

Everything runs on one event loop, so what lies between two `await`s is one action.

| action | code |
|---|---|
| `Register` | `_register_agent`: the newest client is the agent, and the futures of the session it replaces fail |
| `BeginHandling`, `EndHandling` | the message loop awaits a handler (a chat, an agent run), and reads nothing meanwhile |
| `Leave`, `Heartbeat`, `EndSession` | a closed or silent link, the heartbeat task, `_cleanup_agent` |
| `TurnAway`, `WaitForLock`, `SendAtOnce`, `SendAtOnceFails` | `send_agent_command` up to its first suspension |
| `Send`, `SendFails` | the lock comes free |
| `ReceiveResponse` | `_handle_response_message` |
| `Answer`, `Disconnected`, `TimeOut` | the end of `wait_for`, whose timeout may win over a future that has just failed, and the `finally` block (`Conclude`) |
| `AgentExecutes` | the agent, a program outside `src/backend` that may execute a command after its link is lost |

`CommandCalls` gives each session one call on the wire.  `Wire` maps it to the call that awaits a future of that
session; who holds or waits for a lock, which future is in which table and which socket is alive do not appear.

## 3. Runs

| run | question | distinct states |
|---|---|---|
| `bus` | two workers, eight requests that meet each other (same revision, repeated, key reused for another payload or project, workflows that share a command, previews), crashes, deletions: revision, ledger, events and answers agree, and the bus implements its ledger | 95 570 |
| `agent_run` | two threads, up to four lifecycle operations on a run of an ordinary and a governed step, crashes, other writers, and another plan of a governed and a denied step: all safety properties of a run; it implements the execution of its plan, and is one client of the shared ledger | 1 859 189 (modulo symmetry) |
| `terminal_left` | an ordinary plan of two steps: an operation under way can always go on, and under fairness every thread leaves a run that has ended | 287 675 |
| `event_processor` | one client, three events, two workers, queues of one or two messages: one place, one fate, no unexplained loss, and every event is settled | 169 414 |
| `components` | the other parts side by side: edits, imports and deletions beside the bus (duplicates included), all 896 situations of the policy with their tightenings, every file through the analysis, three BIM updates (one malformed) and a placement of two detectors, three webhook deliveries with one replayer and those of an event that cannot be encoded, two calls over two sessions; four of the parts implement their abstract specification, and nobody who must go on is stuck | 184 222 |
| `import_overwrites`, `live_approval`, `cancel_approvals`, `cancel_commit`, `review_gate`, `lost_wakeup`, `replaced_agent` | what a docstring or comment says and the code does not do: section 5 | violated |

What the properties of the passing runs say:

* `LedgerGapFree`, `EveryCommitAudited`, `SuccessIsDurable` tie the four views of a
  commit together: the revision, the ledger, the events and the answer the caller got.
* `AtMostOnce` shows that the primary key of the ledger protects against double
  execution even when another writer rewinds the revision, so that the revision
  check lets the duplicate through.
* `ClientsAreServed`: whatever else is written to a project, each client's commands are committed once, on the revision
  the project has at that moment.
* `PlanSpec`: whatever its threads do to each other, a run is the execution of its plan.  No stale snapshot, replay or
  lost race makes it claim what it has not done (`CompletedWasCommitted`, `CompletedRunIsWhole`, which are proved), nothing done is forgotten,
  nothing is recorded on a paused or cancelled run, and a denied step is never committed.
* `CommittedInPlanOrder`: a step is committed after all before it, although two loops,
  retries and decisions may execute steps at once.
* `GovernedStepsAreApproved`: a governed step was approved, is still recorded as
  approved, and was committed on the very revision that was approved.
* `RunSharesTheLedger`: after a crash between commit and record a retry replays (`CommittedOnce`, which is proved), and a
  commit builds on the revision that is there, although others set it back and forth.
* `TerminalRunIsFrozen`: a thread with an older snapshot cannot change a run that ended,
  although `update_progress` looks at no status.  It is the version that protects it.
* `TighteningNeverRelaxes`, `ModeBypassesNothing`: the order of the policy's rules.
* `EventInOnePlace`, `LossIsExplained`, `FatesSpec`: no event is processed twice at once or after its
  end, and the only ways to lose one are a filter, a full queue, and two failures recorded at once.
* `DeadEventsWereRetried`: an open circuit does not shorten the retries of an event.
* `IntakeIsForLife`, `JamIsForGood`: a queue takes in, *over its whole life*, as many messages of a topic as
  it has room for; the next put waits for ever with the lock.  These properties hold, and what they
  describe is a defect: a processor stops for good after `max_size` events.  `EveryEventIsSettled` shows that
  it is the only way, besides `stop`, in which an event is stuck.
* `CompletedDesignProtects`: what protects a design that nobody reviews is the status the report gives it.
* `AnswersAreTrue`, `ExecutedInOrder`: what a client hears of an update is so (of a refused placement, that it is not queued
  to its last device, and that nothing of it reaches Revit), and updates are executed
  in the order the server took them, through pipe errors and restarts of Revit.  `CapacityBoundsForwarding`: nobody
  takes updates out of the server's queue, so it bounds what ever reaches Revit.  `EveryUpdateIsAnswered`: the server
  never hangs at the pipe with a BIM parameter, the only updates it sends there.  `UpdateFatesSpec`: no update is executed twice, none is skipped, and those that Revit loses it
  loses together.
* `DeadLetterHasOnePlace`, `LivesSpec`: a replay neither duplicates an entry nor brings one back from
  an eviction or a clearing, and evictions leave the queue full; `DlqOutgrowsByReplays`: the limit of the queue is exceeded by at most one entry for each replayer.
  `EveryDeliveryEnds`: each delivery of an event that is published ends, also when the publisher has given up after its minute;
  if it cannot be encoded, it ends unsent and without a trace in the dead-letter queue.
* `CallsSpec`: late responses, replaced sessions and timeouts neither answer the wrong call, nor send a command
  twice, nor put two on one wire.  `NobodyAwaitsTheDeparted`, `NoFutureLeaks`, `EveryCallEnds`: they leave no call waiting.

* `NobodyIsStuck`, `PartsAreNotStuck`: an operation on a run, an update on its way to Revit, and a call that holds
  the lock of its session always have a next step of their own, or of the one they wait for.  These are the hypotheses of the liveness
  theorems of section 4.

The type invariants of the parts in `components` are proved for every instance (section 4) and no longer run.

### Bounds

* Two workers or threads: each hazard listed is a race of two, and crash and retry
  give a third actor one after the other.  The proofs of section 4 are for any number.
* `MaxOperations` (3 to 6) bounds the lifecycle operations that are *started*, so also
  the approvals.  Start, decide, pause or cancel, and resume or retry make four.  The
  path to the lost approval takes six.
* `MaxRevision` bounds what *other* writers leave; the run itself goes on from there.
  2 lets them move ahead of and back behind an approval.
* `MaxVersion` bounds the version at which a loop starts another round.  It is needed
  because two threads in `_advance` on one run (a resume of a RUNNING run starts a second
  loop) can raise the version alternately and drop each other's completions forever.  That
  is a livelock of the code: each loop re-reads, writes `current_step`, replays the committed
  step, and loses the compare-and-swap of `_record_step_completion` to the other's write.
  Weak fairness does not exclude it.
* Two steps in a plan: one before and one after.  `agent_run` has the plans ordinary then governed and governed then
  denied; each other run of AgentRun has the one plan it needs.
* `MaxRevision` in CanonicalWriters: no edit or import starts at or above it.
* Event processor: `Capacity` 2 for input and retry, 1 for output and dead; with three events every queue can be
  full, and a topic heap fills with two takes, so every jam happens.  `MaxRetries` 1 and `FailureThreshold` 2: an event is
  retried before it is dead, and two workers are needed to open the circuit.  The topic heap bounds all counters:
  no other bound is needed.
* Revit: three BIM updates, one of them malformed, and a placement of two detectors over a queue of two, which the placement
  finds empty, half full or full; a threshold of one, so that the circuit opens, cools down and is probed.
* Webhooks: two events, one of which cannot be encoded, each in a part of its own (`webhook`, `encoding`); three subscriptions, one thread in the pool, two attempts, a dead-letter queue of one, one replayer:
  eviction, a queue that grew past its limit, and a delivery cancelled before it began all happen.
* Channel: two sessions and two calls: replacement, and a call that waits for another.

### Fairness

`FairSpec` of AgentRun assumes `WF_vars(Continue(t))` for each thread: a thread under way is
scheduled.  The code justifies it, for an operation runs in a request's thread, no
transaction waits for another thread's progress (the database lock is released with each
transaction), and there is no queue between the steps.  Nothing is assumed of clients
(no operation is ever started for sure), of other writers, or of crashes, which may
happen or not.

* Event processor: each worker's loop, and the second put of a client that has begun to submit.  Not: a client's first
  put, `stop`, or that stages succeed.
* Revit: `Serve`, the loop of the server; `Attend` and `Relisten`, the loop of the add-in; `Execute`, for Revit calls
  a raised event when it is idle.  Not: that Revit starts or ends, or that a client asks.
* Webhooks: some thread of the pools goes on with an attempt, and some `publish_event` returns after its minute.  Weak fairness of
  all threads together is enough, for the attempts of a delivery are bounded and each event is published once.  Not: that a pool
  thread takes a delivery up (`EveryDeliveryEnds` holds by its cancellation), that an operator replays.
* Channel: what the event loop has to do (handlers return, the heartbeat notices a silent client, the session cleans up,
  responses are read, and a call goes on, by its timeout if by nothing else).  Not: that a client comes, leaves
  or answers.

`CHECK_DEADLOCK FALSE` stands where the system may stop: all operations used up and other writers confined to a
single revision, workers that have left or are blocked, an analysis at its end.

## 4. Proofs

### Agent runs and the policy

`AgentRunProofs` proves for every number of threads, every set of plans, every policy context of
their steps, and every value of the bounds:

| theorem | property |
|---|---|
| `TypeCorrect` | `TypeOK` |
| `NoUnearnedCompletion` | `CompletedWasCommitted`, proved only |
| `CompletedMeansWhole` | `CompletedRunIsWhole`, proved only |
| `PlanOrder` | `CommittedInPlanOrder` |
| `ApprovalCannotBeBypassed` | `GovernedStepsAreApproved` |
| `NoDoubleCommit` | `CommittedOnce`, proved only |
| `TerminalIsFinal` | `TerminalRunIsFrozen` |
| `ProgressIsGuarded` | `ProgressOnlyWhileRunning`, proved only |
| `RunImplementsPlan` | `PlanSpec`, the refinement of `PlanExecution` |
| `RunIsAClient` | `RunSharesTheLedger`, the refinement of `SharedLedger` |
| `EveryoneLeaves` | `TerminalRunIsLeft`, if `NobodyIsStuck` (see "Liveness") |

The assumptions are `AgentRunAssumption` only: a plan has at least one step, each step has
a context, the bounds are numbers.  TLC evaluates them in each run.

None of the properties is inductive.  That a completion was committed depends on what
the thread at `record` knows, and that in turn on its step not being forgotten between two
of its transactions while others write.  The invariant `IInv` is `TypeOK`, `DataOK` (what
holds of the tables) and `ThreadOK(t)` for each thread (what it may rely on at each place):

* `StepKnown`: all steps before the thread's step are completed, whoever completed them;
* `SnapshotAged`: a snapshot is never newer than the row, and equals it if it has its version.
  This is why a successful compare-and-swap of the version is worth a look at all the columns;
* `StatusKnown`: between `progress` and `record` the row, if not changed since the snapshot, is RUNNING;
* `ApprovalKnown`, `PermissionKnown`: what the thread decides on, or executes on, is an approval of its
  step, for the revision it will compare with;
* `CompletionKnown`: at `record` the step is in the ledger, at `finalize` all steps are completed.

The proof follows the interference between threads.  `Effects(t)` lists what a step of
`t` can do to the shared state: a write of the row raises the version, leaves a terminal row
alone, adds to `completed` only at `record`; only pending approvals change, and so on.
`StepEffects` shows that each action has these effects, one case per action; `OtherThreads` and
`DataKept` show, from the effects alone, that the knowledge of the other threads and `DataOK`
survive; `OwnThread` shows that each action establishes the knowledge of its next place.
`Inductive` combines them, and the action properties follow from `Effects` as well.

`RunImplementsPlan` needs no more than `IInv` and the same effects.  Each of them is a step of the
plan or invisible: a commit needs what `ThreadOK` knows at `commit` (everything before the step is done, the step is not
in the ledger, and its approval is there if it needs one), `record` needs the RUNNING row of `StatusKnown`, and `finalize` needs
that all is completed.  `PermissionOf` is constant, for the plan is.

`RunIsAClient` adds one fact to `IInv`: a command never reaches the bus without the revision it expects (`RevisionGiven`).  Without it
a commit might take a project without a row, whose revision is 0 in the model, for one whose revision was expected.

`PolicyProofs` proves `Tightening` (`TighteningNeverRelaxes`) and `ModeHasNoSay`
(`ModeBypassesNothing`) by cases on the kind of tightening.

### The bus and the other writers

`CommandBusProofs` proves for any workers, projects and requests, under
`RequestsAssumption` (requests are well formed and there is one):

| theorem | property |
|---|---|
| `TypeCorrect` | `TypeOK` |
| `SuccessIsKept` | `SuccessIsDurable` |
| `NoGapNoTwin` | `LedgerGapFree` |
| `AuditIsComplete` | `EveryCommitAudited` |
| `BusImplementsLedger` | `LedgerSpec`, the refinement of `CommandLedger` |
| `NoSecondExecution` | `AtMostOnce`, with edits, imports and deletions |
| `HandlersTypeCorrect` | `WritersTypeOK` |
| `BusServesEverybody` | `ClientsAreServed`: for every client, `SharedLedger` |
| `BusServesClient` | the same of one client, as the refinement `View(p, own)!Spec` |

`WorkerEffects` reduces each step of a worker to a winning commit (`Wins`) or no write at all.  Each invariant is then
inductive with `TypeOK`: what makes them so is that `Wins` compares the revision and the keys in the
step that writes, so nothing has to be known of the comparisons before.  `NoSecondExecution` needs no type and nothing
about the revision, which is the point: the primary key alone carries it.  `BusServesClient` needs both: by `WinSeenByClient` a winning
commit is a `Commit` of the client's own commands among it, or, if it has none of them, a `Disturb`; by `StepSeenByClient` all else is a `Disturb`.

### The event processor

`EventProcessorProofs`, for any clients, workers, events, capacities and limits (`ProcessorAssumption`):

| theorem | property |
|---|---|
| `TypeCorrect` | `ProcessorTypeOK` |
| `NoEventIsDuplicated` | `EventInOnePlace` |
| `DeadMeansRetried` | `DeadEventsWereRetried` |
| `JamsAreForGood` | `JamIsForGood` |
| `NoSilentLoss` | `LossIsExplained` |
| `ProcessorImplementsFates` | `FatesSpec`, the refinement of `EventFates` |
| `IntakeIsBounded` | `IntakeIsForLife` |

A processor has some twenty actions, but an event moves in four ways only: it is submitted, taken, put, or lost.
`StepMoves` shows that every step is one of these, or moves no event.  Everything else is about the four ways.  The
invariant `IInv` adds `HandsOK` (a thread has a message in its hands exactly at the places where
it needs one), `NewOK` (an event that was not submitted is nowhere) and `CountOK` (how `attempts` and `taken` go
together at each place), without which nothing could be said of a dead letter.

`IntakeIsBounded` counts.  The messages that ever entered the input queue with a topic are the pairs of `Intakes`: an event and the number
of one of its entries.  `IntakeOK` says that there are as many as `filed` counts in the heap of the topic, or one more while the
queue is jammed by that very put.  Every step that lets an event into the queue adds one pair, and no other step touches the set.

### The analysis, Revit, the webhooks and the channel

| theorem | property |
|---|---|
| `ReviewPipelineProofs!CompletedIsProtected` | `CompletedDesignProtects` |
| `ReviewPipelineProofs!NobodyReviews` | every step of the service is one of the nodes other than the gate: the gate, approval and rejection are unreachable |
| `RevitBridgeProofs!AnswersCorrect` | `AnswersAreTrue` |
| `RevitBridgeProofs!FirstComeFirstExecuted` | `ExecutedInOrder` |
| `RevitBridgeProofs!CapacityIsForLife` | `CapacityBoundsForwarding` |
| `RevitBridgeProofs!BridgeImplementsFates` | `UpdateFatesSpec`, the refinement of `UpdateFates` |
| `RevitBridgeProofs!CircuitIsExact` | `CircuitCountsFailures`, proved only |
| `WebhookDeliveryProofs!OnePlace` | `DeadLetterHasOnePlace` |
| `WebhookDeliveryProofs!OneEntryPerReplay` | `DlqOutgrowsByReplays` |
| `WebhookDeliveryProofs!WebhookImplementsLives` | `LivesSpec`, the refinement of `DeliveryLives` |
| `WebhookDeliveryProofs!SettledStaysSettled` | `SettledIsForGood`, proved only |
| `AgentChannelProofs!NobodyAwaits` | `NobodyAwaitsTheDeparted` |
| `AgentChannelProofs!NoLeak` | `NoFutureLeaks` |
| `AgentChannelProofs!ChannelImplementsCalls` | `CallsSpec`, the refinement of `CommandCalls` |
| `AgentChannelProofs!OutcomesCorrect` | `OutcomesAreTrue`, proved only |
| `AgentChannelProofs!OneAtATime` | `OneCommandAtATime`, proved only |
| `RevitBridgeProofs!ServerGetsThrough` | `EveryUpdateIsAnswered`, if `BridgeIsNotStuck` (see "Liveness") |
| `AgentChannelProofs!LockIsReleased` | `EveryHolderEnds`, proved only, if `HolderIsNotStuck` (see "Liveness") |
| `TypeCorrect` in each of the four | the type invariants |

`ReviewPipelineProofs` holds for every set of rooms; its invariant says that the gate's flag is never set, and which fields each
node may rely on.

`RevitBridgeProofs` holds for any updates, batches of any length, capacity and threshold (`BridgeAssumption`).  `ExecutedInOrder` compares two
queues, and needs what connects them: the server's queue has no update twice, everything in the add-in's queue is in the server's, waits,
and stands in the same order (`LocalOrder`, `AllFromLocal`, `ActionsWait`, `SameOrder`).  `AnswersAreTrue` needs `OneRequest` and
`FateFollows`: who is at which place, and what has then happened to the update.  `BridgeImplementsFates` uses that the request under way is the
newest of the server's queue (`CurrentIsNewest`), and that the first action of the add-in is the oldest update that waits
(`HeadIsOldest`), which is `SameOrder` again.  What a batch does is said once: `TakenRange` (how many of it are taken),
`BatchIsQueued` and `BatchEnters` (the queue is then the old one and these) and `BatchIsAnswered`; and `ToldFate` and `ToldQueue`
relate an answer to Revit and to the queue, the partly queued batch included.

`WebhookDeliveryProofs` holds for any events, subscriptions, threads, attempts and limits, and finitely many replayers
(`WebhookAssumption`).  The queue is cut at the front, closed up where an entry is taken out, and inserted into at an old index.  The lemmas
`WithoutTakesOne`, `WithAddsOne`, `AppendAddsOne` and `CutTakesTheFirst` say what each of these makes of a queue's *set* of entries, and that it
repeats none; after them, only `Excess` looks at positions.  `Held`: the dead deliveries are the entries of the queue and of the hands, each once.
`RoomForHands`: the queue and the full hands together exceed the limit by at most the number of replayers, for a hand
fills by emptying a place; this is why `DlqOutgrowsByReplays` is not inductive, and how it follows.
`EvictionLeavesFull` counts what a cut leaves, for the refinement.  `NeverTried`: what cannot be encoded is never attempted, dead or in the queue.

`AgentChannelProofs` holds for any sessions and calls.  `LockOrder`: the queue of a session's lock has the calls under way through that
session, each once, and only the first is past the lock.  `FuturesTracked`: the two tables of futures and the stages of the calls agree,
also of calls that wait for a lock of a session that has ended.  `TracesAreTrue`: a response in an inbox, and a resolved
future, is of a command that was executed.  `ChannelImplementsCalls` adds nothing to these: `AloneOnTheWire` is `LockOrder`, and a call
that has not come to the wire has sent nothing (`NotYetOnTheWire`).

### Liveness

tlapm cannot tell when an action is ENABLED, and weak fairness speaks of nothing else.  Three theorems therefore have an invariant as
hypothesis that says where the fair actions are enabled, and conclude what must eventually happen for every value of the constants:

| theorem | hypothesis, checked by TLC | conclusion |
|---|---|---|
| `EveryoneLeaves` | `NobodyIsStuck` (run `terminal_left`): a thread under way has a step, except at the bound `MaxVersion` | `TerminalRunIsLeft` |
| `ServerGetsThrough` | `BridgeIsNotStuck` (run `components`): the server has a step, or waits for an add-in that has one | `EveryUpdateIsAnswered` |
| `LockIsReleased` | `HolderIsNotStuck` (run `components`): a call past the lock has a step | `EveryHolderEnds`: it ends, so the lock comes free |

The hypotheses are safety properties with content of their own: they fail when a branch of the code is missing, be it that a lost
compare-and-swap is tried again with the same version, or that a broken pipe is waited for.  What the proofs add is the long-run argument.
`EveryoneLeaves`: once the run is over every transition is refused, so each place has a `Distance` to the end of the operation that
shrinks with each step of the thread (`OneStepNearer`) and that no other thread can raise (`NeverFarther`); `AtBound` is no
way out: a compare-and-swap that would succeed there would find the run RUNNING (`StatusKnown`), and the run is over.  `ServerGetsThrough`: the server is before the gate, at the pipe or waiting; while
it waits, either the pipe breaks and stays broken until it notices, or the add-in moves on towards its response.  `LockIsReleased`: nobody
moves the holder but itself (`OthersSpareHolders`), and each of its steps ends it or puts it one stage further.

### What is not proved

`EveryEventIsSettled` and `EveryDeliveryEnds` are only model-checked: how long an event goes round or a delivery is tried is bounded by
counters and by the length of queues, and the argument is an induction over these, which is out of the prover's reach.  So is the part of
`EveryCallEnds` that `LockIsReleased` leaves: a call comes to the head of a lock's queue after as many calls as are before it.
ENABLED is out of reach as said; `NobodyIsStuck` and `PartsAreNotStuck` (which is `BridgeIsNotStuck` and `HolderIsNotStuck`) are therefore checked and
not proved.  Every other property of the passing runs is a theorem.  Induction over data, thus what a recursive function computes, is out
of reach as well; no module has one.

## 5. What the code does not keep

Seven runs check one sentence each of a docstring or comment and find a counterexample.

* `ImportReplacesCheckedRevision`: `execute_import` "enforces OCC revision verification", but compares in
  one transaction and upserts without comparing in another, after it has parsed the file.
* `LiveApprovalIsReused`: `_request_approval` reuses a live approval, but the query takes any row of the
  step, without its status.  After reject, retry (a second, live row), pause and resume it finds the rejected one, and the
  insert breaks the unique index.  The run stays RUNNING and every later resume fails in the same way.
* `CancelledRunHasNoLiveApproval`: approvals are invalidated "atomically with the cancellation", but in
  a transaction of its own.
* `CancelPreventsCommit`: a re-check of the status "prevents unsafe commits", but a cancel can still
  fall between it and the commit.  The completion is not recorded then; the commit stands.
* `CriticalIssuesAreReviewed`: "if critical issues are found" an analysis pauses for a review, but what leads to the gate is
  a field that only the gate sets.
* `ForwardedUpdateIsExecuted`: the handler "processes all model update actions", but takes one for each event, and two raises
  before Revit is idle are one event.  The second update waits until another request raises the event again.
* `NewestConnectionIsCommanded`: "a stale/rogue socket cannot sit ahead of the real agent", but a call chooses the session before it
  waits for that session's lock.

The runs of AgentRun use `SteadySpec`, without crashes, so that the counterexamples are ordinary races.

Observations that no property states:

* A placement of several detectors that fills the server's queue half-way is answered as failed, and its first devices
  stay queued.  The answer does not say which.  RevitBridge has this (`QueueBatch`), and `AnswersAreTrue` says what is true of it.
* A webhook payload that `json.dumps` refuses is dropped with a line in the log: it is neither a failure nor a dead letter.
* A manual edit writes the revision twice with an `await` between, the second time over commits made since; the save that waits
  for its thread inserts the row of a project deleted meanwhile again.  CanonicalWriters has both behaviours.
* A paused run whose step is refused at the wrong moment is reported as failed.
* Pause, cancel, fail and retry write the `recovery_state` of their snapshot back, so `last_completed_revision` may be lost,
  and with it the check that the project is not behind.
* A crash between `create_run` and READY leaves a run in PLANNING that only a cancel can leave.
* The ledger is keyed by `commandId` alone, so a command replayed for another project with an equal payload is answered with
  the first one's result.
* Nothing in production calls `expire_stale_approvals` or `set_audit_reference`, nor `dequeue`, `report_result` and `wait_for_result` of
  `thread_safe_queue.py`, nor `SharedStateStore.register_active_agent`; `cad_control_contracts.py` looks up an agent under the name of
  its service, while all are registered as `autocad_revit`.
* Every client of the websocket, browsers included, registers as the one agent.  A session that is replaced is neither closed nor
  registered again when its successor leaves.
* While the message loop awaits a handler it reads no pong, so the heartbeat closes the link of a client that is alive.
* Nothing calls `_reset_circuit`: a circuit of the event processor that was open once is never closed again, only half open, which lets
  everything through.
* An error that the add-in answers as JSON counts as a success of the circuit breaker.
* `node_generate_report` gives COMPLETED to a file that could not be parsed or validated: it looks at rooms and conflicts, and there are
  none.  `CompletedDesignProtects` therefore speaks of designs that passed validation.

## 6. Not modelled, and the plan

Left out of the modelled components: who may call an operation (the principal is checked before any write),
the audit record written after a decision, listings, telemetry, texts; the order of a workflow's steps and the
overlay they share (pure data within one thread); the chat loop of the websocket; staging, inspection and parsing
of files; PostgreSQL, where two transactions may overlap; the watchdog of the workflow service with its status STUCK, and
`resume_from_checkpoint`; pausing, flushing and forcing the circuit of the event processor, priorities and expiry of its messages;
the checks of addresses, the history and the synchronous path of the webhooks; a request handler of the channel that is cancelled while it waits.

Of the rest of the repository the table of section 1.3 says why it is not modelled.  Most of its lines are numerical engineering code, over
real numbers and geometry, drivers of external programs and user interfaces: a model of them would either repeat the formulas or leave out what matters.

What could come next, most important first:

1. The watchdog and the checkpoints of the workflow service, beside `ReviewPipeline`.
2. The order of Kahn's algorithm and the overlay of `workflow_engine.py` against their definitions (recursive
   functions, small graphs).
3. The engine pool and the scheduler of `facp_distributed`, once something starts them.
