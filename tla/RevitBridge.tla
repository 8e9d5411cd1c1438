---------------------------- MODULE RevitBridge ----------------------------
(***************************************************************************)
(* The way of a model update from an MCP client to Revit, on Windows.  The *)
(* server (fireai/mcp_server) serves one request after the other: it puts  *)
(* the update in its own queue and, if it is a BIM parameter, sends it     *)
(* over a named pipe guarded by a circuit breaker.  The add-in             *)
(* (templates/revit_addin) queues it again and raises an external event,   *)
(* upon which Revit's own thread takes one update from that queue.         *)
(***************************************************************************)
EXTENDS Naturals, Sequences, FiniteSets

CONSTANTS
    Updates,          \* the updates that clients ask for, each of them once
    BimParameters,    \* those asked for by update_bim_parameter
    Batches,          \* the other requests: sequences of one update to classify a
                      \* room, or of one for each device of a placement
    Malformed,        \* the updates without an element_id or a parameter_name
    LocalCapacity,    \* max_size of the server's queue
    FailureThreshold  \* of the circuit breaker

ASSUME BridgeAssumption ==
    /\ BimParameters \subseteq Updates
    /\ Batches \subseteq Seq(Updates \ BimParameters)
    /\ \A b \in Batches : b # <<>> /\ (Len(b) > 1 => \A i \in DOMAIN b : b[i] \notin Malformed)
    /\ \A b, c \in Batches : \A i \in DOMAIN b, j \in DOMAIN c : b[i] = c[j] => b = c /\ i = j
    /\ LocalCapacity \in Nat \ {0}
    /\ FailureThreshold \in Nat \ {0}

VARIABLES
    localQueue,    \* _queue of ThreadSafeModelUpdateQueue; nobody dequeues
    answer,        \* what the client was told of an update
    server,        \* what the stdin loop is about to do
    current,       \* the updates it is at (one or none)
    circuit,       \* NamedPipeCircuitBreaker.state
    failureCount,
    cooledDown,    \* has recovery_timeout passed since the last failure?
    addin,         \* what the add-in's ListenLoop is about to do
    actionQueue,   \* _actionQueue of ThreadSafeQueueHandler
    raised,        \* is the external event raised?
    fate           \* what became of an update in Revit

serverVars  == <<localQueue, answer, server, current>>
breakerVars == <<circuit, failureCount, cooledDown>>
addinVars   == <<addin, actionQueue, raised, fate>>
bridgeVars  == <<localQueue, answer, server, current, circuit, failureCount, cooledDown,
                 addin, actionQueue, raised, fate>>

Answers == {"none", "refused", "queued", "forwarded", "pipe_error"}
Fates   == {"none", "waiting", "committed", "rolled_back", "lost"}

BridgeTypeOK ==
    /\ localQueue \in Seq(Updates)
    /\ answer \in [Updates -> Answers]
    /\ server \in {"idle", "gate", "connect", "await"}
    /\ current \in SUBSET Updates
    /\ circuit \in {"CLOSED", "OPEN", "HALF_OPEN"}
    /\ failureCount \in Nat
    /\ cooledDown \in BOOLEAN
    /\ addin \in {"down", "accepting", "enqueue", "raise", "respond", "closing"}
    /\ actionQueue \in Seq(Updates)
    /\ raised \in BOOLEAN
    /\ fate \in [Updates -> Fates]

\* A server that has just started, with or without Revit running.
BridgeInit ==
    /\ localQueue = <<>>
    /\ answer = [u \in Updates |-> "none"]
    /\ server = "idle"
    /\ current = {}
    /\ circuit = "CLOSED" /\ failureCount = 0 /\ cooledDown = FALSE
    /\ addin \in {"down", "accepting"}
    /\ actionQueue = <<>> /\ raised = FALSE
    /\ fate = [u \in Updates |-> "none"]

-----------------------------------------------------------------------------
(* The circuit breaker                                                      *)

\* can_execute.  Every caller may try when the circuit is half open.
MayExecute == circuit # "OPEN" \/ cooledDown

RecordSuccess ==
    circuit' = "CLOSED" /\ failureCount' = 0 /\ cooledDown' = FALSE

RecordFailure ==
    /\ failureCount' = failureCount + 1
    /\ cooledDown' = FALSE
    /\ circuit' = IF circuit = "HALF_OPEN" \/ failureCount' >= FailureThreshold
                  THEN "OPEN" ELSE circuit

\* recovery_timeout passes.
CoolDown ==
    /\ circuit = "OPEN" /\ ~cooledDown
    /\ cooledDown' = TRUE
    /\ UNCHANGED <<circuit, failureCount, serverVars, addinVars>>

-----------------------------------------------------------------------------
(* The server                                                               *)

Reply(u, text) ==
    /\ answer' = [answer EXCEPT ![u] = text]
    /\ server' = "idle"
    /\ current' = {}

\* enqueue raises: a field is missing, or there is no room within five seconds.
Rejects(u) == u \in Malformed \/ Len(localQueue) = LocalCapacity

Refuse(u) ==
    /\ server = "idle" /\ answer[u] = "none" /\ u \in BimParameters
    /\ Rejects(u)
    /\ Reply(u, "refused")
    /\ UNCHANGED <<localQueue, breakerVars, addinVars>>

\* How many updates of a batch are queued before one is rejected.
Taken(b) ==
    IF b[1] \in Malformed THEN 0
    ELSE IF Len(localQueue) + Len(b) <= LocalCapacity THEN Len(b)
    ELSE LocalCapacity - Len(localQueue)

Tell(b, text) ==
    answer' = [u \in Updates |-> IF \E i \in DOMAIN b : b[i] = u THEN text ELSE answer[u]]

\* Room classifications and detector placements are queued, and that is all.  The
\* loop over the devices stops at the first that is rejected: the whole request is
\* refused, and the devices before it stay in the queue.  No other thread puts
\* anything there, so that the loop is one action.
QueueBatch(b) ==
    /\ server = "idle" /\ \A i \in DOMAIN b : answer[b[i]] = "none"
    /\ localQueue' = localQueue \o SubSeq(b, 1, Taken(b))
    /\ Tell(b, IF Taken(b) = Len(b) THEN "queued" ELSE "refused")
    /\ UNCHANGED <<server, current, breakerVars, addinVars>>

\* Mutant: a full queue does not keep the update from the pipe.
TakeAnyway(u) ==
    /\ server = "idle" /\ answer[u] = "none" /\ u \in BimParameters
    /\ localQueue' = IF Len(localQueue) < LocalCapacity THEN Append(localQueue, u)
                     ELSE localQueue
    /\ server' = "gate" /\ current' = {u}
    /\ UNCHANGED <<answer, breakerVars, addinVars>>

\* _handle_update_bim_parameter, up to the pipe.
Take(u) ==
    /\ server = "idle" /\ answer[u] = "none" /\ u \in BimParameters
    /\ ~Rejects(u)
    /\ localQueue' = Append(localQueue, u)
    /\ server' = "gate" /\ current' = {u}
    /\ UNCHANGED <<answer, breakerVars, addinVars>>

\* send_command asks the breaker.
PassGate(u) ==
    /\ server = "gate" /\ MayExecute
    /\ circuit' = IF circuit = "OPEN" THEN "HALF_OPEN" ELSE circuit
    /\ server' = "connect"
    /\ UNCHANGED <<localQueue, answer, current, failureCount, cooledDown, addinVars>>

FailFast(u) ==
    /\ server = "gate" /\ ~MayExecute
    /\ Reply(u, "pipe_error")
    /\ UNCHANGED <<localQueue, breakerVars, addinVars>>

\* CreateFile and WriteFile; ReadFile then waits without a limit.
Connect(u) ==
    /\ server = "connect" /\ addin = "accepting"
    /\ server' = "await"
    /\ addin' = "enqueue"
    /\ UNCHANGED <<localQueue, answer, current, breakerVars, actionQueue, raised, fate>>

\* Nobody listens: Revit does not run, or the add-in is between two instances
\* of the pipe.
ConnectInVain(u) ==
    /\ server = "connect" /\ addin \in {"down", "closing"}
    /\ RecordFailure
    /\ Reply(u, "pipe_error")
    /\ UNCHANGED <<localQueue, addinVars>>

\* Mutant: the server goes on waiting at a pipe that is broken.
HearNothingAndWait(u) ==
    /\ server = "await" /\ addin \in {"down", "closing"}
    /\ UNCHANGED bridgeVars

\* Mutant: a request whose pipe broke is sent again.
HearNothingAndRetry(u) ==
    /\ server = "await" /\ addin \in {"down", "closing"}
    /\ RecordFailure
    /\ server' = "gate"
    /\ UNCHANGED <<localQueue, answer, current, addinVars>>

\* The pipe breaks before an answer came: _parse_pipe_response of nothing.
HearNothing(u) ==
    /\ server = "await" /\ addin \in {"down", "closing"}
    /\ RecordFailure
    /\ Reply(u, "pipe_error")
    /\ UNCHANGED <<localQueue, addinVars>>

ServerStep(u) ==
    /\ u \in current
    /\ PassGate(u) \/ FailFast(u) \/ Connect(u) \/ ConnectInVain(u) \/ HearNothing(u)

-----------------------------------------------------------------------------
(* The add-in                                                               *)

\* EnqueueAction, then Raise, which does nothing to an event already raised.
Enqueue(u) ==
    /\ addin = "enqueue"
    /\ actionQueue' = Append(actionQueue, u)
    /\ fate' = [fate EXCEPT ![u] = "waiting"]
    /\ addin' = "raise"
    /\ UNCHANGED <<raised, serverVars, breakerVars>>

Raise(u) ==
    /\ addin = "raise"
    /\ raised' = TRUE
    /\ addin' = "respond"
    /\ UNCHANGED <<actionQueue, fate, serverVars, breakerVars>>

\* The server reads the answer: "queued".
Respond(u) ==
    /\ addin = "respond"
    /\ addin' = "closing"
    /\ RecordSuccess
    /\ Reply(u, "forwarded")
    /\ UNCHANGED <<localQueue, actionQueue, raised, fate>>

\* SendResponse fails, and says so to nobody.
RespondInVain(u) ==
    /\ addin = "respond"
    /\ addin' = "closing"
    /\ UNCHANGED <<actionQueue, raised, fate, serverVars, breakerVars>>

\* Mutant: the add-in answers as soon as it has read the command.
RespondFirst(u) ==
    /\ u \in current
    /\ \/ Enqueue(u) \/ Raise(u) \/ RespondInVain(u)
       \/ /\ addin = "enqueue"
          /\ addin' = "closing"
          /\ RecordSuccess
          /\ Reply(u, "forwarded")
          /\ UNCHANGED <<localQueue, actionQueue, raised, fate>>

AddinStep(u) ==
    u \in current /\ (Enqueue(u) \/ Raise(u) \/ Respond(u) \/ RespondInVain(u))

\* The old instance of the pipe is disposed of, and a new one listens.  A client
\* that still waits at the old one has to notice first: it is a handle of its own.
Relisten ==
    /\ addin = "closing" /\ server # "await"
    /\ addin' = "accepting"
    /\ UNCHANGED <<actionQueue, raised, fate, serverVars, breakerVars>>

\* Mutant: the newest action comes first.
ExecuteNewest ==
    /\ raised
    /\ raised' = FALSE
    /\ IF actionQueue = <<>>
       THEN UNCHANGED <<actionQueue, fate>>
       ELSE /\ actionQueue' = SubSeq(actionQueue, 1, Len(actionQueue) - 1)
            /\ \E end \in {"committed", "rolled_back"} :
                  fate' = [fate EXCEPT ![actionQueue[Len(actionQueue)]] = end]
    /\ UNCHANGED <<addin, serverVars, breakerVars>>

\* Revit is idle and calls Execute, which takes one action and runs it in a
\* transaction that is committed or rolled back; without an open document it is
\* thrown away, which leaves the model as a rollback does.
Execute ==
    /\ raised
    /\ raised' = FALSE
    /\ IF actionQueue = <<>>
       THEN UNCHANGED <<actionQueue, fate>>
       ELSE /\ actionQueue' = Tail(actionQueue)
            /\ \E end \in {"committed", "rolled_back"} :
                  fate' = [fate EXCEPT ![Head(actionQueue)] = end]
    /\ UNCHANGED <<addin, serverVars, breakerVars>>

\* OnShutdown: the queue is in memory only.
Shutdown ==
    /\ addin # "down"
    /\ addin' = "down"
    /\ actionQueue' = <<>>
    /\ raised' = FALSE
    /\ fate' = [u \in Updates |-> IF fate[u] = "waiting" THEN "lost" ELSE fate[u]]
    /\ UNCHANGED <<serverVars, breakerVars>>

\* OnStartup.  A client that waited at the pipe of the old process has noticed.
Startup ==
    /\ addin = "down" /\ server # "await"
    /\ addin' = "accepting"
    /\ UNCHANGED <<actionQueue, raised, fate, serverVars, breakerVars>>

-----------------------------------------------------------------------------
RequestUpdate ==
    \/ \E u \in Updates : Refuse(u) \/ Take(u)
    \/ \E b \in Batches : QueueBatch(b)
Serve         == \E u \in Updates : ServerStep(u)
Attend        == \E u \in Updates : AddinStep(u)

BridgeNext ==
    \/ RequestUpdate \/ Serve \/ CoolDown
    \/ Attend \/ Relisten \/ Execute \/ Shutdown \/ Startup

\* The threads of the server and of the add-in go on, and Revit is idle now and
\* then; nobody has to ask for updates, and Revit need not be stopped or started.
BridgeFairness ==
    /\ WF_bridgeVars(Serve)
    /\ WF_bridgeVars(Attend)
    /\ WF_bridgeVars(Relisten)
    /\ WF_bridgeVars(Execute)

BridgeSpec == BridgeInit /\ [][BridgeNext]_bridgeVars /\ BridgeFairness

-----------------------------------------------------------------------------
(* Properties                                                               *)

Queued(u) == \E i \in DOMAIN localQueue : localQueue[i] = u

\* A request consists of this update, or ends with it.
EndsRequest(u) == \A b \in Batches : \A i \in DOMAIN b : b[i] = u => i = Len(b)

\* What the client hears is so: an update reported as forwarded has reached
\* Revit's queue, and one that was refused or only queued never does.  An
\* update reported as a pipe error may be executed all the same.  What is reported
\* as queued is in the queue to its last device; of a request that was refused
\* something is missing there, although its first devices may be in it.
AnswersAreTrue ==
    \A u \in Updates :
        /\ answer[u] = "forwarded" => fate[u] # "none"
        /\ answer[u] \in {"refused", "queued"} => fate[u] = "none"
        /\ answer[u] \in {"queued", "forwarded", "pipe_error"} => Queued(u)
        /\ answer[u] = "refused" /\ EndsRequest(u) => ~Queued(u)

\* Nobody takes updates out of the server's queue, whose capacity bounds what
\* ever reaches Revit in the life of the server: when it is full the pipe is of
\* no use any more.
CapacityBoundsForwarding ==
    Cardinality({u \in Updates : fate[u] # "none"}) <= LocalCapacity

\* Nothing is executed before an update that was accepted earlier and waits.
ExecutedInOrder ==
    \A i, j \in DOMAIN localQueue :
        i < j /\ fate[localQueue[i]] = "waiting" =>
            fate[localQueue[j]] \in {"none", "waiting"}

Lives == INSTANCE UpdateFates WITH line <- localQueue

\* Through pipe errors, a circuit that opens, and restarts of Revit, an update is
\* accepted, reaches Revit, is executed and reported as UpdateFates has it.
UpdateFatesSpec == Lives!UpdateFatesSpec

\* The circuit lets everyone through exactly as long as the failures since the
\* last success are fewer than the threshold, whatever probes came in between.
CircuitCountsFailures == circuit = "CLOSED" <=> failureCount < FailureThreshold

Answered(u) == u \in current ~> answer[u] # "none"

\* Whatever Revit does meanwhile, the server gets through with an update that it sends there.
EveryUpdateIsAnswered == \A u \in BimParameters : Answered(u)

\* While there is an update, either the server can go on or it waits for the add-in,
\* and then the add-in can: neither waits for a third, nor both for each other.
BridgeIsNotStuck ==
    /\ current # {} /\ (server = "await" => addin \in {"down", "closing"})
         => ENABLED <<Serve>>_bridgeVars
    /\ server = "await" /\ addin \in {"enqueue", "raise", "respond"}
         => ENABLED <<Attend>>_bridgeVars

\* "processes all model update actions that were enqueued by the MCP server"
\* (templates/revit_addin/ThreadSafeQueueHandler.cs 6): what has been forwarded
\* is executed, unless Revit ends before.
ForwardedUpdateIsExecuted ==
    \A u \in Updates : answer[u] = "forwarded" ~> fate[u] \in {"committed", "rolled_back", "lost"}
=============================================================================
