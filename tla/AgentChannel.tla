---------------------------- MODULE AgentChannel ----------------------------
(***************************************************************************)
(* The websocket between the server and the desktop agent that drives      *)
(* Revit and AutoCAD (backend/routers/agent_ws.py): the sessions of the    *)
(* endpoint, each registered as the one agent until a newer one replaces   *)
(* it, and the calls of send_agent_command by which request handlers send  *)
(* it commands.  All of it runs on one event loop, so that what lies       *)
(* between two awaits is one action.                                       *)
(***************************************************************************)
EXTENDS Naturals, Sequences, FiniteSets

CONSTANTS
    Sessions,   \* websockets, each opened once, of agents and browsers alike
    Calls       \* calls of send_agent_command; each is its own cmd_id

VARIABLES
    link,        \* the websocket of a session
    busy,        \* the sessions whose message loop awaits a handler
    active,      \* active_agents["autocad_revit"]: one session or none
    pendingOf,   \* _agent_pending_commands
    awaited,     \* the keys of agent_response_futures
    future,      \* the future of a call
    stage,       \* where a call is
    via,         \* the session a call goes to
    queue,       \* the lock of a session: the first has it, the others wait
    agent,       \* what the agent has made of a command
    inbox,       \* responses that have reached the server, by session
    outcome      \* what the request handler got

sessionVars == <<link, busy, active>>
callVars    == <<stage, via, queue, outcome>>
futureVars  == <<pendingOf, awaited, future>>
agentVars   == <<agent, inbox>>
channelVars == <<link, busy, active, pendingOf, awaited, future,
                 stage, via, queue, agent, inbox, outcome>>

Outcomes == {"none", "ok", "400", "502", "503", "504"}

ChannelTypeOK ==
    /\ link \in [Sessions -> {"none", "up", "silent", "down", "ended"}]
    /\ busy \in SUBSET Sessions
    /\ active \in SUBSET Sessions
    /\ pendingOf \in [Sessions -> SUBSET Calls]
    /\ awaited \in SUBSET Calls
    /\ future \in [Calls -> {"none", "pending", "result", "failed", "cancelled"}]
    /\ stage \in [Calls -> {"idle", "lock", "send", "await", "done"}]
    /\ via \in [Calls -> SUBSET Sessions]
    /\ queue \in [Sessions -> Seq(Calls)]
    /\ agent \in [Calls -> {"none", "sent", "executed"}]
    /\ inbox \in [Sessions -> SUBSET Calls]
    /\ outcome \in [Calls -> Outcomes]

ChannelInit ==
    /\ link = [s \in Sessions |-> "none"]
    /\ busy = {}
    /\ active = {}
    /\ pendingOf = [s \in Sessions |-> {}]
    /\ awaited = {}
    /\ future = [c \in Calls |-> "none"]
    /\ stage = [c \in Calls |-> "idle"]
    /\ via = [c \in Calls |-> {}]
    /\ queue = [s \in Sessions |-> <<>>]
    /\ agent = [c \in Calls |-> "none"]
    /\ inbox = [s \in Sessions |-> {}]
    /\ outcome = [c \in Calls |-> "none"]

-----------------------------------------------------------------------------
(* The sessions                                                             *)

\* Mutant: the calls of the session that is replaced are left to their timeout.
CleanUpForgetsCalls(gone) ==
    /\ pendingOf' = [s \in Sessions |-> IF s \in gone THEN {} ELSE pendingOf[s]]
    /\ UNCHANGED <<future, awaited>>

\* _cleanup_agent, of all the sessions in gone: the futures of their calls fail.
CleanUp(gone) ==
    LET lost == UNION {pendingOf[s] : s \in gone} IN
    /\ future' = [c \in Calls |->
                     IF c \in lost \cap awaited /\ future[c] = "pending" THEN "failed" ELSE future[c]]
    /\ awaited' = awaited \ lost
    /\ pendingOf' = [s \in Sessions |-> IF s \in gone THEN {} ELSE pendingOf[s]]

\* A client is accepted and _register_agent makes it the agent; the session it
\* replaces is no longer registered, but goes on.
Register(s) ==
    /\ link[s] = "none"
    /\ link' = [link EXCEPT ![s] = "up"]
    /\ CleanUp(active)
    /\ active' = {s}
    /\ UNCHANGED <<busy, callVars, agentVars>>

\* The message loop awaits the handler of another message, an agent run for
\* instance; responses and pongs wait meanwhile.
BeginHandling(s) ==
    /\ link[s] = "up" /\ s \notin busy
    /\ busy' = busy \union {s}
    /\ UNCHANGED <<link, active, callVars, futureVars, agentVars>>

EndHandling(s) ==
    /\ s \in busy
    /\ busy' = busy \ {s}
    /\ UNCHANGED <<link, active, callVars, futureVars, agentVars>>

\* The client closes, or vanishes without a word.
Leave(s) ==
    /\ link[s] = "up"
    /\ \E how \in {"down", "silent"} : link' = [link EXCEPT ![s] = how]
    /\ UNCHANGED <<busy, active, callVars, futureVars, agentVars>>

\* No pong within thirty seconds: the client is gone, or its pong is not read
\* because the message loop is busy.  Or the API key has been revoked.
Heartbeat(s) ==
    /\ link[s] \in {"up", "silent"}
    /\ link' = [link EXCEPT ![s] = "down"]
    /\ UNCHANGED <<busy, active, callVars, futureVars, agentVars>>

\* The message loop hears of the disconnection, and the session cleans up.
EndSession(s) ==
    /\ link[s] = "down" /\ s \notin busy /\ inbox[s] = {}
    /\ link' = [link EXCEPT ![s] = "ended"]
    /\ CleanUp({s})
    /\ active' = active \ {s}
    /\ UNCHANGED <<busy, callVars, agentVars>>

\* Mutant: whatever the id, the response is taken for that of the call that
\* holds the lock.
ReceiveAnyResponse(s, c) ==
    /\ c \in inbox[s] /\ s \notin busy
    /\ inbox' = [inbox EXCEPT ![s] = @ \ {c}]
    /\ future' = IF queue[s] # <<>> /\ future[Head(queue[s])] = "pending"
                 THEN [future EXCEPT ![Head(queue[s])] = "result"] ELSE future
    /\ UNCHANGED <<sessionVars, callVars, pendingOf, awaited, agent>>

\* _handle_response_message: the response resolves the future of its id, if that
\* is still there and not done.
ReceiveResponse(s, c) ==
    /\ c \in inbox[s] /\ s \notin busy
    /\ inbox' = [inbox EXCEPT ![s] = @ \ {c}]
    /\ future' = IF c \in awaited /\ future[c] = "pending"
                 THEN [future EXCEPT ![c] = "result"] ELSE future
    /\ UNCHANGED <<sessionVars, callVars, pendingOf, awaited, agent>>

-----------------------------------------------------------------------------
(* send_agent_command                                                       *)

\* No agent is connected, or the registry does not know the command.
TurnAway(c) ==
    /\ stage[c] = "idle"
    /\ stage' = [stage EXCEPT ![c] = "done"]
    /\ outcome' = [outcome EXCEPT ![c] = IF active = {} THEN "503" ELSE "400"]
    /\ UNCHANGED <<via, queue, sessionVars, futureVars, agentVars>>

\* The call picks its session, registers its future, and waits for the lock ...
WaitForLock(c) ==
    /\ stage[c] = "idle"
    /\ \E s \in active :
       /\ queue[s] # <<>>
       /\ via' = [via EXCEPT ![c] = {s}]
       /\ pendingOf' = [pendingOf EXCEPT ![s] = @ \union {c}]
       /\ queue' = [queue EXCEPT ![s] = Append(@, c)]
    /\ stage' = [stage EXCEPT ![c] = "lock"]
    /\ awaited' = awaited \union {c}
    /\ future' = [future EXCEPT ![c] = "pending"]
    /\ UNCHANGED <<outcome, sessionVars, agentVars>>

\* A frame leaves for the agent, if there still is one to read it.
Frame(c, s) == agent' = [agent EXCEPT ![c] = IF link[s] = "up" THEN "sent" ELSE @]

\* ... unless it is free: then the frame leaves before anything else happens.
SendAtOnce(c) ==
    /\ stage[c] = "idle"
    /\ \E s \in active :
       /\ queue[s] = <<>>
       /\ via' = [via EXCEPT ![c] = {s}]
       /\ pendingOf' = [pendingOf EXCEPT ![s] = @ \union {c}]
       /\ queue' = [queue EXCEPT ![s] = <<c>>]
       /\ Frame(c, s)
    /\ stage' = [stage EXCEPT ![c] = "await"]
    /\ awaited' = awaited \union {c}
    /\ future' = [future EXCEPT ![c] = "pending"]
    /\ UNCHANGED <<outcome, inbox, sessionVars>>

\* Sending over a websocket that is closed is an error, or the frame is dropped.
SendAtOnceFails(c) ==
    /\ stage[c] = "idle"
    /\ \E s \in active : queue[s] = <<>> /\ link[s] = "down"
    /\ stage' = [stage EXCEPT ![c] = "done"]
    /\ outcome' = [outcome EXCEPT ![c] = "502"]
    /\ UNCHANGED <<via, queue, sessionVars, futureVars, agentVars>>

\* The lock comes free for a call that waited: it does not look at active_agents
\* again, nor at its future before the frame has left.
Send(c) ==
    /\ stage[c] = "send"
    /\ stage' = [stage EXCEPT ![c] = "await"]
    /\ \E s \in via[c] : Frame(c, s)
    /\ UNCHANGED <<via, queue, outcome, inbox, sessionVars, futureVars>>

\* Mutant: the future stays registered.
ConcludeKeepsFuture(c, result) ==
    /\ outcome' = [outcome EXCEPT ![c] = result]
    /\ queue' = [s \in Sessions |-> IF s \in via[c] THEN Tail(queue[s]) ELSE queue[s]]
    /\ stage' = [d \in Calls |->
                    IF d = c THEN "done"
                    ELSE IF \E s \in via[c] : Len(queue[s]) > 1 /\ queue[s][2] = d THEN "send"
                    ELSE stage[d]]
    /\ UNCHANGED <<awaited, pendingOf, via, sessionVars, agentVars>>

\* Mutant: nobody is woken when the lock is released.
ConcludeWakesNobody(c, result) ==
    /\ outcome' = [outcome EXCEPT ![c] = result]
    /\ awaited' = awaited \ {c}
    /\ pendingOf' = [s \in Sessions |-> pendingOf[s] \ {c}]
    /\ queue' = [s \in Sessions |-> IF s \in via[c] THEN Tail(queue[s]) ELSE queue[s]]
    /\ stage' = [stage EXCEPT ![c] = "done"]
    /\ UNCHANGED <<via, sessionVars, agentVars>>

\* The finally block: the call is over, and the next one gets the lock.
Conclude(c, result) ==
    /\ outcome' = [outcome EXCEPT ![c] = result]
    /\ awaited' = awaited \ {c}
    /\ pendingOf' = [s \in Sessions |-> pendingOf[s] \ {c}]
    /\ queue' = [s \in Sessions |-> IF s \in via[c] THEN Tail(queue[s]) ELSE queue[s]]
    /\ stage' = [d \in Calls |->
                    IF d = c THEN "done"
                    ELSE IF \E s \in via[c] : Len(queue[s]) > 1 /\ queue[s][2] = d THEN "send"
                    ELSE stage[d]]
    /\ UNCHANGED <<via, sessionVars, agentVars>>

SendFails(c) ==
    /\ stage[c] = "send" /\ \E s \in via[c] : link[s] \in {"down", "ended"}
    /\ Conclude(c, "502")
    /\ UNCHANGED future

\* The response is a result or an error of the agent's.
Answer(c) ==
    /\ stage[c] = "await" /\ future[c] = "result"
    /\ \E result \in {"ok", "400"} : Conclude(c, result)
    /\ UNCHANGED future

Disconnected(c) ==
    /\ stage[c] = "await" /\ future[c] = "failed"
    /\ Conclude(c, "502")
    /\ UNCHANGED future

\* The thirty seconds are over, perhaps just after the response has come or the
\* session has ended, but before the call has heard of it.
TimeOut(c) ==
    /\ stage[c] = "await" /\ future[c] \in {"pending", "result", "failed"}
    /\ Conclude(c, "504")
    /\ future' = [future EXCEPT ![c] = IF @ = "pending" THEN "cancelled" ELSE @]

-----------------------------------------------------------------------------
(* The agent, a program of its own.  It may execute a command after its link *)
(* is lost, and then its response is lost too.                               *)
AgentExecutes(c) ==
    /\ agent[c] = "sent"
    /\ agent' = [agent EXCEPT ![c] = "executed"]
    /\ inbox' = [s \in Sessions |->
                    IF s \in via[c] /\ link[s] = "up" THEN inbox[s] \union {c} ELSE inbox[s]]
    /\ UNCHANGED <<sessionVars, callVars, futureVars>>

Clients == \E s \in Sessions : Register(s) \/ BeginHandling(s) \/ Leave(s)

SessionTasks ==
    \E s \in Sessions :
        \/ EndHandling(s) \/ Heartbeat(s) \/ EndSession(s)
        \/ \E c \in Calls : ReceiveResponse(s, c)

NewCall(c) == TurnAway(c) \/ WaitForLock(c) \/ SendAtOnce(c) \/ SendAtOnceFails(c)

Call(c) == Send(c) \/ SendFails(c) \/ Answer(c) \/ Disconnected(c) \/ TimeOut(c)

ChannelNext ==
    \/ Clients \/ SessionTasks
    \/ \E c \in Calls : NewCall(c) \/ Call(c) \/ AgentExecutes(c)

\* Whatever the event loop has to do it does in the end: handlers return, the
\* heartbeat notices who has vanished, and timeouts fire.  No client has to come or
\* go, and the agent need not answer.
SessionsGoOn ==
    \A s \in Sessions :
        /\ WF_channelVars(EndHandling(s))
        /\ WF_channelVars(link[s] = "silent" /\ Heartbeat(s))
        /\ WF_channelVars(EndSession(s))
        /\ WF_channelVars(\E c \in Calls : ReceiveResponse(s, c))

GoesOn(c) == WF_channelVars(Call(c))
CallsGoOn == \A c \in Calls : GoesOn(c)

ChannelFairness == SessionsGoOn /\ CallsGoOn

ChannelSpec == ChannelInit /\ [][ChannelNext]_channelVars /\ ChannelFairness

-----------------------------------------------------------------------------
(* Properties                                                               *)

Under(c) == stage[c] \in {"lock", "send", "await"}

\* A handler that got an answer got that of its own command; one that was turned
\* away has sent nothing.  After 502 and 504 the command may be executed yet.
OutcomesAreTrue ==
    \A c \in Calls :
        /\ outcome[c] = "ok" => agent[c] = "executed"
        /\ outcome[c] = "503" => agent[c] = "none"

\* The call whose command a session is at.
Wire == [s \in Sessions |-> {c \in Calls : stage[c] = "await" /\ via[c] = {s}}]

Calling == INSTANCE CommandCalls WITH wire <- Wire, command <- agent

\* However sessions, futures, locks, responses and timeouts interleave, a call is a
\* call of CommandCalls: one command at a time, sent once, answered by its own response.
CallsSpec == Calling!CallsSpec

\* When a session has ended or been replaced, none of its calls goes on waiting
\* for an answer, not even those that wait for the lock.
NobodyAwaitsTheDeparted ==
    \A c \in Calls :
        Under(c) /\ future[c] = "pending" => via[c] \subseteq active

\* A session has at most one command on the wire, and the lock is the one's who
\* has it there.
OneCommandAtATime ==
    \A c, d \in Calls :
        stage[c] \in {"send", "await"} /\ stage[d] \in {"send", "await"} /\ via[c] = via[d] => c = d

\* What the calls leave in the tables of the module goes away with them.
NoFutureLeaks ==
    /\ \A c \in awaited : Under(c) /\ \E s \in via[c] : c \in pendingOf[s]
    /\ \A s \in Sessions : pendingOf[s] \subseteq awaited

\* However sessions come and go, and whether the agent answers or not, a request
\* handler gets its answer.
EveryCallEnds == \A c \in Calls : Under(c) ~> stage[c] = "done"

\* The holder of the lock needs nobody to go on: neither the agent, nor the session,
\* nor those that wait behind it.
HolderIsNotStuck ==
    \A c \in Calls : stage[c] \in {"send", "await"} => ENABLED <<Call(c)>>_channelVars

\* "agents[0] here is always the most recently authenticated connection - a
\* stale/rogue socket cannot sit ahead of the real agent in the registry"
\* (agent_ws.py 1938): a command is sent to the session registered as the agent.
NewestConnectionIsCommanded ==
    [][\A c \in Calls : agent[c] = "none" /\ agent'[c] = "sent" => via'[c] \subseteq active]_channelVars
=============================================================================
