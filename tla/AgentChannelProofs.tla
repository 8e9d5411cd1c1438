------------------------- MODULE AgentChannelProofs -------------------------
(***************************************************************************)
(* Proofs about AgentChannel, for any number of sessions and calls.        *)
(***************************************************************************)
EXTENDS AgentChannel, TLAPS

\* Every call that is under way is in the lock's queue of its one session, and
\* the first of the queue, and nobody else, has gone past the lock.
LockOrder ==
    /\ \A s \in Sessions : \A i \in DOMAIN queue[s] :
          /\ via[queue[s][i]] = {s}
          /\ i = 1 => stage[queue[s][i]] \in {"send", "await"}
          /\ i # 1 => stage[queue[s][i]] = "lock"
    /\ \A s \in Sessions : \A i, j \in DOMAIN queue[s] : queue[s][i] = queue[s][j] => i = j
    /\ \A c \in Calls : Under(c) =>
          \E s \in Sessions : via[c] = {s} /\ \E i \in DOMAIN queue[s] : queue[s][i] = c

\* The future of a call is registered twice, under its id and with its session,
\* and as long as it is pending that session is the agent.
FuturesTracked ==
    /\ NoFutureLeaks
    /\ \A s \in Sessions : \A c \in pendingOf[s] : via[c] = {s}
    /\ \A c \in Calls : Under(c) /\ future[c] = "pending" => c \in awaited /\ via[c] \subseteq active

\* How far the agent has come with a command that has left a trace here.
TracesAreTrue ==
    /\ \A c \in Calls : stage[c] \in {"idle", "lock", "send"} => agent[c] = "none"
    /\ \A c \in Calls : outcome[c] # "none" => stage[c] = "done"
    /\ \A s \in Sessions : \A c \in inbox[s] : agent[c] = "executed"
    /\ \A c \in Calls : future[c] = "result" => agent[c] = "executed"
    /\ OutcomesAreTrue

ChannelInv == ChannelTypeOK /\ LockOrder /\ FuturesTracked /\ TracesAreTrue

-----------------------------------------------------------------------------
(* What the actions do                                                      *)

\* A call that concludes is the first of its queue.
LEMMA ConcluderIsFirst ==
    ASSUME ChannelTypeOK, LockOrder, NEW c \in Calls, stage[c] \in {"send", "await"}
    PROVE  \E s \in Sessions :
              via[c] = {s} /\ queue[s] # <<>> /\ queue[s][1] = c /\ 1 \in DOMAIN queue[s]
<1>1. PICK s \in Sessions : via[c] = {s} /\ \E i \in DOMAIN queue[s] : queue[s][i] = c
  BY DEF LockOrder, Under
<1>2. PICK i \in DOMAIN queue[s] : queue[s][i] = c
  BY <1>1
<1>3. i = 1
  BY <1>1, <1>2 DEF LockOrder
<1>4. queue[s] \in Seq(Calls)
  BY DEF ChannelTypeOK
<1> QED
  BY <1>1, <1>2, <1>3, <1>4

\* The four ways a call ends.
Concluding(c) == SendFails(c) \/ Answer(c) \/ Disconnected(c) \/ TimeOut(c)

LEMMA ConcludeEffect ==
    ASSUME ChannelTypeOK, NEW c \in Calls, Concluding(c)
    PROVE  /\ stage[c] \in {"send", "await"}
           /\ \E result \in Outcomes \ {"none", "503"} :
                 /\ Conclude(c, result)
                 /\ result = "ok" => future[c] = "result"
           /\ \A d \in Calls : d # c => future'[d] = future[d]
           /\ future'[c] \in {future[c], "cancelled"}
           /\ DOMAIN future' = Calls
BY DEF Concluding, SendFails, Answer, Disconnected, TimeOut, Outcomes, ChannelTypeOK

\* What _cleanup_agent does to the futures.
LEMMA CleanUpEffect ==
    ASSUME ChannelTypeOK, NEW gone \in SUBSET Sessions, CleanUp(gone)
    PROVE  /\ future' \in [Calls -> {"none", "pending", "result", "failed", "cancelled"}]
           /\ awaited' \in SUBSET Calls
           /\ pendingOf' \in [Sessions -> SUBSET Calls]
           /\ \A c \in Calls : c \in awaited' <=> c \in awaited /\ \A s \in gone : c \notin pendingOf[s]
           /\ \A s \in Sessions : pendingOf'[s] = IF s \in gone THEN {} ELSE pendingOf[s]
           /\ \A c \in Calls :
                 future'[c] = IF /\ \E s \in gone : c \in pendingOf[s]
                                 /\ c \in awaited /\ future[c] = "pending"
                              THEN "failed" ELSE future[c]
<1> DEFINE lost == UNION {pendingOf[s] : s \in gone}
<1>1. \A c : c \in lost <=> \E s \in gone : c \in pendingOf[s]
  OBVIOUS
<1>2. /\ future' = [c \in Calls |-> IF c \in lost \cap awaited /\ future[c] = "pending"
                                     THEN "failed" ELSE future[c]]
      /\ awaited' = awaited \ lost
      /\ pendingOf' = [s \in Sessions |-> IF s \in gone THEN {} ELSE pendingOf[s]]
  BY DEF CleanUp
<1> HIDE DEF lost
<1>3. /\ future' \in [Calls -> {"none", "pending", "result", "failed", "cancelled"}]
      /\ \A c \in Calls : future'[c] = IF c \in lost /\ c \in awaited /\ future[c] = "pending"
                                      THEN "failed" ELSE future[c]
  BY <1>2 DEF ChannelTypeOK
<1>4. /\ pendingOf' \in [Sessions -> SUBSET Calls]
      /\ \A s \in Sessions : pendingOf'[s] = IF s \in gone THEN {} ELSE pendingOf[s]
  BY <1>2 DEF ChannelTypeOK
<1>5. awaited' \in SUBSET Calls
  BY <1>2 DEF ChannelTypeOK
<1> QED
  BY <1>1, <1>2, <1>3, <1>4, <1>5

\* What a call does that finds an agent.
LEMMA JoinEffect ==
    ASSUME ChannelTypeOK, NEW c \in Calls, WaitForLock(c) \/ SendAtOnce(c)
    PROVE  /\ stage[c] = "idle"
           /\ awaited' = awaited \union {c} /\ future'[c] = "pending"
           /\ \A d \in Calls : d # c => /\ future'[d] = future[d] /\ stage'[d] = stage[d]
                                        /\ via'[d] = via[d] /\ agent'[d] = agent[d]
           /\ agent'[c] \in {agent[c], "sent"}
           /\ UNCHANGED <<active, outcome, inbox>>
           /\ \E s \in active :
                 /\ via'[c] = {s}
                 /\ queue[s] # <<>> => stage'[c] = "lock" /\ agent'[c] = agent[c]
                 /\ queue[s] = <<>> => stage'[c] = "await"
                 /\ pendingOf'[s] = pendingOf[s] \union {c}
                 /\ queue'[s] = Append(queue[s], c)
                 /\ \A t \in Sessions : t # s => pendingOf'[t] = pendingOf[t] /\ queue'[t] = queue[t]
<1>1. CASE WaitForLock(c)
  BY <1>1 DEF WaitForLock, ChannelTypeOK, sessionVars, agentVars
<1>2. CASE SendAtOnce(c)
  <2>1. PICK s \in active : /\ queue[s] = <<>> /\ Frame(c, s)
                           /\ via' = [via EXCEPT ![c] = {s}]
                           /\ pendingOf' = [pendingOf EXCEPT ![s] = @ \union {c}]
                           /\ queue' = [queue EXCEPT ![s] = <<c>>]
    BY <1>2 DEF SendAtOnce
  <2>2. /\ stage[c] = "idle"
        /\ stage' = [stage EXCEPT ![c] = "await"]
        /\ awaited' = awaited \union {c}
        /\ future' = [future EXCEPT ![c] = "pending"]
        /\ UNCHANGED <<outcome, inbox, sessionVars>>
    BY <1>2 DEF SendAtOnce
  <2>3. queue'[s] = Append(queue[s], c)
    BY <2>1 DEF ChannelTypeOK
  <2> QED
    BY <2>1, <2>2, <2>3 DEF Frame, ChannelTypeOK, sessionVars
<1> QED
  BY <1>1, <1>2

-----------------------------------------------------------------------------
(* Types                                                                    *)

LEMMA TypeInit == ChannelInit => ChannelTypeOK
BY DEF ChannelInit, ChannelTypeOK, Outcomes

LEMMA TypeStep ==
    ASSUME ChannelTypeOK, LockOrder, [ChannelNext]_channelVars
    PROVE  ChannelTypeOK'
<1> USE DEF ChannelTypeOK, sessionVars, callVars, futureVars, agentVars
<1>1. ASSUME NEW s \in Sessions, Register(s) \/ EndSession(s) PROVE ChannelTypeOK'
  <2>1. PICK gone \in SUBSET Sessions : CleanUp(gone)
    BY <1>1 DEF Register, EndSession
  <2>2. link' \in [Sessions -> {"none", "up", "silent", "down", "ended"}] /\ active' \in SUBSET Sessions
    BY <1>1 DEF Register, EndSession
  <2>3. UNCHANGED <<busy, stage, via, queue, outcome, agent, inbox>>
    BY <1>1 DEF Register, EndSession
  <2> QED
    BY <2>1, <2>2, <2>3, CleanUpEffect
<1>2. ASSUME NEW s \in Sessions, BeginHandling(s) \/ EndHandling(s) \/ Leave(s) \/ Heartbeat(s)
      PROVE  ChannelTypeOK'
  <2>1. CASE BeginHandling(s) \/ EndHandling(s)
    <3>1. busy' \in SUBSET Sessions
      BY <2>1 DEF BeginHandling, EndHandling
    <3>2. UNCHANGED <<link, active, callVars, futureVars, agentVars>>
      BY <2>1 DEF BeginHandling, EndHandling
    <3> QED
      BY <3>1, <3>2
  <2>2. CASE Leave(s) \/ Heartbeat(s)
    <3>1. \E how \in {"silent", "down"} : link' = [link EXCEPT ![s] = how]
      BY <2>2, Zenon DEF Leave, Heartbeat
    <3>2. UNCHANGED <<busy, active, callVars, futureVars, agentVars>>
      BY <2>2, Zenon DEF Leave, Heartbeat
    <3> QED
      BY <3>1, <3>2
  <2> QED
    BY <1>2, <2>1, <2>2
<1>3. ASSUME NEW s \in Sessions, NEW c \in Calls, ReceiveResponse(s, c) PROVE ChannelTypeOK'
  BY <1>3 DEF ReceiveResponse
<1>4. ASSUME NEW c \in Calls, TurnAway(c) \/ SendAtOnceFails(c) PROVE ChannelTypeOK'
  <2>1. /\ stage' = [stage EXCEPT ![c] = "done"]
        /\ UNCHANGED <<via, queue, sessionVars, futureVars, agentVars>>
    BY <1>4 DEF TurnAway, SendAtOnceFails
  <2>2. PICK o \in Outcomes : outcome' = [outcome EXCEPT ![c] = o]
    BY <1>4 DEF TurnAway, SendAtOnceFails, Outcomes
  <2> QED
    BY <2>1, <2>2
<1>5. ASSUME NEW c \in Calls, WaitForLock(c) PROVE ChannelTypeOK'
  BY <1>5 DEF WaitForLock
<1>6. ASSUME NEW c \in Calls, SendAtOnce(c) PROVE ChannelTypeOK'
  BY <1>6 DEF SendAtOnce, Frame
<1>7. ASSUME NEW c \in Calls, Send(c) PROVE ChannelTypeOK'
  BY <1>7 DEF Send, Frame
<1>8. ASSUME NEW c \in Calls, Concluding(c) PROVE ChannelTypeOK'
  <2>1. PICK result \in Outcomes : Conclude(c, result)
    BY <1>8, ConcludeEffect
  <2>2. future' \in [Calls -> {"none", "pending", "result", "failed", "cancelled"}]
    BY <1>8 DEF Concluding, SendFails, Answer, Disconnected, TimeOut
  <2>3. queue' \in [Sessions -> Seq(Calls)]
    <3>1. PICK s \in Sessions : via[c] = {s} /\ queue[s] # <<>>
      BY <1>8, ConcluderIsFirst, ConcludeEffect
    <3>2. Tail(queue[s]) \in Seq(Calls)
      BY <3>1
    <3> QED
      BY <2>1, <3>1, <3>2 DEF Conclude
  <2>4. stage' \in [Calls -> {"idle", "lock", "send", "await", "done"}]
    BY <2>1 DEF Conclude
  <2> QED
    BY <2>1, <2>2, <2>3, <2>4 DEF Conclude
<1>9. ASSUME NEW c \in Calls, AgentExecutes(c) PROVE ChannelTypeOK'
  BY <1>9 DEF AgentExecutes
<1>10. CASE UNCHANGED channelVars
  BY <1>10 DEF channelVars
<1> QED
  BY <1>1, <1>2, <1>3, <1>4, <1>5, <1>6, <1>7, <1>8, <1>9, <1>10
     DEF ChannelNext, Clients, SessionTasks, NewCall, Call, Concluding

-----------------------------------------------------------------------------
(* The lock                                                                 *)

\* Calls join at the end of a queue and leave it at the front.
LEMMA LockStep ==
    ASSUME ChannelTypeOK, LockOrder, [ChannelNext]_channelVars
    PROVE  LockOrder'
<1> USE DEF Under
<1>1. CASE UNCHANGED <<stage, via, queue>>
  <2>1. stage' = stage /\ via' = via /\ queue' = queue
    BY <1>1
  <2>2. \A s \in Sessions : \A i \in DOMAIN queue'[s] :
           /\ via'[queue'[s][i]] = {s}
           /\ i = 1 => stage'[queue'[s][i]] \in {"send", "await"}
           /\ i # 1 => stage'[queue'[s][i]] = "lock"
    BY <2>1 DEF LockOrder
  <2>3. \A s \in Sessions : \A i, j \in DOMAIN queue'[s] : queue'[s][i] = queue'[s][j] => i = j
    BY <2>1 DEF LockOrder
  <2>4. \A d \in Calls : Under(d)' =>
           \E s \in Sessions : via'[d] = {s} /\ \E i \in DOMAIN queue'[s] : queue'[s][i] = d
    BY <2>1 DEF LockOrder
  <2> QED
    BY <2>2, <2>3, <2>4 DEF LockOrder
<1>2. ASSUME NEW c \in Calls, TurnAway(c) \/ SendAtOnceFails(c) PROVE LockOrder'
  <2>1. stage[c] = "idle" /\ stage' = [stage EXCEPT ![c] = "done"] /\ UNCHANGED <<via, queue>>
    BY <1>2, Zenon DEF TurnAway, SendAtOnceFails
  <2>2. \A s \in Sessions : \A i \in DOMAIN queue[s] :
           queue[s][i] \in Calls /\ stage[queue[s][i]] \in {"send", "await", "lock"}
    BY DEF LockOrder, ChannelTypeOK
  <2>3. \A d \in Calls : IF d = c THEN stage'[d] = "done" ELSE stage'[d] = stage[d]
    BY <2>1 DEF ChannelTypeOK
  <2>4. \A s \in Sessions : \A i \in DOMAIN queue[s] : stage'[queue[s][i]] = stage[queue[s][i]]
    BY <2>1, <2>2, <2>3
  <2>5. \A d \in Calls : Under(d)' => Under(d)
    BY <2>3
  <2>6. \A s \in Sessions : \A i \in DOMAIN queue'[s] :
           /\ via'[queue'[s][i]] = {s}
           /\ i = 1 => stage'[queue'[s][i]] \in {"send", "await"}
           /\ i # 1 => stage'[queue'[s][i]] = "lock"
    BY <2>1, <2>4 DEF LockOrder
  <2>7. \A s \in Sessions : \A i, j \in DOMAIN queue'[s] : queue'[s][i] = queue'[s][j] => i = j
    BY <2>1 DEF LockOrder
  <2>8. \A d \in Calls : Under(d)' =>
           \E s \in Sessions : via'[d] = {s} /\ \E i \in DOMAIN queue'[s] : queue'[s][i] = d
    BY <2>1, <2>5 DEF LockOrder
  <2> QED
    BY <2>6, <2>7, <2>8 DEF LockOrder
<1>3. ASSUME NEW c \in Calls, WaitForLock(c) \/ SendAtOnce(c) PROVE LockOrder'
  <2>1. PICK s \in active :
           /\ via'[c] = {s}
           /\ queue[s] # <<>> => stage'[c] = "lock"
           /\ queue[s] = <<>> => stage'[c] = "await"
           /\ queue'[s] = Append(queue[s], c)
           /\ \A t \in Sessions : t # s => queue'[t] = queue[t]
    BY <1>3, JoinEffect
  <2>2. stage[c] = "idle" /\ s \in Sessions /\ queue[s] \in Seq(Calls)
    BY <1>3, JoinEffect DEF ChannelTypeOK
  <2>3. \A t \in Sessions : \A i \in DOMAIN queue[t] :
           /\ queue[t][i] \in Calls /\ queue[t][i] # c /\ i \in Nat
           /\ via[queue[t][i]] = {t}
           /\ i = 1 => stage[queue[t][i]] \in {"send", "await"}
           /\ i # 1 => stage[queue[t][i]] = "lock"
    <3>1. \A t \in Sessions : \A i \in DOMAIN queue[t] : queue[t][i] \in Calls /\ i \in Nat
      BY DEF ChannelTypeOK
    <3>2. \A t \in Sessions : \A i \in DOMAIN queue[t] : stage[queue[t][i]] # "idle"
      BY DEF LockOrder
    <3> QED
      BY <2>2, <3>1, <3>2 DEF LockOrder
  <2>5. /\ \A i \in DOMAIN queue[s] : i \in DOMAIN queue'[s] /\ queue'[s][i] = queue[s][i]
        /\ Len(queue[s]) + 1 \in DOMAIN queue'[s] /\ queue'[s][Len(queue[s]) + 1] = c
        /\ \A i \in DOMAIN queue'[s] : i \in DOMAIN queue[s] \/ i = Len(queue[s]) + 1
    BY <2>1, <2>2
  <2>6. \A d \in Calls : d # c => via'[d] = via[d] /\ stage'[d] = stage[d]
    BY <1>3, JoinEffect
  <2>7. Len(queue[s]) + 1 = 1 <=> queue[s] = <<>>
    BY <2>2
  <2>8. ASSUME NEW t \in Sessions, NEW i \in DOMAIN queue'[t]
        PROVE  /\ via'[queue'[t][i]] = {t}
               /\ i = 1 => stage'[queue'[t][i]] \in {"send", "await"}
               /\ i # 1 => stage'[queue'[t][i]] = "lock"
    <3>1. CASE t = s /\ i \notin DOMAIN queue[s]
      BY <2>1, <2>5, <2>7, <3>1
    <3>2. CASE t # s \/ i \in DOMAIN queue[s]
      <4>1. i \in DOMAIN queue[t] /\ queue'[t][i] = queue[t][i]
        BY <2>1, <2>5, <3>2
      <4>2. /\ via'[queue[t][i]] = via[queue[t][i]]
            /\ stage'[queue[t][i]] = stage[queue[t][i]]
        BY <2>3, <2>6, <4>1
      <4> QED
        BY <2>3, <4>1, <4>2
    <3> QED
      BY <3>1, <3>2
  <2>9. ASSUME NEW t \in Sessions, NEW i \in DOMAIN queue'[t], NEW j \in DOMAIN queue'[t],
               queue'[t][i] = queue'[t][j]
        PROVE  i = j
    <3>1. CASE t = s
      BY <2>2, <2>3, <2>5, <2>9, <3>1 DEF LockOrder
    <3>2. CASE t # s
      BY <2>1, <2>9, <3>2 DEF LockOrder
    <3> QED
      BY <3>1, <3>2
  <2>10. ASSUME NEW d \in Calls, Under(d)'
         PROVE  \E t \in Sessions : via'[d] = {t} /\ \E i \in DOMAIN queue'[t] : queue'[t][i] = d
    <3>1. CASE d = c
      BY <2>1, <2>2, <2>5, <3>1
    <3>2. CASE d # c
      <4>1. Under(d)
        BY <2>6, <2>10, <3>2
      <4>2. PICK t \in Sessions : via[d] = {t} /\ \E i \in DOMAIN queue[t] : queue[t][i] = d
        BY <4>1 DEF LockOrder
      <4> QED
        BY <2>1, <2>5, <2>6, <3>2, <4>2
    <3> QED
      BY <3>1, <3>2
  <2> QED
    BY <2>8, <2>9, <2>10 DEF LockOrder
<1>4. ASSUME NEW c \in Calls, Send(c) PROVE LockOrder'
  <2>1. stage[c] = "send" /\ stage' = [stage EXCEPT ![c] = "await"] /\ UNCHANGED <<via, queue>>
    BY <1>4, Zenon DEF Send
  <2>2. \A d \in Calls : IF d = c THEN stage'[d] = "await" ELSE stage'[d] = stage[d]
    BY <2>1 DEF ChannelTypeOK
  <2>3. \A s \in Sessions : \A i \in DOMAIN queue[s] : queue[s][i] \in Calls
    BY DEF ChannelTypeOK
  <2>4. \A s \in Sessions : \A i \in DOMAIN queue[s] :
           /\ i = 1 => stage'[queue[s][i]] \in {"send", "await"}
           /\ i # 1 => stage'[queue[s][i]] = "lock"
    BY <2>1, <2>2, <2>3 DEF LockOrder
  <2>5. \A d \in Calls : Under(d)' => Under(d)
    BY <2>1, <2>2
  <2>6. \A s \in Sessions : \A i \in DOMAIN queue'[s] :
           /\ via'[queue'[s][i]] = {s}
           /\ i = 1 => stage'[queue'[s][i]] \in {"send", "await"}
           /\ i # 1 => stage'[queue'[s][i]] = "lock"
    BY <2>1, <2>4 DEF LockOrder
  <2>7. \A s \in Sessions : \A i, j \in DOMAIN queue'[s] : queue'[s][i] = queue'[s][j] => i = j
    BY <2>1 DEF LockOrder
  <2>8. \A d \in Calls : Under(d)' =>
           \E s \in Sessions : via'[d] = {s} /\ \E i \in DOMAIN queue'[s] : queue'[s][i] = d
    BY <2>1, <2>5 DEF LockOrder
  <2> QED
    BY <2>6, <2>7, <2>8 DEF LockOrder
<1>5. ASSUME NEW c \in Calls, Concluding(c) PROVE LockOrder'
  <2>1. PICK result \in Outcomes : Conclude(c, result)
    BY <1>5, ConcludeEffect
  <2>2. PICK s \in Sessions : via[c] = {s} /\ queue[s] # <<>> /\ queue[s][1] = c /\ 1 \in DOMAIN queue[s]
    BY <1>5, ConcludeEffect, ConcluderIsFirst
  <2>3. /\ via' = via
        /\ queue'[s] = Tail(queue[s])
        /\ \A t \in Sessions : t # s => queue'[t] = queue[t]
    BY <2>1, <2>2 DEF Conclude
  <2>4. \A d \in Calls :
           stage'[d] = IF d = c THEN "done"
                       ELSE IF Len(queue[s]) > 1 /\ queue[s][2] = d THEN "send"
                       ELSE stage[d]
    BY <2>1, <2>2 DEF Conclude
  <2>5. queue[s] \in Seq(Calls) /\ \A t \in Sessions : \A i \in DOMAIN queue[t] : queue[t][i] \in Calls
    BY DEF ChannelTypeOK
  <2>6. /\ \A i \in DOMAIN queue'[s] :
              /\ i \in Nat /\ i >= 1
              /\ i + 1 \in DOMAIN queue[s] /\ queue'[s][i] = queue[s][i + 1]
        /\ \A i \in DOMAIN queue[s] :
              i # 1 => i - 1 \in DOMAIN queue'[s] /\ queue'[s][i - 1] = queue[s][i]
    BY <2>2, <2>3, <2>5
  <2>7. ASSUME NEW t \in Sessions, NEW i \in DOMAIN queue'[t]
        PROVE  /\ via'[queue'[t][i]] = {t}
               /\ i = 1 => stage'[queue'[t][i]] \in {"send", "await"}
               /\ i # 1 => stage'[queue'[t][i]] = "lock"
    <3>1. CASE t = s
      <4>1. /\ i + 1 \in DOMAIN queue[s] /\ queue'[s][i] = queue[s][i + 1] /\ i + 1 # 1
            /\ i = 1 => i + 1 = 2 /\ Len(queue[s]) > 1
            /\ i # 1 => i + 1 # 2
        BY <2>5, <2>6, <3>1
      <4>2. queue[s][i + 1] \in Calls /\ queue[s][i + 1] # c
        BY <2>2, <2>5, <4>1 DEF LockOrder
      <4>3. via[queue[s][i + 1]] = {s} /\ stage[queue[s][i + 1]] = "lock"
        BY <4>1 DEF LockOrder
      <4>4. i # 1 => ~(Len(queue[s]) > 1 /\ queue[s][2] = queue[s][i + 1])
        BY <2>5, <4>1 DEF LockOrder
      <4>5. queue'[t][i] = queue[s][i + 1]
        BY <3>1, <4>1
      <4>6. i = 1 => stage'[queue[s][i + 1]] = "send"
        BY <2>4, <4>1, <4>2
      <4>7. i # 1 => stage'[queue[s][i + 1]] = "lock"
        BY <2>4, <4>2, <4>3, <4>4
      <4> QED
        BY <2>3, <3>1, <4>3, <4>5, <4>6, <4>7
    <3>2. CASE t # s
      <4>1. /\ queue'[t] = queue[t] /\ i \in DOMAIN queue[t] /\ queue[t][i] \in Calls
            /\ via[queue[t][i]] = {t}
        BY <2>3, <2>5, <3>2 DEF LockOrder
      <4>2. queue[t][i] # c /\ ~(Len(queue[s]) > 1 /\ queue[s][2] = queue[t][i])
        <5>1. Len(queue[s]) > 1 => 2 \in DOMAIN queue[s]
          BY <2>5
        <5>2. Len(queue[s]) > 1 => via[queue[s][2]] = {s}
          BY <5>1 DEF LockOrder
        <5> QED
          BY <2>2, <3>2, <4>1, <5>2
      <4>3. stage'[queue[t][i]] = stage[queue[t][i]]
        BY <2>4, <4>1, <4>2
      <4> QED
        BY <2>3, <4>1, <4>3 DEF LockOrder
    <3> QED
      BY <3>1, <3>2
  <2>8. ASSUME NEW t \in Sessions, NEW i \in DOMAIN queue'[t], NEW j \in DOMAIN queue'[t],
               queue'[t][i] = queue'[t][j]
        PROVE  i = j
    <3>1. CASE t = s
      <4>1. i \in Nat /\ j \in Nat /\ i + 1 = j + 1
        BY <2>6, <2>8, <3>1 DEF LockOrder
      <4> QED
        BY <4>1
    <3>2. CASE t # s
      BY <2>3, <2>8, <3>2 DEF LockOrder
    <3> QED
      BY <3>1, <3>2
  <2>9. ASSUME NEW d \in Calls, Under(d)'
        PROVE  \E t \in Sessions : via'[d] = {t} /\ \E i \in DOMAIN queue'[t] : queue'[t][i] = d
    <3>1. d # c /\ Under(d)
      <4>1. d # c
        BY <2>4, <2>9
      <4>2. Len(queue[s]) > 1 => 2 \in DOMAIN queue[s] /\ stage[queue[s][2]] = "lock"
        BY <2>5 DEF LockOrder
      <4> QED
        BY <2>4, <2>9, <4>1, <4>2
    <3>2. PICK t \in Sessions : via[d] = {t} /\ \E i \in DOMAIN queue[t] : queue[t][i] = d
      BY <3>1 DEF LockOrder
    <3>3. PICK i \in DOMAIN queue[t] : queue[t][i] = d
      BY <3>2
    <3>4. CASE t = s
      <4>1. i # 1
        BY <2>2, <3>1, <3>3, <3>4
      <4> QED
        BY <2>3, <2>6, <3>2, <3>3, <3>4, <4>1
    <3>5. CASE t # s
      BY <2>3, <3>2, <3>3, <3>5
    <3> QED
      BY <3>4, <3>5
  <2> QED
    BY <2>7, <2>8, <2>9 DEF LockOrder
<1>6. ASSUME NEW s \in Sessions,
             \/ Register(s) \/ BeginHandling(s) \/ Leave(s) \/ EndHandling(s) \/ Heartbeat(s)
             \/ EndSession(s) \/ \E c \in Calls : ReceiveResponse(s, c)
      PROVE  UNCHANGED <<stage, via, queue>>
  BY <1>6 DEF Register, BeginHandling, Leave, EndHandling, Heartbeat, EndSession, ReceiveResponse, callVars
<1>7. ASSUME NEW c \in Calls, AgentExecutes(c)
      PROVE  UNCHANGED <<stage, via, queue>>
  BY <1>7 DEF AgentExecutes, callVars
<1>8. CASE UNCHANGED channelVars
  BY <1>1, <1>8 DEF channelVars
<1> QED
  BY <1>1, <1>2, <1>3, <1>4, <1>5, <1>6, <1>7, <1>8
     DEF ChannelNext, Clients, SessionTasks, NewCall, Call, Concluding

-----------------------------------------------------------------------------
(* The futures                                                              *)

\* A future is registered and struck out on both sides at once.
LEMMA FuturesStep ==
    ASSUME ChannelTypeOK, LockOrder, FuturesTracked, [ChannelNext]_channelVars
    PROVE  FuturesTracked'
<1> USE DEF Under, FuturesTracked, NoFutureLeaks
<1>1. CASE UNCHANGED <<stage, via, active, pendingOf, awaited, future>>
  BY <1>1
<1>2. ASSUME NEW gone \in SUBSET Sessions, CleanUp(gone), UNCHANGED <<stage, via>>,
             \A s \in active : s \in gone \/ s \in active'
      PROVE  FuturesTracked'
  <2>1. ASSUME NEW c \in awaited'
        PROVE  Under(c)' /\ \E s \in via'[c] : c \in pendingOf'[s]
    <3>1. c \in awaited /\ c \in Calls /\ \A s \in gone : c \notin pendingOf[s]
      BY <1>2, <2>1, CleanUpEffect DEF ChannelTypeOK
    <3>2. PICK s \in via[c] : c \in pendingOf[s]
      BY <3>1
    <3>3. s \in Sessions /\ s \notin gone
      BY <3>1, <3>2 DEF ChannelTypeOK
    <3>4. c \in pendingOf'[s]
      BY <1>2, <3>2, <3>3, CleanUpEffect
    <3> QED
      BY <1>2, <3>1, <3>2, <3>4
  <2>2. ASSUME NEW s \in Sessions, NEW c \in pendingOf'[s]
        PROVE  c \in awaited' /\ via'[c] = {s}
    <3>1. s \notin gone /\ c \in pendingOf[s]
      BY <1>2, <2>2, CleanUpEffect
    <3>2. c \in Calls /\ c \in awaited /\ via[c] = {s}
      BY <3>1 DEF ChannelTypeOK
    <3>3. \A t \in gone : c \notin pendingOf[t]
      BY <3>1, <3>2 DEF ChannelTypeOK
    <3> QED
      BY <1>2, <3>2, <3>3, CleanUpEffect
  <2>3. ASSUME NEW c \in Calls, Under(c)', future'[c] = "pending"
        PROVE  c \in awaited' /\ via'[c] \subseteq active'
    <3>1. future[c] = "pending" /\ c \in awaited /\ via[c] \subseteq active
      BY <1>2, <2>3, CleanUpEffect
    <3>2. \A s \in gone : c \notin pendingOf[s]
      BY <1>2, <2>3, <3>1, CleanUpEffect
    <3>3. PICK s \in via[c] : c \in pendingOf[s]
      BY <3>1
    <3>4. via[c] = {s} /\ s \notin gone /\ s \in active'
      BY <1>2, <3>1, <3>2, <3>3 DEF ChannelTypeOK
    <3> QED
      BY <1>2, <3>1, <3>2, <3>4, CleanUpEffect
  <2> QED
    BY <2>1, <2>2, <2>3
<1>3. ASSUME NEW s \in Sessions, Register(s) PROVE FuturesTracked'
  BY <1>2, <1>3 DEF Register, ChannelTypeOK, callVars
<1>4. ASSUME NEW s \in Sessions, EndSession(s) PROVE FuturesTracked'
  <2>1. CleanUp({s}) /\ active' = active \ {s} /\ UNCHANGED <<stage, via>>
    BY <1>4, Zenon DEF EndSession, callVars
  <2>2. PICK gone \in SUBSET Sessions : gone = {s}
    OBVIOUS
  <2>3. CleanUp(gone)
    BY <2>1, <2>2, Zenon
  <2>4. \A t \in active : t \in gone \/ t \in active'
    BY <2>1, <2>2
  <2> QED
    BY <1>2, <2>1, <2>3, <2>4
<1>5. ASSUME NEW s \in Sessions, NEW c \in Calls, ReceiveResponse(s, c) PROVE FuturesTracked'
  <2>1. \A d \in Calls : future'[d] = "pending" => future[d] = "pending"
    BY <1>5 DEF ReceiveResponse, ChannelTypeOK
  <2>2. UNCHANGED <<active, stage, via, pendingOf, awaited>>
    BY <1>5, Zenon DEF ReceiveResponse, sessionVars, callVars
  <2> QED
    BY <2>1, <2>2
<1>6. ASSUME NEW c \in Calls, TurnAway(c) \/ SendAtOnceFails(c) PROVE FuturesTracked'
  <2>1. stage[c] = "idle" /\ stage' = [stage EXCEPT ![c] = "done"]
        /\ UNCHANGED <<active, via, pendingOf, awaited, future>>
    BY <1>6, Zenon DEF TurnAway, SendAtOnceFails, sessionVars, futureVars
  <2>2. \A d \in Calls : (Under(d)' <=> Under(d))
    BY <2>1 DEF ChannelTypeOK
  <2>3. awaited \in SUBSET Calls
    BY DEF ChannelTypeOK
  <2> QED
    BY <2>1, <2>2, <2>3
<1>7. ASSUME NEW c \in Calls, WaitForLock(c) \/ SendAtOnce(c) PROVE FuturesTracked'
  <2> HIDE DEF FuturesTracked, NoFutureLeaks, Under
  <2>1. PICK s \in active :
           /\ via'[c] = {s}
           /\ queue[s] # <<>> => stage'[c] = "lock"
           /\ queue[s] = <<>> => stage'[c] = "await"
           /\ pendingOf'[s] = pendingOf[s] \union {c}
           /\ \A t \in Sessions : t # s => pendingOf'[t] = pendingOf[t]
    BY <1>7, JoinEffect
  <2> USE DEF FuturesTracked, NoFutureLeaks, Under
  <2>2. /\ stage[c] = "idle"
        /\ awaited' = awaited \union {c} /\ active' = active
        /\ \A d \in Calls : d # c => future'[d] = future[d] /\ stage'[d] = stage[d] /\ via'[d] = via[d]
    BY <1>7, JoinEffect
  <2>3. /\ awaited \in SUBSET Calls /\ s \in Sessions /\ c \notin awaited
        /\ \A t \in Sessions : pendingOf[t] \in SUBSET Calls
        /\ \A d \in Calls : via[d] \in SUBSET Sessions
    BY <2>2 DEF ChannelTypeOK
  <2>4. \A t \in Sessions : \A d \in Calls :
           d \in pendingOf'[t] <=> d \in pendingOf[t] \/ (t = s /\ d = c)
    BY <2>1, <2>3
  <2>5. ASSUME NEW d \in awaited'
        PROVE  Under(d)' /\ \E t \in via'[d] : d \in pendingOf'[t]
    <3>1. CASE d = c
      BY <2>1, <3>1
    <3>2. CASE d # c
      <4>1. d \in awaited /\ d \in Calls
        BY <2>2, <2>3, <3>2
      <4>2. PICK t \in via[d] : d \in pendingOf[t]
        BY <4>1
      <4> QED
        BY <2>2, <2>3, <2>4, <3>2, <4>1, <4>2
    <3> QED
      BY <3>1, <3>2
  <2>6. ASSUME NEW t \in Sessions, NEW d \in pendingOf'[t]
        PROVE  d \in awaited' /\ via'[d] = {t}
    <3>1. d \in Calls
      BY <2>1, <2>3, <2>6
    <3>2. CASE d = c
      BY <2>1, <2>2, <2>3, <2>4, <2>6, <3>1, <3>2
    <3>3. CASE d # c
      BY <2>2, <2>4, <2>6, <3>1, <3>3
    <3> QED
      BY <3>2, <3>3
  <2>7. ASSUME NEW d \in Calls, Under(d)', future'[d] = "pending"
        PROVE  d \in awaited' /\ via'[d] \subseteq active'
    <3>1. CASE d = c
      BY <2>1, <2>2, <3>1
    <3>2. CASE d # c
      BY <2>2, <2>7, <3>2
    <3> QED
      BY <3>1, <3>2
  <2> QED
    BY <2>5, <2>6, <2>7
<1>8. ASSUME NEW c \in Calls, Send(c) PROVE FuturesTracked'
  <2>1. stage[c] = "send" /\ stage' = [stage EXCEPT ![c] = "await"]
        /\ UNCHANGED <<active, via, pendingOf, awaited, future>>
    BY <1>8, Zenon DEF Send, sessionVars, futureVars
  <2>2. \A d \in Calls : (Under(d)' <=> Under(d))
    BY <2>1 DEF ChannelTypeOK
  <2>3. awaited \in SUBSET Calls
    BY DEF ChannelTypeOK
  <2> QED
    BY <2>1, <2>2, <2>3
<1>9. ASSUME NEW c \in Calls, Concluding(c) PROVE FuturesTracked'
  <2>1. PICK result \in Outcomes : Conclude(c, result)
    BY <1>9, ConcludeEffect
  <2>2. PICK s \in Sessions : via[c] = {s} /\ queue[s] # <<>> /\ queue[s][1] = c /\ 1 \in DOMAIN queue[s]
    BY <1>9, ConcludeEffect, ConcluderIsFirst
  <2>3. /\ awaited' = awaited \ {c} /\ via' = via /\ active' = active
        /\ \A t \in Sessions : pendingOf'[t] = pendingOf[t] \ {c}
    BY <2>1 DEF Conclude, sessionVars
  <2>4. \A d \in Calls :
           stage'[d] = IF d = c THEN "done"
                       ELSE IF Len(queue[s]) > 1 /\ queue[s][2] = d THEN "send"
                       ELSE stage[d]
    BY <2>1, <2>2 DEF Conclude
  <2>5. Len(queue[s]) > 1 => 2 \in DOMAIN queue[s] /\ stage[queue[s][2]] = "lock"
    <3>1. queue[s] \in Seq(Calls)
      BY DEF ChannelTypeOK
    <3> QED
      BY <3>1 DEF LockOrder
  <2>6. \A d \in Calls : d # c => (Under(d)' <=> Under(d)) /\ future'[d] = future[d]
    BY <1>9, <2>4, <2>5, ConcludeEffect
  <2>7. ~ Under(c)'
    BY <2>4
  <2>8. awaited \in SUBSET Calls /\ \A t \in Sessions : pendingOf[t] \in SUBSET Calls
    BY DEF ChannelTypeOK
  <2>9. \A d \in Calls : via[d] \in SUBSET Sessions
    BY DEF ChannelTypeOK
  <2>10. \A d \in awaited' : Under(d)' /\ \E t \in via'[d] : d \in pendingOf'[t]
    BY <2>3, <2>6, <2>8, <2>9
  <2>11. \A t \in Sessions : \A d \in pendingOf'[t] : d \in awaited' /\ via'[d] = {t}
    BY <2>3, <2>8
  <2>12. \A d \in Calls : Under(d)' /\ future'[d] = "pending" => d \in awaited' /\ via'[d] \subseteq active'
    BY <2>3, <2>6, <2>7
  <2> QED
    BY <2>10, <2>11, <2>12
<1>10. ASSUME NEW s \in Sessions, BeginHandling(s) \/ Leave(s) \/ EndHandling(s) \/ Heartbeat(s)
       PROVE  UNCHANGED <<stage, via, active, pendingOf, awaited, future>>
  BY <1>10, Zenon DEF BeginHandling, Leave, EndHandling, Heartbeat, callVars, futureVars
<1>11. ASSUME NEW c \in Calls, AgentExecutes(c)
       PROVE  UNCHANGED <<stage, via, active, pendingOf, awaited, future>>
  BY <1>11, Zenon DEF AgentExecutes, sessionVars, callVars, futureVars
<1>12. CASE UNCHANGED channelVars
  BY <1>1, <1>12 DEF channelVars
<1> QED
  BY <1>1, <1>3, <1>4, <1>5, <1>6, <1>7, <1>8, <1>9, <1>10, <1>11, <1>12
     DEF ChannelNext, Clients, SessionTasks, NewCall, Call, Concluding

-----------------------------------------------------------------------------
(* The traces of the agent                                                  *)

\* A command goes from sent to executed, and only a command that is executed is
\* answered.
LEMMA TracesStep ==
    ASSUME ChannelTypeOK, LockOrder, FuturesTracked, TracesAreTrue, [ChannelNext]_channelVars
    PROVE  TracesAreTrue'
<1> USE DEF TracesAreTrue, OutcomesAreTrue
<1>1. CASE UNCHANGED <<stage, future, agent, inbox, outcome>>
  BY <1>1
<1>2. ASSUME NEW gone \in SUBSET Sessions, CleanUp(gone), UNCHANGED <<stage, agent, inbox, outcome>>
      PROVE  TracesAreTrue'
  <2>1. \A c \in Calls : future'[c] = "result" => future[c] = "result"
    BY <1>2, CleanUpEffect
  <2> QED
    BY <1>2, <2>1
<1>3. ASSUME NEW s \in Sessions, Register(s) \/ EndSession(s) PROVE TracesAreTrue'
  <2>1. PICK gone \in SUBSET Sessions : CleanUp(gone)
    BY <1>3 DEF Register, EndSession, ChannelTypeOK
  <2>2. UNCHANGED <<stage, agent, inbox, outcome>>
    BY <1>3, Zenon DEF Register, EndSession, callVars, agentVars
  <2> QED
    BY <1>2, <2>1, <2>2
<1>4. ASSUME NEW s \in Sessions, NEW c \in Calls, ReceiveResponse(s, c) PROVE TracesAreTrue'
  <2>1. /\ \A t \in Sessions : inbox'[t] \subseteq inbox[t]
        /\ agent[c] = "executed"
    BY <1>4 DEF ReceiveResponse, ChannelTypeOK
  <2>2. UNCHANGED <<stage, agent, outcome>>
    BY <1>4, Zenon DEF ReceiveResponse, callVars
  <2>3. \A d \in Calls : d # c => future'[d] = future[d]
    BY <1>4 DEF ReceiveResponse, ChannelTypeOK
  <2> QED
    BY <2>1, <2>2, <2>3
<1>5. ASSUME NEW c \in Calls, TurnAway(c) \/ SendAtOnceFails(c) PROVE TracesAreTrue'
  <2>1. /\ stage[c] = "idle" /\ stage' = [stage EXCEPT ![c] = "done"]
        /\ UNCHANGED <<future, agent, inbox>>
    BY <1>5, Zenon DEF TurnAway, SendAtOnceFails, futureVars, agentVars
  <2>2. PICK o \in {"400", "502", "503"} : outcome' = [outcome EXCEPT ![c] = o]
    BY <1>5 DEF TurnAway, SendAtOnceFails
  <2>3. agent[c] = "none"
    BY <2>1
  <2>4. \A d \in Calls : IF d = c THEN stage'[d] = "done" /\ outcome'[d] = o
                         ELSE stage'[d] = stage[d] /\ outcome'[d] = outcome[d]
    BY <2>1, <2>2 DEF ChannelTypeOK
  <2> QED
    BY <2>1, <2>3, <2>4
<1>6. ASSUME NEW c \in Calls, WaitForLock(c) \/ SendAtOnce(c) PROVE TracesAreTrue'
  <2>1. /\ stage[c] = "idle" /\ stage'[c] \in {"lock", "await"} /\ future'[c] = "pending"
        /\ \A d \in Calls : d # c => /\ future'[d] = future[d] /\ stage'[d] = stage[d]
                                     /\ agent'[d] = agent[d]
        /\ UNCHANGED <<outcome, inbox>>
    BY <1>6, JoinEffect
  <2>2. agent[c] = "none" /\ outcome[c] = "none" /\ \A s \in Sessions : c \notin inbox[s]
    BY <2>1 DEF ChannelTypeOK
  <2>4. stage'[c] = "lock" => agent'[c] = "none"
    BY <1>6, <2>2, JoinEffect
  <2>3. \A s \in Sessions : inbox[s] \subseteq Calls
    BY DEF ChannelTypeOK
  <2> QED
    BY <2>1, <2>2, <2>3, <2>4
<1>7. ASSUME NEW c \in Calls, Send(c) PROVE TracesAreTrue'
  <2>1. stage[c] = "send" /\ stage' = [stage EXCEPT ![c] = "await"]
        /\ UNCHANGED <<outcome, inbox, future>>
    BY <1>7, Zenon DEF Send, futureVars
  <2>2. PICK s \in Sessions : Frame(c, s)
    BY <1>7 DEF Send, ChannelTypeOK
  <2>3. \A d \in Calls : IF d = c THEN stage'[d] = "await" /\ agent'[d] \in {agent[d], "sent"}
                         ELSE stage'[d] = stage[d] /\ agent'[d] = agent[d]
    BY <2>1, <2>2 DEF Frame, ChannelTypeOK
  <2>4. outcome[c] = "none"
    BY <2>1
  <2>5. agent[c] = "none"
    BY <2>1
  <2>6. \A t \in Sessions : inbox[t] \subseteq Calls
    BY DEF ChannelTypeOK
  <2> QED
    BY <2>1, <2>3, <2>4, <2>5, <2>6
<1>8. ASSUME NEW c \in Calls, Concluding(c) PROVE TracesAreTrue'
  <2>1. PICK result \in Outcomes \ {"none", "503"} :
           Conclude(c, result) /\ (result = "ok" => future[c] = "result")
    BY <1>8, ConcludeEffect
  <2>2. PICK s \in Sessions : via[c] = {s} /\ queue[s] # <<>> /\ queue[s][1] = c /\ 1 \in DOMAIN queue[s]
    BY <1>8, ConcludeEffect, ConcluderIsFirst
  <2>3. \A d \in Calls :
           stage'[d] = IF d = c THEN "done"
                       ELSE IF Len(queue[s]) > 1 /\ queue[s][2] = d THEN "send"
                       ELSE stage[d]
    BY <2>1, <2>2 DEF Conclude
  <2>4. Len(queue[s]) > 1 => 2 \in DOMAIN queue[s] /\ stage[queue[s][2]] = "lock"
    <3>1. queue[s] \in Seq(Calls)
      BY DEF ChannelTypeOK
    <3> QED
      BY <3>1 DEF LockOrder
  <2>5. \A d \in Calls : /\ stage'[d] \in {"idle", "lock", "send"} => stage[d] \in {"idle", "lock", "send"}
                         /\ stage[d] = "done" => stage'[d] = "done"
    BY <2>3, <2>4
  <2>6. stage'[c] = "done" /\ UNCHANGED <<agent, inbox>>
        /\ \A d \in Calls : outcome'[d] = IF d = c THEN result ELSE outcome[d]
    BY <2>1, <2>3 DEF Conclude, agentVars, ChannelTypeOK
  <2>7. \A d \in Calls : future'[d] = "result" => future[d] = "result"
    BY <1>8, ConcludeEffect
  <2>8. result # "503" /\ (result = "ok" => agent[c] = "executed")
    BY <2>1
  <2> QED
    BY <2>5, <2>6, <2>7, <2>8
<1>9. ASSUME NEW c \in Calls, AgentExecutes(c) PROVE TracesAreTrue'
  <2>1. /\ agent[c] = "sent"
        /\ \A d \in Calls : agent'[d] = IF d = c THEN "executed" ELSE agent[d]
        /\ \A s \in Sessions : inbox'[s] \subseteq inbox[s] \union {c}
    BY <1>9 DEF AgentExecutes, ChannelTypeOK
  <2>2. UNCHANGED <<stage, future, outcome>>
    BY <1>9, Zenon DEF AgentExecutes, callVars, futureVars
  <2>3. \A s \in Sessions : inbox[s] \subseteq Calls
    BY DEF ChannelTypeOK
  <2> QED
    BY <2>1, <2>2, <2>3
<1>10. ASSUME NEW s \in Sessions, BeginHandling(s) \/ Leave(s) \/ EndHandling(s) \/ Heartbeat(s)
       PROVE  UNCHANGED <<stage, future, agent, inbox, outcome>>
  BY <1>10, Zenon DEF BeginHandling, Leave, EndHandling, Heartbeat, callVars, futureVars, agentVars
<1>11. CASE UNCHANGED channelVars
  BY <1>1, <1>11 DEF channelVars
<1> QED
  BY <1>1, <1>3, <1>4, <1>5, <1>6, <1>7, <1>8, <1>9, <1>10, <1>11
     DEF ChannelNext, Clients, SessionTasks, NewCall, Call, Concluding

-----------------------------------------------------------------------------
(* The theorems                                                             *)

LEMMA InitInv == ChannelInit => ChannelInv
<1> SUFFICES ASSUME ChannelInit PROVE ChannelInv
  OBVIOUS
<1>1. LockOrder
  BY DEF ChannelInit, LockOrder, Under
<1>2. FuturesTracked
  BY DEF ChannelInit, FuturesTracked, NoFutureLeaks, Under
<1>3. TracesAreTrue
  BY DEF ChannelInit, TracesAreTrue, OutcomesAreTrue
<1> QED
  BY <1>1, <1>2, <1>3, TypeInit DEF ChannelInv

LEMMA Invariance == ChannelSpec => []ChannelInv
<1>1. ChannelInv /\ [ChannelNext]_channelVars => ChannelInv'
  BY TypeStep, LockStep, FuturesStep, TracesStep DEF ChannelInv
<1> QED
  BY <1>1, InitInv, PTL DEF ChannelSpec

\* Types of the channel, among them that the lock's queues hold calls.
THEOREM TypeCorrect == ChannelSpec => []ChannelTypeOK
<1>1. ChannelInv => ChannelTypeOK
  BY DEF ChannelInv
<1> QED
  BY <1>1, Invariance, PTL

\* However many request handlers call, a session has one command at a time.
THEOREM OneAtATime == ChannelSpec => []OneCommandAtATime
<1>1. ChannelInv => OneCommandAtATime
  <2> SUFFICES ASSUME ChannelInv, NEW c \in Calls, NEW d \in Calls,
                      stage[c] \in {"send", "await"}, stage[d] \in {"send", "await"}, via[c] = via[d]
               PROVE  c = d
    BY DEF OneCommandAtATime
  <2>1. PICK s \in Sessions : via[c] = {s} /\ queue[s] # <<>> /\ queue[s][1] = c /\ 1 \in DOMAIN queue[s]
    BY ConcluderIsFirst DEF ChannelInv
  <2>2. PICK t \in Sessions : via[d] = {t} /\ queue[t] # <<>> /\ queue[t][1] = d /\ 1 \in DOMAIN queue[t]
    BY ConcluderIsFirst DEF ChannelInv
  <2> QED
    BY <2>1, <2>2
<1> QED
  BY <1>1, Invariance, PTL

\* A call that still waits for an answer waits for the session that is the agent.
THEOREM NobodyAwaits == ChannelSpec => []NobodyAwaitsTheDeparted
<1>1. ChannelInv => NobodyAwaitsTheDeparted
  BY DEF ChannelInv, FuturesTracked, NobodyAwaitsTheDeparted
<1> QED
  BY <1>1, Invariance, PTL

\* The two tables of futures hold calls that are under way, and no others.
THEOREM NoLeak == ChannelSpec => []NoFutureLeaks
<1>1. ChannelInv => NoFutureLeaks
  BY DEF ChannelInv, FuturesTracked
<1> QED
  BY <1>1, Invariance, PTL

\* What a request handler is told of its command has happened, or has not.
THEOREM OutcomesCorrect == ChannelSpec => []OutcomesAreTrue
<1>1. ChannelInv => OutcomesAreTrue
  BY DEF ChannelInv, TracesAreTrue
<1> QED
  BY <1>1, Invariance, PTL
-----------------------------------------------------------------------------
(* The channel as CommandCalls sees it.                                     *)

LEMMA CallsStart == ChannelInit => Calling!CallsInit
BY DEF ChannelInit, Calling!CallsInit, Wire

\* A call that awaits its answer is alone on the wire of its session.
LEMMA AloneOnTheWire ==
    ASSUME ChannelTypeOK, LockOrder, NEW c \in Calls, stage[c] = "await"
    PROVE  \E s \in Sessions : via[c] = {s} /\ Wire[s] = {c}
<1>1. PICK s \in Sessions : via[c] = {s} /\ queue[s][1] = c
  BY ConcluderIsFirst
<1>2. ASSUME NEW d \in Calls, stage[d] = "await", via[d] = {s} PROVE d = c
  <2>1. PICK t \in Sessions : via[d] = {t} /\ queue[t][1] = d
    BY <1>2, ConcluderIsFirst
  <2> QED
    BY <1>1, <1>2, <2>1
<1> QED
  BY <1>1, <1>2 DEF Wire

\* A call that has got no further than the lock is on no wire.
LEMMA NotYetOnTheWire ==
    ASSUME TracesAreTrue, NEW c \in Calls, stage[c] \in {"idle", "send"}
    PROVE  Calling!Waiting(c) /\ agent[c] = "none"
<1>1. agent[c] = "none" /\ outcome[c] = "none"
  BY DEF TracesAreTrue
<1>2. \A s \in Sessions : c \notin Wire[s]
  BY DEF Wire
<1> QED
  BY <1>1, <1>2 DEF Calling!Waiting

\* The wires are what the stages and sessions of the calls make them.
LEMMA SameWires ==
    ASSUME \A c \in Calls : stage[c] = "await" <=> stage'[c] = "await",
           \A c \in Calls : stage[c] = "await" => via'[c] = via[c]
    PROVE  Wire' = Wire
BY DEF Wire

LEMMA WireTaken ==
    ASSUME NEW c \in Calls, NEW s \in Sessions,
           \A d \in Calls : d # c => (stage'[d] = "await" <=> stage[d] = "await"),
           \A d \in Calls : d # c => via'[d] = via[d],
           stage[c] # "await", stage'[c] = "await", via'[c] = {s}, Wire[s] = {}
    PROVE  Wire' = [Wire EXCEPT ![s] = {c}]
<1>1. ASSUME NEW t \in Sessions PROVE Wire'[t] = IF t = s THEN {c} ELSE Wire[t]
  BY DEF Wire
<1> QED
  BY <1>1 DEF Wire

\* Every step of the channel is one of CommandCalls, or none that callers notice.
LEMMA CallsFollow ==
    ASSUME ChannelInv, [ChannelNext]_channelVars
    PROVE  Calling!CallsNext \/ UNCHANGED Calling!callingVars
<1> USE DEF Calling!callingVars
<1>1. CASE UNCHANGED <<stage, via, agent, outcome>>
  BY <1>1, SameWires
<1>2. ASSUME NEW s \in Sessions,
             \/ Register(s) \/ BeginHandling(s) \/ Leave(s) \/ EndHandling(s) \/ Heartbeat(s)
             \/ EndSession(s) \/ \E c \in Calls : ReceiveResponse(s, c)
      PROVE  UNCHANGED <<stage, via, agent, outcome>>
  BY <1>2, Zenon DEF Register, BeginHandling, Leave, EndHandling, Heartbeat, EndSession,
     ReceiveResponse, callVars, agentVars
<1>3. ASSUME NEW c \in Calls, TurnAway(c) \/ SendAtOnceFails(c) PROVE Calling!CallsNext
  <2>1. stage[c] = "idle" /\ stage' = [stage EXCEPT ![c] = "done"] /\ UNCHANGED <<via, agent>>
    BY <1>3, Zenon DEF TurnAway, SendAtOnceFails, agentVars
  <2>2. Wire' = Wire
    BY <2>1, SameWires DEF ChannelInv, ChannelTypeOK
  <2>3. Calling!End(c, {"400", "502", "503"})
    BY <1>3 DEF TurnAway, SendAtOnceFails, Calling!End
  <2>4. Calling!Fail(c)
    BY <2>1, <2>2, <2>3, NotYetOnTheWire DEF ChannelInv, Calling!Fail
  <2> QED
    BY <2>4 DEF Calling!CallsNext
<1>4. ASSUME NEW c \in Calls, WaitForLock(c) PROVE UNCHANGED <<Wire, agent, outcome>>
  <2>1. /\ stage[c] = "idle" /\ stage' = [stage EXCEPT ![c] = "lock"]
        /\ \E s \in active : via' = [via EXCEPT ![c] = {s}]
        /\ UNCHANGED <<agent, outcome>>
    BY <1>4 DEF WaitForLock, agentVars
  <2>2. Wire' = Wire
    BY <2>1, SameWires DEF ChannelInv, ChannelTypeOK
  <2> QED
    BY <2>1, <2>2
<1>5. ASSUME NEW c \in Calls, SendAtOnce(c) PROVE Calling!CallsNext
  <2>1. PICK s \in active : /\ queue[s] = <<>> /\ Frame(c, s)
                           /\ via' = [via EXCEPT ![c] = {s}]
    BY <1>5 DEF SendAtOnce
  <2>2. /\ s \in Sessions
        /\ stage[c] = "idle" /\ stage' = [stage EXCEPT ![c] = "await"] /\ outcome' = outcome
    BY <1>5 DEF SendAtOnce, ChannelInv, ChannelTypeOK
  <2>3. Wire[s] = {}
    <3>1. ASSUME NEW d \in Calls, stage[d] = "await", via[d] = {s} PROVE FALSE
      <4>1. PICK t \in Sessions : via[d] = {t} /\ queue[t] # <<>>
        BY <3>1, ConcluderIsFirst DEF ChannelInv
      <4> QED
        BY <2>1, <3>1, <4>1
    <3> QED
      BY <2>2, <3>1 DEF Wire
  <2>4. Wire' = [Wire EXCEPT ![s] = {c}]
    BY <2>1, <2>2, <2>3, WireTaken DEF ChannelInv, ChannelTypeOK
  <2>5. agent[c] = "none" /\ Calling!Waiting(c)
    BY <2>2, NotYetOnTheWire DEF ChannelInv
  <2>6. \E now \in {"none", "sent"} : agent' = [agent EXCEPT ![c] = now]
    BY <2>1, <2>5 DEF Frame
  <2>7. Calling!Open(c, s)
    BY <2>2, <2>3, <2>4, <2>5, <2>6 DEF Calling!Open
  <2> QED
    BY <2>2, <2>7 DEF Calling!CallsNext
<1>6. ASSUME NEW c \in Calls, Send(c) PROVE Calling!CallsNext
  <2>1. PICK s \in Sessions : via[c] = {s} /\ queue[s][1] = c
    BY <1>6, ConcluderIsFirst DEF Send, ChannelInv
  <2>2. /\ stage[c] = "send" /\ stage' = [stage EXCEPT ![c] = "await"]
        /\ Frame(c, s) /\ UNCHANGED <<via, outcome>>
    BY <1>6, <2>1 DEF Send
  <2>3. Wire[s] = {}
    <3>1. ASSUME NEW d \in Calls, stage[d] = "await", via[d] = {s} PROVE FALSE
      <4>1. PICK t \in Sessions : via[d] = {t} /\ queue[t][1] = d
        BY <3>1, ConcluderIsFirst DEF ChannelInv
      <4> QED
        BY <2>1, <2>2, <3>1, <4>1
    <3> QED
      BY <3>1 DEF Wire
  <2>4. Wire' = [Wire EXCEPT ![s] = {c}]
    BY <2>1, <2>2, <2>3, WireTaken DEF ChannelInv, ChannelTypeOK
  <2>5. agent[c] = "none" /\ Calling!Waiting(c)
    BY <2>2, NotYetOnTheWire DEF ChannelInv
  <2>6. \E now \in {"none", "sent"} : agent' = [agent EXCEPT ![c] = now]
    BY <2>2, <2>5 DEF Frame
  <2>7. Calling!Open(c, s)
    BY <2>2, <2>3, <2>4, <2>5, <2>6 DEF Calling!Open
  <2> QED
    BY <2>7 DEF Calling!CallsNext
<1>7. ASSUME NEW c \in Calls, Concluding(c) PROVE Calling!CallsNext
  <2>1. PICK s \in Sessions : via[c] = {s} /\ queue[s] # <<>> /\ queue[s][1] = c
    BY <1>7, ConcludeEffect, ConcluderIsFirst DEF ChannelInv
  <2>2. /\ stage[c] \in {"send", "await"} /\ UNCHANGED <<via, agent>>
        /\ \A d \in Calls :
              stage'[d] = IF d = c THEN "done"
                          ELSE IF Len(queue[s]) > 1 /\ queue[s][2] = d THEN "send"
                          ELSE stage[d]
    BY <1>7, <2>1, ConcludeEffect DEF ChannelInv, Conclude, agentVars
  <2>3. ASSUME NEW d \in Calls, Len(queue[s]) > 1, queue[s][2] = d PROVE stage[d] = "lock"
    <3>1. queue[s] \in Seq(Calls)
      BY DEF ChannelInv, ChannelTypeOK
    <3>2. 2 \in DOMAIN queue[s]
      BY <2>3, <3>1
    <3> QED
      BY <2>3, <3>2 DEF ChannelInv, LockOrder
  <2>4. \A d \in Calls : d # c => (stage'[d] = "await" <=> stage[d] = "await")
    BY <2>2, <2>3
  <2>5. CASE stage[c] = "send"
    <3>1. SendFails(c)
      BY <1>7, <2>5 DEF Concluding, Answer, Disconnected, TimeOut
    <3>2. Wire' = Wire
      BY <2>2, <2>4, <2>5, SameWires
    <3>3. Calling!End(c, {"400", "502", "503"})
      BY <3>1 DEF SendFails, Conclude, Calling!End
    <3>4. Calling!Fail(c)
      BY <2>2, <2>5, <3>2, <3>3, NotYetOnTheWire DEF ChannelInv, Calling!Fail
    <3> QED
      BY <3>4 DEF Calling!CallsNext
  <2>6. CASE stage[c] = "await"
    <3>1. Wire[s] = {c}
      BY <2>1, <2>6, AloneOnTheWire DEF ChannelInv
    <3>2. Wire' = [Wire EXCEPT ![s] = {}]
      <4>1. ASSUME NEW t \in Sessions PROVE Wire'[t] = IF t = s THEN {} ELSE Wire[t]
        <5>1. Wire'[t] = {d \in Calls : stage[d] = "await" /\ via[d] = {t} /\ d # c}
          BY <2>2, <2>4 DEF Wire
        <5>2. Wire[t] = {d \in Calls : stage[d] = "await" /\ via[d] = {t}}
          BY DEF Wire
        <5> QED
          BY <2>1, <3>1, <5>1, <5>2
      <4> QED
        BY <4>1 DEF Wire
    <3>3. \/ Calling!End(c, {"502", "504"})
          \/ agent[c] = "executed" /\ Calling!End(c, {"ok", "400"})
      <4>1. CASE Answer(c)
        <5>1. agent[c] = "executed"
          BY <4>1 DEF Answer, ChannelInv, TracesAreTrue
        <5> QED
          BY <4>1, <5>1 DEF Answer, Conclude, Calling!End
      <4>2. CASE SendFails(c) \/ Disconnected(c) \/ TimeOut(c)
        BY <4>2 DEF SendFails, Disconnected, TimeOut, Conclude, Calling!End
      <4> QED
        BY <1>7, <4>1, <4>2 DEF Concluding
    <3>4. Calling!Close(c, s)
      BY <2>2, <3>1, <3>2, <3>3 DEF Calling!Close
    <3> QED
      BY <3>4 DEF Calling!CallsNext
  <2> QED
    BY <2>2, <2>5, <2>6
<1>8. ASSUME NEW c \in Calls, AgentExecutes(c) PROVE Calling!CallsNext
  <2>1. UNCHANGED <<stage, via, outcome>>
    BY <1>8, Zenon DEF AgentExecutes, callVars
  <2>2. Calling!Execute(c)
    BY <1>8, <2>1, SameWires DEF AgentExecutes, Calling!Execute
  <2> QED
    BY <2>2 DEF Calling!CallsNext
<1>9. CASE UNCHANGED channelVars
  BY <1>1, <1>9 DEF channelVars
<1> QED
  BY <1>1, <1>2, <1>3, <1>4, <1>5, <1>6, <1>7, <1>8, <1>9
     DEF ChannelNext, Clients, SessionTasks, NewCall, Call, Concluding

\* Refinement: sessions, locks, two tables of futures, responses and timeouts make
\* calls of one command at a time (send_agent_command, _handle_response_message,
\* _cleanup_agent).
THEOREM ChannelImplementsCalls == ChannelSpec => CallsSpec
<1>1. ChannelInv /\ [ChannelNext]_channelVars => [Calling!CallsNext]_(Calling!callingVars)
  BY CallsFollow
<1> QED
  BY <1>1, CallsStart, Invariance, PTL DEF ChannelSpec, CallsSpec, Calling!CallsSpec
-----------------------------------------------------------------------------
(* Whoever holds the lock of a session releases it.                         *)

HolderEnds(c) == stage[c] \in {"send", "await"} ~> stage[c] = "done"

EveryHolderEnds == \A c \in Calls : HolderEnds(c)

\* A call that concludes wakes the next in line, which is no holder.
LEMMA ConcludeSparesHolders ==
    ASSUME ChannelTypeOK, LockOrder, NEW c \in Calls, stage[c] \in {"send", "await"},
           NEW d \in Calls, d # c, NEW result, Conclude(d, result)
    PROVE  stage'[c] = stage[c]
<1>1. ASSUME NEW s \in via[d], Len(queue[s]) > 1, queue[s][2] = c PROVE FALSE
  <2>1. s \in Sessions /\ queue[s] \in Seq(Calls)
    BY <1>1 DEF ChannelTypeOK
  <2>2. 2 \in DOMAIN queue[s]
    BY <1>1, <2>1
  <2> QED
    BY <1>1, <2>1, <2>2 DEF LockOrder
<1> QED
  BY <1>1 DEF Conclude

\* The steps of others leave the holder of a lock where it is.
LEMMA OthersSpareHolders ==
    ASSUME ChannelTypeOK, LockOrder, NEW c \in Calls, stage[c] \in {"send", "await"},
           [ChannelNext]_channelVars, ~Call(c)
    PROVE  stage'[c] = stage[c]
<1>1. ASSUME NEW d \in Calls, NewCall(d)
      PROVE  stage'[c] = stage[c]
  <2>1. stage[d] = "idle"
    BY <1>1 DEF NewCall, TurnAway, WaitForLock, SendAtOnce, SendAtOnceFails
  <2>2. CASE WaitForLock(d) \/ SendAtOnce(d)
    BY <2>1, <2>2, JoinEffect
  <2>3. CASE TurnAway(d) \/ SendAtOnceFails(d)
    BY <2>1, <2>3 DEF TurnAway, SendAtOnceFails, ChannelTypeOK
  <2> QED
    BY <1>1, <2>2, <2>3 DEF NewCall
<1>2. ASSUME NEW d \in Calls, Call(d)
      PROVE  stage'[c] = stage[c]
  <2>1. d # c
    BY <1>2
  <2>2. CASE Send(d)
    BY <2>1, <2>2 DEF Send, ChannelTypeOK
  <2>3. CASE Concluding(d)
    BY <2>1, <2>3, ConcludeEffect, ConcludeSparesHolders
  <2> QED
    BY <1>2, <2>2, <2>3 DEF Call, Concluding
<1>3. CASE Clients
  BY <1>3 DEF Clients, Register, BeginHandling, Leave, callVars
<1>4. CASE SessionTasks
  BY <1>4 DEF SessionTasks, EndHandling, Heartbeat, EndSession, ReceiveResponse, callVars
<1>5. ASSUME NEW d \in Calls, AgentExecutes(d)
      PROVE  stage'[c] = stage[c]
  BY <1>5 DEF AgentExecutes, callVars
<1>6. CASE UNCHANGED channelVars
  BY <1>6 DEF channelVars
<1> QED
  BY <1>1, <1>2, <1>3, <1>4, <1>5, <1>6 DEF ChannelNext

LEMMA HolderGoesOn ==
    ASSUME ChannelTypeOK, NEW c \in Calls, Call(c)
    PROVE  \/ stage[c] = "send" /\ stage'[c] = "await"
           \/ stage'[c] = "done"
<1>1. CASE Send(c)
  BY <1>1 DEF Send, ChannelTypeOK
<1>2. CASE Concluding(c)
  BY <1>2, ConcludeEffect DEF Conclude
<1> QED
  BY <1>1, <1>2 DEF Call, Concluding

LEMMA OneHolderEnds ==
    ASSUME NEW c \in Calls
    PROVE  [][ChannelNext]_channelVars /\ GoesOn(c) /\ []ChannelInv /\ []HolderIsNotStuck
             => HolderEnds(c)
<1> DEFINE Sends  == stage[c] = "send"
           Awaits == stage[c] = "await"
           Done   == stage[c] = "done"
<1>1. /\ ChannelInv /\ Sends /\ [ChannelNext]_channelVars => Sends' \/ Awaits' \/ Done'
      /\ ChannelInv /\ Awaits /\ [ChannelNext]_channelVars => Awaits' \/ Done'
  BY OthersSpareHolders, HolderGoesOn DEF ChannelInv
<1>2. /\ ChannelInv /\ Sends /\ <<Call(c)>>_channelVars => Awaits' \/ Done'
      /\ ChannelInv /\ Awaits /\ <<Call(c)>>_channelVars => Done'
  BY HolderGoesOn DEF ChannelInv
<1>3. HolderIsNotStuck /\ (Sends \/ Awaits) => ENABLED <<Call(c)>>_channelVars
  BY DEF HolderIsNotStuck
<1>4. stage[c] \in {"send", "await"} <=> Sends \/ Awaits
  OBVIOUS
<1>5. Done <=> stage[c] = "done"
  OBVIOUS
<1> HIDE DEF Sends, Awaits, Done
<1> QED
  BY <1>1, <1>2, <1>3, <1>4, <1>5, PTL DEF GoesOn, HolderEnds

\* The part of EveryCallEnds that is not about the queue: whether the agent answers,
\* goes, or is replaced, a call that has the lock is over one day, for any number of
\* sessions and calls, as long as it can take a step: HolderIsNotStuck.
THEOREM LockIsReleased == ChannelSpec /\ []HolderIsNotStuck => EveryHolderEnds
<1>1. ChannelSpec => [][ChannelNext]_channelVars /\ []ChannelInv
  BY Invariance, PTL DEF ChannelSpec
<1>2. ChannelSpec => CallsGoOn
  BY PTL DEF ChannelSpec, ChannelFairness
<1>3. ASSUME NEW c \in Calls
      PROVE  ChannelSpec /\ []HolderIsNotStuck => HolderEnds(c)
  <2>1. CallsGoOn => GoesOn(c)
    BY DEF CallsGoOn
  <2> QED
    BY <1>1, <1>2, <2>1, OneHolderEnds, PTL
<1> QED
  BY <1>3 DEF EveryHolderEnds
=============================================================================
