------------------------- MODULE RevitBridgeProofs -------------------------
(***************************************************************************)
(* Proofs about RevitBridge, for any updates, capacity of the queue and    *)
(* threshold of the breaker.                                               *)
(***************************************************************************)
EXTENDS RevitBridge, FiniteSetTheorems, SequenceTheorems, TLAPS

\* The server is at one update at a time, which has no answer yet; as long as
\* the add-in is at a command, the server waits for it.
OneRequest ==
    /\ server = "idle" => current = {}
    /\ \A u, v \in current : u = v
    /\ \A u \in current : answer[u] = "none" /\ u \in BimParameters
    /\ addin \in {"enqueue", "raise", "respond"} => server = "await"

\* The part of AnswersAreTrue that is about Revit.
ToldFate ==
    \A u \in Updates :
        /\ answer[u] = "forwarded" => fate[u] # "none"
        /\ answer[u] \in {"refused", "queued"} => fate[u] = "none"

\* An update is unknown to Revit until the add-in has queued it.
FateFollows ==
    /\ \A u \in Updates : answer[u] = "none" /\ u \notin current => fate[u] = "none"
    /\ server \in {"gate", "connect"} \/ addin = "enqueue" => \A u \in current : fate[u] = "none"
    /\ addin \in {"raise", "respond"} => \A u \in current : fate[u] # "none"
    /\ \A i \in DOMAIN actionQueue : fate[actionQueue[i]] # "none"
    /\ ToldFate

-----------------------------------------------------------------------------
(* Batches                                                                  *)

LEMMA Bounds ==
    LocalCapacity \in Nat \ {0} /\ FailureThreshold \in Nat \ {0} /\ BimParameters \subseteq Updates
BY BridgeAssumption

\* The devices of a placement are updates, and none of them is there twice.
LEMMA BatchShape ==
    ASSUME NEW b \in Batches
    PROVE  /\ b \in Seq(Updates) /\ b # <<>>
           /\ Len(b) \in Nat \ {0}
           /\ \A i \in 1..Len(b) : b[i] \in Updates \ BimParameters
           /\ \A i, j \in 1..Len(b) : b[i] = b[j] => i = j
<1>1. b \in Seq(Updates \ BimParameters) /\ b # <<>>
  BY BridgeAssumption
<1>2. DOMAIN b = 1..Len(b) /\ Len(b) \in Nat \ {0}
  BY <1>1
<1>3. \A i, j \in DOMAIN b : b[i] = b[j] => i = j
  BY BridgeAssumption
<1> QED
  BY <1>1, <1>2, <1>3

\* How many devices enqueue takes: all of them, as many as there is room for, or
\* none if the only one has no name.
LEMMA TakenRange ==
    ASSUME NEW b \in Batches, localQueue \in Seq(Updates)
    PROVE  /\ Taken(b) \in Int /\ Taken(b) <= Len(b)
           /\ Len(localQueue) <= LocalCapacity =>
                 /\ Taken(b) \in 0..Len(b)
                 /\ Len(localQueue) + Taken(b) <= LocalCapacity
                 /\ \A i \in 1..Taken(b) : b[i] \notin Malformed
                 /\ Taken(b) # Len(b) => \/ Len(localQueue) + Taken(b) = LocalCapacity
                                         \/ b[Taken(b) + 1] \in Malformed
<1>1. Len(localQueue) \in Nat /\ LocalCapacity \in Nat
  BY BridgeAssumption
<1>2. Len(b) \in Nat \ {0} /\ DOMAIN b = 1..Len(b)
  BY BatchShape
<1>3. b[1] \notin Malformed => \A i \in 1..Len(b) : b[i] \notin Malformed
  BY <1>2, BridgeAssumption
<1>4. CASE b[1] \in Malformed
  BY <1>1, <1>2, <1>4 DEF Taken
<1>5. CASE b[1] \notin Malformed
  BY <1>1, <1>2, <1>3, <1>5 DEF Taken
<1> QED
  BY <1>4, <1>5

\* They follow the updates that are in the queue, in the order of the batch.
LEMMA BatchIsQueued ==
    ASSUME NEW b \in Batches, localQueue \in Seq(Updates), QueueBatch(b)
    PROVE  /\ localQueue' \in Seq(Updates)
           /\ Len(localQueue) <= LocalCapacity =>
                 /\ Len(localQueue') = Len(localQueue) + Taken(b)
                 /\ \A i \in 1..Len(localQueue) : localQueue'[i] = localQueue[i]
                 /\ \A i \in 1..Taken(b) : localQueue'[Len(localQueue) + i] = b[i]
<1> DEFINE n == Taken(b)
           t == SubSeq(b, 1, n)
<1>1. n \in Int /\ n <= Len(b) /\ (Len(localQueue) <= LocalCapacity => n \in 0..Len(b))
  BY TakenRange
<1>2. \A i \in 1..n : b[i] \in Updates
  BY <1>1, BatchShape
<1> HIDE DEF n
<1>3. /\ t \in Seq(Updates)
      /\ Len(t) = IF 1 <= n THEN n - 1 + 1 ELSE 0
      /\ \A i \in 1..(n - 1 + 1) : t[i] = b[1 + i - 1]
  BY <1>1, <1>2, SubSeqProperties
<1>4. /\ t \in Seq(Updates)
      /\ Len(localQueue) <= LocalCapacity => Len(t) = n
      /\ \A i \in 1..n : t[i] = b[i]
  BY <1>1, <1>3
<1> HIDE DEF t
<1>5. localQueue' = localQueue \o t
  BY DEF QueueBatch, n, t
<1>6. /\ localQueue' \in Seq(Updates)
      /\ Len(localQueue') = Len(localQueue) + Len(t)
      /\ \A i \in 1..(Len(localQueue) + Len(t)) :
            localQueue'[i] = IF i <= Len(localQueue) THEN localQueue[i] ELSE t[i - Len(localQueue)]
  BY <1>4, <1>5, ConcatProperties
<1>7. Len(localQueue) \in Nat
  OBVIOUS
<1>8. Len(localQueue) <= LocalCapacity =>
        \A i \in 1..n : localQueue'[Len(localQueue) + i] = b[i]
  <2> SUFFICES ASSUME Len(localQueue) <= LocalCapacity, NEW i \in 1..n
               PROVE  localQueue'[Len(localQueue) + i] = b[i]
    OBVIOUS
  <2> DEFINE j == Len(localQueue) + i
  <2>1. i \in Nat /\ i > 0 /\ i <= n /\ Len(t) = n
    BY <1>1, <1>4
  <2>2. /\ j \in 1..(Len(localQueue) + Len(t))
        /\ ~(j <= Len(localQueue)) /\ j - Len(localQueue) = i
    BY <1>1, <1>7, <2>1
  <2> HIDE DEF j
  <2>3. localQueue'[j] = t[j - Len(localQueue)]
    BY <1>6, <2>2
  <2>4. localQueue'[j] = b[i]
    BY <1>4, <2>2, <2>3
  <2> QED
    BY <2>4 DEF j
<1>9. Len(localQueue) <= LocalCapacity =>
        /\ Len(localQueue') = Len(localQueue) + n
        /\ \A i \in 1..Len(localQueue) : localQueue'[i] = localQueue[i]
  BY <1>1, <1>4, <1>6, <1>7
<1> QED
  BY <1>6, <1>8, <1>9 DEF n

\* A batch changes the queue and the answers of its updates, all of which become
\* "queued" or "refused".
LEMMA BatchIsAnswered ==
    ASSUME NEW b \in Batches, QueueBatch(b)
    PROVE  /\ UNCHANGED <<server, current, circuit, failureCount, cooledDown,
                          addin, actionQueue, raised, fate>>
           /\ server = "idle" /\ \A i \in 1..Len(b) : answer[b[i]] = "none"
           /\ answer' = [u \in Updates |->
                            IF \E i \in 1..Len(b) : b[i] = u
                            THEN IF Taken(b) = Len(b) THEN "queued" ELSE "refused"
                            ELSE answer[u]]
<1>1. DOMAIN b = 1..Len(b)
  BY BatchShape
<1> QED
  BY <1>1, Zenon DEF QueueBatch, Tell, breakerVars, addinVars

LEMMA BatchAnswers ==
    ASSUME NEW b \in Batches, QueueBatch(b), answer \in [Updates -> Answers]
    PROVE  /\ UNCHANGED <<server, current, addin, actionQueue, fate>> /\ server = "idle"
           /\ answer' \in [Updates -> Answers]
           /\ \A i \in 1..Len(b) : answer[b[i]] = "none" /\ answer'[b[i]] # "none"
           /\ \A u \in Updates : answer'[u] = answer[u]
                 \/ (answer[u] = "none" /\ answer'[u] \in {"queued", "refused"})
<1> DEFINE text == IF Taken(b) = Len(b) THEN "queued" ELSE "refused"
<1>1. text \in {"queued", "refused"}
  OBVIOUS
<1>2. answer' = [u \in Updates |-> IF \E i \in 1..Len(b) : b[i] = u THEN text ELSE answer[u]]
  BY BatchIsAnswered
<1> HIDE DEF text
<1>3. \A i \in 1..Len(b) : b[i] \in Updates /\ answer[b[i]] = "none"
  BY BatchIsAnswered, BatchShape
<1>4. answer' \in [Updates -> Answers]
  BY <1>1, <1>2 DEF Answers
<1>5. \A i \in 1..Len(b) : answer'[b[i]] = text
  BY <1>2, <1>3
<1>6. ASSUME NEW u \in Updates
      PROVE  answer'[u] = answer[u] \/ (answer[u] = "none" /\ answer'[u] = text)
  <2>1. CASE \E i \in 1..Len(b) : b[i] = u
    BY <1>3, <1>5, <2>1
  <2>2. CASE ~\E i \in 1..Len(b) : b[i] = u
    <3>1. answer'[u] = IF \E i \in 1..Len(b) : b[i] = u THEN text ELSE answer[u]
      BY <1>2, Zenon
    <3> QED
      BY <2>2, <3>1
  <2> QED
    BY <2>1, <2>2
<1>7. UNCHANGED <<server, current, addin, actionQueue, fate>> /\ server = "idle"
  BY BatchIsAnswered
<1> QED
  BY <1>1, <1>3, <1>4, <1>5, <1>6, <1>7

-----------------------------------------------------------------------------
(* Types and the circuit                                                    *)

\* BridgeTypeOK in three parts: the queues, the flags, and all the rest.
QueueTypes == localQueue \in Seq(Updates) /\ actionQueue \in Seq(Updates)

FlagTypes == cooledDown \in BOOLEAN /\ raised \in BOOLEAN

OtherTypes ==
    /\ answer \in [Updates -> Answers]
    /\ server \in {"idle", "gate", "connect", "await"}
    /\ current \in SUBSET Updates
    /\ circuit \in {"CLOSED", "OPEN", "HALF_OPEN"}
    /\ failureCount \in Nat
    /\ addin \in {"down", "accepting", "enqueue", "raise", "respond", "closing"}
    /\ fate \in [Updates -> Fates]

LEMMA TypeParts == BridgeTypeOK <=> QueueTypes /\ FlagTypes /\ OtherTypes
BY DEF BridgeTypeOK, QueueTypes, FlagTypes, OtherTypes

LEMMA TypeInit == BridgeInit => BridgeTypeOK
<1>1. BridgeInit => QueueTypes
  BY DEF BridgeInit, QueueTypes
<1>2. BridgeInit => OtherTypes
  BY DEF BridgeInit, OtherTypes, Answers, Fates
<1>3. BridgeInit => FlagTypes
  BY DEF BridgeInit, FlagTypes
<1> QED
  BY <1>1, <1>2, <1>3, TypeParts

\* What Revit's idling and its end do to the rest.
LEMMA ExecuteEffect ==
    ASSUME Execute
    PROVE  /\ UNCHANGED <<localQueue, answer, server, current, addin>>
           /\ \/ UNCHANGED <<actionQueue, fate>>
              \/ /\ actionQueue # <<>> /\ actionQueue' = Tail(actionQueue)
                 /\ \E end \in {"committed", "rolled_back"} :
                       fate' = [fate EXCEPT ![Head(actionQueue)] = end]
BY Zenon DEF Execute, serverVars

LEMMA ShutdownEffect ==
    ASSUME Shutdown
    PROVE  /\ UNCHANGED <<localQueue, answer, server, current>>
           /\ addin' = "down"
           /\ actionQueue' = <<>>
           /\ fate' = [u \in Updates |-> IF fate[u] = "waiting" THEN "lost" ELSE fate[u]]
BY Zenon DEF Shutdown, serverVars

LEMMA QueueTypeStep == QueueTypes /\ [BridgeNext]_bridgeVars => QueueTypes'
<1> SUFFICES ASSUME QueueTypes, [BridgeNext]_bridgeVars PROVE QueueTypes'
  OBVIOUS
<1> USE DEF QueueTypes, serverVars, addinVars
<1>1. ASSUME NEW u \in Updates, Refuse(u) \/ Take(u) PROVE QueueTypes'
  BY <1>1 DEF Refuse, Take
<1>2. ASSUME NEW u \in Updates, ServerStep(u) PROVE QueueTypes'
  BY <1>2 DEF ServerStep, PassGate, FailFast, Connect, ConnectInVain, HearNothing
<1>3. ASSUME NEW u \in Updates, AddinStep(u) PROVE QueueTypes'
  <2>1. CASE Enqueue(u)
    <3>1. actionQueue' = Append(actionQueue, u) /\ localQueue' = localQueue
      BY <2>1, Zenon DEF Enqueue
    <3> QED
      BY <3>1
  <2>2. CASE Raise(u) \/ Respond(u) \/ RespondInVain(u)
    <3>1. UNCHANGED <<localQueue, actionQueue>>
      BY <2>2, Zenon DEF Raise, Respond, RespondInVain
    <3> QED
      BY <3>1
  <2> QED
    BY <1>3, <2>1, <2>2, Zenon DEF AddinStep
<1>4. CASE CoolDown \/ Relisten \/ Startup \/ UNCHANGED bridgeVars
  BY <1>4 DEF CoolDown, Relisten, Startup, bridgeVars
<1>5. CASE Execute
  BY <1>5, ExecuteEffect
<1>6. CASE Shutdown
  BY <1>6, ShutdownEffect
<1>7. ASSUME NEW b \in Batches, QueueBatch(b) PROVE QueueTypes'
  BY <1>7, BatchIsQueued, BatchIsAnswered
<1> QED
  BY <1>1, <1>2, <1>3, <1>4, <1>5, <1>6, <1>7 DEF BridgeNext, RequestUpdate, Serve, Attend

LEMMA FlagTypeStep == FlagTypes /\ [BridgeNext]_bridgeVars => FlagTypes'
<1> SUFFICES ASSUME FlagTypes, [BridgeNext]_bridgeVars PROVE FlagTypes'
  OBVIOUS
<1> USE DEF FlagTypes, breakerVars, addinVars
<1>1. ASSUME NEW u \in Updates, Refuse(u) \/ Take(u) PROVE FlagTypes'
  BY <1>1 DEF Refuse, Take
<1>2. ASSUME NEW u \in Updates, ServerStep(u) PROVE FlagTypes'
  BY <1>2 DEF ServerStep, PassGate, FailFast, Connect, ConnectInVain, HearNothing, RecordFailure
<1>3. ASSUME NEW u \in Updates, AddinStep(u) PROVE FlagTypes'
  BY <1>3 DEF AddinStep, Enqueue, Raise, Respond, RespondInVain, RecordSuccess
<1>4. CASE CoolDown \/ Relisten \/ Startup \/ Execute \/ Shutdown \/ UNCHANGED bridgeVars
  BY <1>4 DEF CoolDown, Relisten, Startup, Execute, Shutdown, bridgeVars
<1>5. ASSUME NEW b \in Batches, QueueBatch(b) PROVE FlagTypes'
  BY <1>5, BatchIsAnswered
<1> QED
  BY <1>1, <1>2, <1>3, <1>4, <1>5 DEF BridgeNext, RequestUpdate, Serve, Attend

LEMMA OtherTypeStep == BridgeTypeOK /\ [BridgeNext]_bridgeVars => OtherTypes'
<1> SUFFICES ASSUME OtherTypes, QueueTypes, [BridgeNext]_bridgeVars PROVE OtherTypes'
  BY TypeParts
<1> USE DEF OtherTypes, serverVars, breakerVars, addinVars
<1>1. ASSUME NEW u \in Updates, Refuse(u) \/ Take(u) PROVE OtherTypes'
  BY <1>1 DEF Refuse, Take, Reply, Answers
<1>2. ASSUME NEW u \in Updates, ServerStep(u) PROVE OtherTypes'
  BY <1>2 DEF ServerStep, PassGate, FailFast, Connect, ConnectInVain, HearNothing, Reply,
              RecordFailure, Answers
<1>3. ASSUME NEW u \in Updates, AddinStep(u) PROVE OtherTypes'
  BY <1>3 DEF AddinStep, Enqueue, Raise, Respond, RespondInVain, Reply, RecordSuccess, Answers, Fates
<1>4. CASE CoolDown \/ Relisten \/ Startup
  BY <1>4 DEF CoolDown, Relisten, Startup
<1>5. CASE Execute
  <2>1. CASE actionQueue = <<>>
    BY <1>5, <2>1 DEF Execute
  <2>2. PICK end \in Fates : actionQueue # <<>> => fate' = [fate EXCEPT ![Head(actionQueue)] = end]
    BY <1>5 DEF Execute, Fates
  <2>3. fate' \in [Updates -> Fates]
    BY <1>5, <2>1, <2>2 DEF Execute
  <2> QED
    BY <1>5, <2>3 DEF Execute
<1>6. CASE Shutdown
  BY <1>6 DEF Shutdown, Fates
<1>7. CASE UNCHANGED bridgeVars
  BY <1>7 DEF bridgeVars
<1>8. ASSUME NEW b \in Batches, QueueBatch(b) PROVE OtherTypes'
  BY <1>8, BatchIsAnswered, BatchAnswers
<1> QED
  BY <1>1, <1>2, <1>3, <1>4, <1>5, <1>6, <1>7, <1>8 DEF BridgeNext, RequestUpdate, Serve, Attend

LEMMA TypeStep == BridgeTypeOK /\ [BridgeNext]_bridgeVars => BridgeTypeOK'
<1>1. BridgeTypeOK' <=> QueueTypes' /\ FlagTypes' /\ OtherTypes'
  BY DEF BridgeTypeOK, QueueTypes, FlagTypes, OtherTypes
<1> QED
  BY <1>1, TypeParts, QueueTypeStep, FlagTypeStep, OtherTypeStep

\* BridgeTypeOK, for any updates and bounds.
THEOREM TypeCorrect == BridgeSpec => []BridgeTypeOK
BY TypeInit, TypeStep, PTL DEF BridgeSpec

LEMMA CircuitStep ==
    BridgeTypeOK /\ CircuitCountsFailures /\ [BridgeNext]_bridgeVars => CircuitCountsFailures'
<1> SUFFICES ASSUME BridgeTypeOK, CircuitCountsFailures, [BridgeNext]_bridgeVars
             PROVE  CircuitCountsFailures'
  OBVIOUS
<1> USE Bounds DEF CircuitCountsFailures, breakerVars
<1>1. CASE RecordFailure
  BY <1>1 DEF RecordFailure, BridgeTypeOK
<1>2. CASE RecordSuccess
  BY <1>2 DEF RecordSuccess
<1>3. CASE failureCount' = failureCount /\ (circuit' = "CLOSED" <=> circuit = "CLOSED")
  BY <1>3
<1>4. RecordFailure \/ RecordSuccess
        \/ (failureCount' = failureCount /\ (circuit' = "CLOSED" <=> circuit = "CLOSED"))
  <2>1. ASSUME NEW u \in Updates, Refuse(u) \/ Take(u) PROVE UNCHANGED breakerVars
    BY <2>1 DEF Refuse, Take
  <2>2. ASSUME NEW u \in Updates, ServerStep(u)
        PROVE  RecordFailure \/ (failureCount' = failureCount /\ (circuit' = "CLOSED" <=> circuit = "CLOSED"))
    BY <2>2 DEF ServerStep, PassGate, FailFast, Connect, ConnectInVain, HearNothing
  <2>3. ASSUME NEW u \in Updates, AddinStep(u) PROVE RecordSuccess \/ UNCHANGED breakerVars
    BY <2>3 DEF AddinStep, Enqueue, Raise, Respond, RespondInVain
  <2>4. CASE CoolDown \/ Relisten \/ Startup \/ Execute \/ Shutdown \/ UNCHANGED bridgeVars
    BY <2>4 DEF CoolDown, Relisten, Startup, Execute, Shutdown, bridgeVars
  <2>5. ASSUME NEW b \in Batches, QueueBatch(b) PROVE UNCHANGED breakerVars
    BY <2>5 DEF QueueBatch
  <2> QED
    BY <2>1, <2>2, <2>3, <2>4, <2>5 DEF BridgeNext, RequestUpdate, Serve, Attend
<1> QED
  BY <1>1, <1>2, <1>3, <1>4

\* CircuitCountsFailures: the circuit is closed exactly as long as fewer than
\* failure_threshold calls have failed since the last success.
THEOREM CircuitIsExact == BridgeSpec => []CircuitCountsFailures
<1>1. BridgeInit => CircuitCountsFailures
  BY BridgeAssumption DEF BridgeInit, CircuitCountsFailures
<1> QED
  BY <1>1, TypeCorrect, CircuitStep, PTL DEF BridgeSpec

-----------------------------------------------------------------------------
(* Answers and fates                                                        *)

LEMMA AnswerStep ==
    BridgeTypeOK /\ OneRequest /\ FateFollows /\ [BridgeNext]_bridgeVars => OneRequest' /\ FateFollows'
<1> SUFFICES ASSUME QueueTypes, OtherTypes, OneRequest, FateFollows, [BridgeNext]_bridgeVars
             PROVE  OneRequest' /\ FateFollows'
  BY TypeParts
<1> USE Bounds DEF OneRequest, FateFollows, ToldFate, QueueTypes, OtherTypes,
        serverVars, breakerVars, addinVars
<1>1. ASSUME NEW u \in Updates, Refuse(u) \/ Take(u)
      PROVE  OneRequest' /\ FateFollows'
  BY <1>1 DEF Refuse, Take, Reply
<1>2. ASSUME NEW u \in Updates, ServerStep(u)
      PROVE  OneRequest' /\ FateFollows'
  BY <1>2 DEF ServerStep, PassGate, FailFast, Connect, ConnectInVain, HearNothing, Reply
<1>3. ASSUME NEW u \in Updates, u \in current, AddinStep(u)
      PROVE  OneRequest' /\ FateFollows'
  <2>1. CASE Enqueue(u)
    <3>1. \A i \in DOMAIN actionQueue' :
             actionQueue'[i] = u \/ \E j \in DOMAIN actionQueue : actionQueue'[i] = actionQueue[j]
      BY <2>1 DEF Enqueue
    <3>2. \A i \in DOMAIN actionQueue : actionQueue[i] \in Updates
      OBVIOUS
    <3>3. /\ \A v \in Updates : fate'[v] = IF v = u THEN "waiting" ELSE fate[v]
          /\ UNCHANGED <<answer, server, current>>
          /\ addin = "enqueue" /\ addin' = "raise"
      BY <2>1 DEF Enqueue
    <3> QED
      BY <1>3, <3>1, <3>2, <3>3
  <2>2. CASE Raise(u)
    <3>1. UNCHANGED <<answer, server, current, actionQueue, fate>> /\ addin = "raise" /\ addin' = "respond"
      BY <2>2, Zenon DEF Raise, serverVars
    <3> QED
      BY <3>1
  <2>3. CASE Respond(u)
    <3>1. /\ UNCHANGED <<actionQueue, fate>>
          /\ answer' = [answer EXCEPT ![u] = "forwarded"]
          /\ current' = {} /\ server' = "idle"
          /\ addin = "respond" /\ addin' = "closing"
      BY <2>3, Zenon DEF Respond, Reply
    <3>2. fate[u] # "none"
      BY <1>3, <3>1
    <3>3. \A v \in Updates : v # u => v \notin current
      BY <1>3
    <3> QED
      BY <3>1, <3>2, <3>3
  <2>4. CASE RespondInVain(u)
    <3>1. UNCHANGED <<answer, server, current, actionQueue, fate>> /\ addin' = "closing"
      BY <2>4, Zenon DEF RespondInVain, serverVars
    <3> QED
      BY <3>1
  <2> QED
    BY <1>3, <2>1, <2>2, <2>3, <2>4 DEF AddinStep
<1>4. CASE CoolDown \/ Relisten \/ Startup
  BY <1>4 DEF CoolDown, Relisten, Startup
<1>5. CASE Execute
  <2>1. \A i \in DOMAIN actionQueue : actionQueue[i] \in Updates
    OBVIOUS
  <2>2. \A i \in DOMAIN actionQueue' : \E j \in DOMAIN actionQueue : actionQueue'[i] = actionQueue[j]
    BY <1>5, ExecuteEffect
  <2>3. \A u \in Updates : fate'[u] = "none" <=> fate[u] = "none"
    <3>1. CASE UNCHANGED fate
      BY <3>1
    <3>2. ASSUME actionQueue # <<>>, NEW end \in {"committed", "rolled_back"},
                 fate' = [fate EXCEPT ![Head(actionQueue)] = end]
          PROVE  \A u \in Updates : fate'[u] = "none" <=> fate[u] = "none"
      <4>1. Head(actionQueue) \in Updates /\ fate[Head(actionQueue)] # "none"
        BY <3>2
      <4> QED
        BY <3>2, <4>1
    <3> QED
      BY <1>5, <3>1, <3>2, ExecuteEffect
  <2> QED
    BY <1>5, <2>1, <2>2, <2>3, ExecuteEffect
<1>6. CASE Shutdown
  BY <1>6, ShutdownEffect
<1>7. CASE UNCHANGED bridgeVars
  BY <1>7 DEF bridgeVars
<1>8. ASSUME NEW b \in Batches, QueueBatch(b)
      PROVE  OneRequest' /\ FateFollows'
  <2>1. /\ UNCHANGED <<server, current, addin, actionQueue, fate>> /\ server = "idle"
        /\ answer' \in [Updates -> Answers]
        /\ \A u \in Updates : answer'[u] = answer[u]
              \/ (answer[u] = "none" /\ answer'[u] \in {"queued", "refused"})
    BY <1>8, BatchAnswers
  <2> QED
    BY <2>1
<1> QED
  BY <1>1, <1>2, <1>3, <1>4, <1>5, <1>6, <1>7, <1>8
     DEF BridgeNext, RequestUpdate, Serve, Attend, AddinStep

-----------------------------------------------------------------------------
(* The order of the queues                                                  *)

\* What waits in Revit went through the server's queue, in the same order.
LocalOrder ==
    /\ Len(localQueue) <= LocalCapacity
    /\ \A i, j \in DOMAIN localQueue : localQueue[i] = localQueue[j] => i = j
    /\ \A i \in DOMAIN localQueue : answer[localQueue[i]] # "none" \/ localQueue[i] \in current
    /\ \A u \in current : localQueue # <<>> /\ localQueue[Len(localQueue)] = u

AllFromLocal ==
    \A u \in Updates : fate[u] # "none" => \E i \in DOMAIN localQueue : localQueue[i] = u

ActionsWait ==
    /\ \A u \in Updates : fate[u] = "waiting" <=> \E a \in DOMAIN actionQueue : actionQueue[a] = u
    /\ \A a, b \in DOMAIN actionQueue : actionQueue[a] = actionQueue[b] => a = b

SameOrder ==
    \A a, b \in DOMAIN actionQueue : \A i, j \in DOMAIN localQueue :
        a < b /\ localQueue[i] = actionQueue[a] /\ localQueue[j] = actionQueue[b] => i < j

QueueOrder == LocalOrder /\ AllFromLocal /\ ActionsWait /\ SameOrder /\ ExecutedInOrder

LEMMA OrderStep ==
    ASSUME BridgeTypeOK, OneRequest, FateFollows, QueueOrder, [BridgeNext]_bridgeVars
    PROVE  QueueOrder'
<1> USE Bounds, TypeParts DEF QueueTypes, OtherTypes, serverVars, breakerVars, addinVars
<1> USE DEF QueueOrder, LocalOrder, AllFromLocal, ActionsWait, SameOrder, ExecutedInOrder
<1>1. ASSUME NEW u \in Updates, Refuse(u)
      PROVE  QueueOrder'
  BY <1>1 DEF Refuse, Reply, OneRequest
<1>2. ASSUME NEW u \in Updates, Take(u)
      PROVE  QueueOrder'
  <2>1. /\ UNCHANGED <<actionQueue, fate>>
        /\ localQueue' = Append(localQueue, u) /\ Len(localQueue) # LocalCapacity
        /\ answer[u] = "none" /\ server = "idle"
        /\ current' = {u} /\ answer' = answer
    BY <1>2, Zenon DEF Take, Rejects, addinVars
  <2>2. current = {} /\ fate[u] = "none"
    BY <2>1 DEF OneRequest, FateFollows
  <2>3. /\ Len(localQueue') = Len(localQueue) + 1
        /\ \A i \in DOMAIN localQueue : localQueue'[i] = localQueue[i] /\ localQueue[i] # u
        /\ \A i \in DOMAIN localQueue : i \in DOMAIN localQueue'
        /\ localQueue'[Len(localQueue')] = u
    BY <2>1, <2>2
  <2>4. \A i \in DOMAIN localQueue' : i \in DOMAIN localQueue \/ i = Len(localQueue')
    BY <2>1
  <2>5. LocalOrder'
    BY <2>1, <2>2, <2>3, <2>4
  <2>6. \A a \in DOMAIN actionQueue : actionQueue[a] # u
    BY <2>2
  <2>7. AllFromLocal' /\ ActionsWait'
    BY <2>1, <2>3
  <2>8. SameOrder'
    BY <2>1, <2>3, <2>4, <2>6
  <2>9. ExecutedInOrder'
    BY <2>1, <2>2, <2>3, <2>4
  <2> QED
    BY <2>5, <2>7, <2>8, <2>9
<1>3. ASSUME NEW u \in Updates, ServerStep(u)
      PROVE  QueueOrder'
  <2>1. /\ u \in current
        /\ UNCHANGED <<localQueue, actionQueue, fate>>
        /\ \/ UNCHANGED <<answer, current>>
           \/ current' = {} /\ answer' = [answer EXCEPT ![u] = "pipe_error"]
    BY <1>3, Zenon DEF ServerStep, PassGate, FailFast, Connect, ConnectInVain, HearNothing, Reply
  <2> QED
    BY <2>1 DEF OneRequest
<1>4. ASSUME NEW u \in Updates, u \in current, Enqueue(u)
      PROVE  QueueOrder'
  <2>1. /\ UNCHANGED <<localQueue, answer, current>>
        /\ actionQueue' = Append(actionQueue, u)
        /\ fate' = [fate EXCEPT ![u] = "waiting"]
        /\ addin = "enqueue"
    BY <1>4, Zenon DEF Enqueue, serverVars
  <2>2. fate[u] = "none" /\ localQueue[Len(localQueue)] = u /\ Len(localQueue) \in DOMAIN localQueue
    BY <1>4, <2>1 DEF FateFollows
  <2>3. /\ Len(actionQueue') = Len(actionQueue) + 1
        /\ \A a \in DOMAIN actionQueue :
              a \in DOMAIN actionQueue' /\ actionQueue'[a] = actionQueue[a] /\ actionQueue[a] # u
        /\ actionQueue'[Len(actionQueue')] = u /\ Len(actionQueue') \in DOMAIN actionQueue'
    BY <2>1, <2>2
  <2>4. \A a \in DOMAIN actionQueue' : a \in DOMAIN actionQueue \/ a = Len(actionQueue')
    BY <2>1
  <2>5. LocalOrder' /\ AllFromLocal'
    BY <2>1, <2>2
  <2>6. ActionsWait'
    BY <2>1, <2>2, <2>3, <2>4
  <2>7. SameOrder'
    BY <2>1, <2>2, <2>3, <2>4
  <2>8. ExecutedInOrder'
    BY <2>1, <2>2
  <2> QED
    BY <2>5, <2>6, <2>7, <2>8
<1>5. ASSUME NEW u \in Updates, u \in current, Raise(u) \/ RespondInVain(u)
      PROVE  QueueOrder'
  BY <1>5 DEF Raise, RespondInVain
<1>6. ASSUME NEW u \in Updates, u \in current, Respond(u)
      PROVE  QueueOrder'
  BY <1>6 DEF Respond, Reply, OneRequest
<1>7. CASE CoolDown \/ Relisten \/ Startup \/ UNCHANGED bridgeVars
  BY <1>7 DEF CoolDown, Relisten, Startup, bridgeVars
<1>8. CASE Execute
  <2>1. CASE UNCHANGED <<actionQueue, fate>>
    BY <1>8, <2>1, ExecuteEffect
  <2>2. ASSUME actionQueue # <<>>, actionQueue' = Tail(actionQueue),
               NEW end \in {"committed", "rolled_back"},
               fate' = [fate EXCEPT ![Head(actionQueue)] = end]
        PROVE  QueueOrder'
    <3>1. UNCHANGED <<localQueue, answer, current>>
      BY <1>8, ExecuteEffect
    <3> DEFINE u == actionQueue[1]
    <3>2. /\ 1 \in DOMAIN actionQueue /\ u \in Updates /\ Head(actionQueue) = u
          /\ fate[u] = "waiting"
          /\ fate' = [fate EXCEPT ![u] = end]
      BY <2>2
    <3>3. /\ \A a \in DOMAIN actionQueue' : a + 1 \in DOMAIN actionQueue /\ actionQueue'[a] = actionQueue[a + 1]
          /\ \A a \in DOMAIN actionQueue : a # 1 => a - 1 \in DOMAIN actionQueue' /\ actionQueue'[a - 1] = actionQueue[a]
      BY <2>2
    <3>4. \A v \in Updates : fate'[v] = IF v = u THEN end ELSE fate[v]
      BY <3>2
    <3> HIDE DEF u
    <3>5. LocalOrder' /\ AllFromLocal'
      BY <3>1, <3>2, <3>4
    <3>6. ActionsWait'
      <4>1. \A a, b \in DOMAIN actionQueue' : actionQueue'[a] = actionQueue'[b] => a = b
        <5> SUFFICES ASSUME NEW a \in DOMAIN actionQueue', NEW b \in DOMAIN actionQueue',
                            actionQueue'[a] = actionQueue'[b]
                     PROVE  a = b
          OBVIOUS
        <5>1. a + 1 = b + 1
          BY <3>3
        <5>2. a \in Nat /\ b \in Nat
          BY <2>2
        <5> QED
          BY <5>1, <5>2
      <4>2. ASSUME NEW v \in Updates, fate'[v] = "waiting"
            PROVE  \E a \in DOMAIN actionQueue' : actionQueue'[a] = v
        <5>1. PICK a \in DOMAIN actionQueue : actionQueue[a] = v
          BY <3>4, <4>2
        <5>2. a # 1
          BY <3>4, <4>2, <5>1 DEF u
        <5> QED
          BY <3>3, <5>1, <5>2
      <4>3. ASSUME NEW a \in DOMAIN actionQueue'
            PROVE  fate'[actionQueue'[a]] = "waiting"
        <5>1. a + 1 \in DOMAIN actionQueue /\ actionQueue'[a] = actionQueue[a + 1] /\ a + 1 # 1
          BY <2>2, <3>3
        <5>2. actionQueue[a + 1] \in Updates /\ actionQueue[a + 1] # u
          BY <3>2, <5>1 DEF u
        <5> QED
          BY <3>4, <5>1, <5>2
      <4> QED
        BY <4>1, <4>2, <4>3
    <3>7. SameOrder'
      <4> SUFFICES ASSUME NEW a \in DOMAIN actionQueue', NEW b \in DOMAIN actionQueue', a < b,
                          NEW i \in DOMAIN localQueue, NEW j \in DOMAIN localQueue,
                          localQueue[i] = actionQueue'[a], localQueue[j] = actionQueue'[b]
                   PROVE  i < j
        BY <3>1
      <4>1. a \in Nat /\ b \in Nat
        BY <2>2
      <4>2. a + 1 < b + 1
        BY <4>1
      <4> QED
        BY <3>3, <4>2
    <3>8. ExecutedInOrder'
      <4> SUFFICES ASSUME NEW i \in DOMAIN localQueue, NEW j \in DOMAIN localQueue, i < j,
                          fate'[localQueue[i]] = "waiting"
                   PROVE  fate'[localQueue[j]] \in {"none", "waiting"}
        BY <3>1
      <4>1. localQueue[i] \in Updates /\ localQueue[j] \in Updates
        OBVIOUS
      <4>2. fate[localQueue[i]] = "waiting" /\ localQueue[i] # u
        BY <3>4, <4>1
      <4>3. localQueue[j] # u
        <5>1. PICK a \in DOMAIN actionQueue : actionQueue[a] = localQueue[i]
          BY <4>1, <4>2
        <5>2. 1 < a
          BY <4>2, <5>1 DEF u
        <5> QED
          BY <3>2, <5>1, <5>2 DEF u
      <4> QED
        BY <3>4, <4>1, <4>2, <4>3
    <3> QED
      BY <3>5, <3>6, <3>7, <3>8
  <2> QED
    BY <1>8, <2>1, <2>2, ExecuteEffect
<1>9. CASE Shutdown
  BY <1>9, ShutdownEffect
<1>10. ASSUME NEW b \in Batches, QueueBatch(b)
       PROVE  QueueOrder'
  <2>1. /\ UNCHANGED <<server, current, actionQueue, fate>> /\ server = "idle"
        /\ \A i \in 1..Len(b) : answer[b[i]] = "none" /\ answer'[b[i]] # "none"
        /\ \A u \in Updates : answer[u] # "none" => answer'[u] # "none"
    BY <1>10, BatchAnswers
  <2>2. current = {} /\ \A i \in 1..Len(b) : fate[b[i]] = "none"
    BY <2>1, BatchShape DEF OneRequest, FateFollows
  <2>3. /\ Taken(b) \in 0..Len(b) /\ Len(localQueue) + Taken(b) <= LocalCapacity
        /\ localQueue' \in Seq(Updates) /\ Len(localQueue') = Len(localQueue) + Taken(b)
        /\ \A i \in DOMAIN localQueue : localQueue'[i] = localQueue[i] /\ i \in DOMAIN localQueue'
    <3>1. localQueue \in Seq(Updates) /\ Len(localQueue) <= LocalCapacity
      OBVIOUS
    <3>2. /\ Taken(b) \in 0..Len(b) /\ Len(localQueue) + Taken(b) <= LocalCapacity
          /\ localQueue' \in Seq(Updates) /\ Len(localQueue') = Len(localQueue) + Taken(b)
          /\ \A i \in 1..Len(localQueue) : localQueue'[i] = localQueue[i]
      BY <1>10, <3>1, BatchIsQueued, TakenRange
    <3> QED
      BY <3>1, <3>2
  <2>4. \A i \in DOMAIN localQueue' :
           i \in DOMAIN localQueue \/ \E k \in 1..Len(b) : i = Len(localQueue) + k /\ localQueue'[i] = b[k]
    <3> SUFFICES ASSUME NEW i \in DOMAIN localQueue', i \notin DOMAIN localQueue
                 PROVE  \E k \in 1..Len(b) : i = Len(localQueue) + k /\ localQueue'[i] = b[k]
      OBVIOUS
    <3> DEFINE k == i - Len(localQueue)
    <3>1. k \in 1..Taken(b) /\ i = Len(localQueue) + k
      BY <2>3
    <3>2. k \in 1..Len(b)
      BY <2>3, <3>1
    <3>3. localQueue'[Len(localQueue) + k] = b[k]
      BY <1>10, <3>1, BatchIsQueued
    <3> QED
      BY <3>1, <3>2, <3>3
  <2>5. \A i \in DOMAIN localQueue : \A k \in 1..Len(b) : localQueue[i] # b[k]
    BY <2>1, <2>2
  <2>6. \A k \in 1..Len(b) : b[k] \in Updates /\ \A l \in 1..Len(b) : b[k] = b[l] => k = l
    BY BatchShape
  <2>7. LocalOrder'
    <3>1. ASSUME NEW i \in DOMAIN localQueue', NEW j \in DOMAIN localQueue',
                 localQueue'[i] = localQueue'[j]
          PROVE  i = j
      <4>1. CASE i \in DOMAIN localQueue /\ j \in DOMAIN localQueue
        BY <2>3, <3>1, <4>1
      <4>2. CASE i \notin DOMAIN localQueue /\ j \notin DOMAIN localQueue
        <5>1. PICK k \in 1..Len(b) : i = Len(localQueue) + k /\ localQueue'[i] = b[k]
          BY <2>4, <4>2
        <5>2. PICK l \in 1..Len(b) : j = Len(localQueue) + l /\ localQueue'[j] = b[l]
          BY <2>4, <4>2
        <5>3. k = l
          BY <2>6, <3>1, <5>1, <5>2
        <5> QED
          BY <5>1, <5>2, <5>3
      <4>3. CASE i \in DOMAIN localQueue /\ j \notin DOMAIN localQueue
        <5>1. PICK k \in 1..Len(b) : localQueue'[j] = b[k]
          BY <2>4, <4>3
        <5> QED
          BY <2>3, <2>5, <3>1, <4>3, <5>1
      <4>4. CASE i \notin DOMAIN localQueue /\ j \in DOMAIN localQueue
        <5>1. PICK k \in 1..Len(b) : localQueue'[i] = b[k]
          BY <2>4, <4>4
        <5>2. localQueue'[j] = localQueue[j] /\ localQueue[j] # b[k]
          BY <2>3, <2>5, <4>4
        <5> QED
          BY <3>1, <5>1, <5>2
      <4> QED
        BY <4>1, <4>2, <4>3, <4>4
    <3>2. ASSUME NEW i \in DOMAIN localQueue'
          PROVE  answer'[localQueue'[i]] # "none"
      <4>1. CASE i \in DOMAIN localQueue
        BY <2>1, <2>2, <2>3, <4>1
      <4>2. CASE i \notin DOMAIN localQueue
        BY <2>1, <2>4, <4>2
      <4> QED
        BY <4>1, <4>2
    <3>3. Len(localQueue') <= LocalCapacity /\ current' = {}
      BY <2>1, <2>2, <2>3
    <3> QED
      BY <3>1, <3>2, <3>3
  <2>8. AllFromLocal' /\ ActionsWait'
    BY <2>1, <2>3
  <2>9. \A a \in DOMAIN actionQueue : \A k \in 1..Len(b) : actionQueue[a] # b[k]
    BY <2>2, <2>6
  <2>10. SameOrder'
    <3> SUFFICES ASSUME NEW a \in DOMAIN actionQueue, NEW c \in DOMAIN actionQueue, a < c,
                        NEW i \in DOMAIN localQueue', NEW j \in DOMAIN localQueue',
                        localQueue'[i] = actionQueue[a], localQueue'[j] = actionQueue[c]
                 PROVE  i < j
      BY <2>1
    <3>1. i \in DOMAIN localQueue /\ j \in DOMAIN localQueue
      BY <2>4, <2>9
    <3>2. localQueue[i] = actionQueue[a] /\ localQueue[j] = actionQueue[c]
      BY <2>3, <3>1
    <3> QED
      BY <3>1, <3>2
  <2>11. ExecutedInOrder'
    <3> SUFFICES ASSUME NEW i \in DOMAIN localQueue', NEW j \in DOMAIN localQueue', i < j,
                        fate[localQueue'[i]] = "waiting"
                 PROVE  fate[localQueue'[j]] \in {"none", "waiting"}
      BY <2>1
    <3>1. i \in DOMAIN localQueue
      BY <2>2, <2>4
    <3>2. CASE j \in DOMAIN localQueue
      BY <2>3, <3>1, <3>2
    <3>3. CASE j \notin DOMAIN localQueue
      BY <2>2, <2>4, <3>3
    <3> QED
      BY <3>2, <3>3
  <2> QED
    BY <2>7, <2>8, <2>10, <2>11
<1> QED
  BY <1>1, <1>2, <1>3, <1>4, <1>5, <1>6, <1>7, <1>8, <1>9, <1>10
     DEF BridgeNext, RequestUpdate, Serve, Attend, AddinStep

LEMMA OrderInit == BridgeInit => QueueOrder
BY BridgeAssumption DEF BridgeInit, QueueOrder, LocalOrder, AllFromLocal, ActionsWait, SameOrder, ExecutedInOrder

LEMMA BridgeInvariance == BridgeSpec => [](BridgeTypeOK /\ OneRequest /\ FateFollows /\ QueueOrder)
<1>1. BridgeInit => OneRequest /\ FateFollows
  BY DEF BridgeInit, OneRequest, FateFollows, ToldFate
<1> QED
  BY <1>1, TypeInit, OrderInit, TypeStep, AnswerStep, OrderStep, PTL DEF BridgeSpec

\* The part of AnswersAreTrue that is about the server's queue.
ToldQueue ==
    \A u \in Updates :
        /\ answer[u] \in {"queued", "forwarded", "pipe_error"} => Queued(u)
        /\ answer[u] = "refused" /\ EndsRequest(u) => ~Queued(u)

\* Apart from the requests, a step leaves the queue as it is and answers at most the
\* update that the server is at.
LEMMA OnlyTheCurrentIsAnswered ==
    ASSUME [BridgeNext]_bridgeVars, ~RequestUpdate
    PROVE  /\ localQueue' = localQueue
           /\ \/ answer' = answer
              \/ \E u \in current, text \in {"forwarded", "pipe_error"} :
                    answer' = [answer EXCEPT ![u] = text]
<1> USE DEF serverVars, breakerVars, addinVars
<1>1. ASSUME NEW u \in current, FailFast(u) \/ ConnectInVain(u) \/ HearNothing(u) \/ Respond(u)
      PROVE  /\ localQueue' = localQueue
             /\ \/ answer' = [answer EXCEPT ![u] = "forwarded"]
                \/ answer' = [answer EXCEPT ![u] = "pipe_error"]
  BY <1>1, Zenon DEF FailFast, ConnectInVain, HearNothing, Respond, Reply
<1>2. ASSUME NEW u \in current,
             PassGate(u) \/ Connect(u) \/ Enqueue(u) \/ Raise(u) \/ RespondInVain(u)
      PROVE  UNCHANGED <<localQueue, answer>>
  BY <1>2, Zenon DEF PassGate, Connect, Enqueue, Raise, RespondInVain
<1>3. CASE CoolDown \/ Relisten \/ Startup \/ Execute \/ Shutdown \/ UNCHANGED bridgeVars
  BY <1>3, Zenon DEF CoolDown, Relisten, Startup, Execute, Shutdown, bridgeVars
<1>4. \/ \E u \in current : FailFast(u) \/ ConnectInVain(u) \/ HearNothing(u) \/ Respond(u)
      \/ \E u \in current :
            PassGate(u) \/ Connect(u) \/ Enqueue(u) \/ Raise(u) \/ RespondInVain(u)
      \/ CoolDown \/ Relisten \/ Startup \/ Execute \/ Shutdown \/ UNCHANGED bridgeVars
  BY DEF BridgeNext, Serve, Attend, ServerStep, AddinStep
<1> QED
  BY <1>1, <1>2, <1>3, <1>4

\* In the queue there are then also the updates of the batch that were taken.
LEMMA BatchEnters ==
    ASSUME NEW b \in Batches, localQueue \in Seq(Updates), Len(localQueue) <= LocalCapacity,
           QueueBatch(b), NEW u \in Updates
    PROVE  Queued(u)' <=> Queued(u) \/ \E k \in 1..Taken(b) : b[k] = u
<1> DEFINE n == Len(localQueue)
           t == Taken(b)
<1>1. n \in Nat /\ t \in Nat /\ DOMAIN localQueue = 1..n
  BY TakenRange
<1>2. /\ localQueue' \in Seq(Updates) /\ Len(localQueue') = n + t
      /\ \A i \in 1..n : localQueue'[i] = localQueue[i]
      /\ \A k \in 1..t : localQueue'[n + k] = b[k]
  BY BatchIsQueued
<1> HIDE DEF n, t
<1>3. DOMAIN localQueue' = 1..(n + t)
  BY <1>2
<1>4. ASSUME Queued(u) PROVE Queued(u)'
  <2>1. PICK i \in 1..n : localQueue[i] = u
    BY <1>1, <1>4 DEF Queued
  <2>2. i \in 1..(n + t) /\ localQueue'[i] = u
    BY <1>1, <1>2, <2>1
  <2> QED
    BY <1>3, <2>2 DEF Queued
<1>5. ASSUME NEW k \in 1..t, b[k] = u PROVE Queued(u)'
  <2>1. n + k \in 1..(n + t) /\ localQueue'[n + k] = u
    BY <1>1, <1>2, <1>5
  <2> QED
    BY <1>3, <2>1 DEF Queued
<1>6. ASSUME Queued(u)' PROVE Queued(u) \/ \E k \in 1..t : b[k] = u
  <2>1. PICK i \in 1..(n + t) : localQueue'[i] = u
    BY <1>3, <1>6 DEF Queued
  <2>2. CASE i <= n
    <3>1. i \in 1..n /\ localQueue[i] = u
      BY <1>1, <1>2, <2>1, <2>2
    <3> QED
      BY <1>1, <3>1 DEF Queued
  <2>3. CASE i > n
    <3>1. i - n \in 1..t /\ n + (i - n) = i
      BY <1>1, <2>1, <2>3
    <3> QED
      BY <1>2, <2>1, <3>1
  <2> QED
    BY <1>1, <2>1, <2>2, <2>3
<1> QED
  BY <1>4, <1>5, <1>6 DEF t

LEMMA ToldStep ==
    ASSUME BridgeTypeOK, OneRequest, QueueOrder, ToldQueue, [BridgeNext]_bridgeVars
    PROVE  ToldQueue'
<1> USE DEF ToldQueue, Queued
<1>1. localQueue \in Seq(Updates) /\ Len(localQueue) <= LocalCapacity
  BY DEF BridgeTypeOK, QueueOrder, LocalOrder
<1>2. answer \in [Updates -> Answers]
  BY DEF BridgeTypeOK
<1>3. ASSUME server = "idle", NEW u \in Updates, answer[u] = "none"
      PROVE  ~Queued(u)
  BY <1>3 DEF OneRequest, QueueOrder, LocalOrder
<1>4. ASSUME NEW u \in Updates, EndsRequest(u)'
      PROVE  EndsRequest(u)
  BY <1>4 DEF EndsRequest
<1>5. ASSUME NEW u \in Updates, Refuse(u)
      PROVE  ToldQueue'
  <2>1. /\ server = "idle" /\ answer[u] = "none" /\ localQueue' = localQueue
        /\ answer' = [answer EXCEPT ![u] = "refused"]
    BY <1>5, Zenon DEF Refuse, Reply
  <2> QED
    BY <1>2, <1>3, <1>4, <2>1
<1>6. ASSUME NEW u \in Updates, Take(u)
      PROVE  ToldQueue'
  <2>1. answer[u] = "none" /\ answer' = answer /\ localQueue' = Append(localQueue, u)
    BY <1>6, Zenon DEF Take
  <2>2. /\ \A i \in DOMAIN localQueue : i \in DOMAIN localQueue' /\ localQueue'[i] = localQueue[i]
        /\ \A i \in DOMAIN localQueue' : i \in DOMAIN localQueue \/ localQueue'[i] = u
    BY <1>1, <2>1
  <2> QED
    BY <1>2, <1>4, <2>1, <2>2
<1>7. ASSUME NEW b \in Batches, QueueBatch(b)
      PROVE  ToldQueue'
  <2>1. Taken(b) \in 0..Len(b) /\ Len(b) \in Nat
    BY <1>1, TakenRange, BatchShape
  <2>2. \A u \in Updates : Queued(u)' <=> Queued(u) \/ \E k \in 1..Taken(b) : b[k] = u
    BY <1>1, <1>7, BatchEnters
  <2> HIDE DEF Queued
  <2>3. ASSUME NEW u \in Updates, ~\E i \in 1..Len(b) : b[i] = u
        PROVE  answer'[u] = answer[u] /\ (Queued(u)' <=> Queued(u))
    <3>1. answer'[u] = answer[u]
      BY <1>7, <2>3, BatchIsAnswered
    <3>2. ~\E k \in 1..Taken(b) : b[k] = u
      BY <2>1, <2>3
    <3> QED
      BY <2>2, <3>1, <3>2
  <2>4. ASSUME NEW k \in 1..Len(b), Taken(b) = Len(b)
        PROVE  answer'[b[k]] = "queued" /\ Queued(b[k])'
    <3>1. answer'[b[k]] = "queued" /\ b[k] \in Updates
      BY <1>7, <2>4, BatchIsAnswered, BatchShape
    <3> QED
      BY <2>2, <2>4, <3>1
  <2>5. ASSUME NEW k \in 1..Len(b), Taken(b) # Len(b)
        PROVE  answer'[b[k]] = "refused" /\ (EndsRequest(b[k]) => ~Queued(b[k])')
    <3>1. answer'[b[k]] = "refused" /\ b[k] \in Updates
      BY <1>7, <2>5, BatchIsAnswered, BatchShape
    <3>2. ~Queued(b[k])
      BY <1>3, <1>7, <3>1, BatchIsAnswered
    <3>3. EndsRequest(b[k]) => k = Len(b)
      BY BatchShape DEF EndsRequest
    <3>4. k = Len(b) => \A l \in 1..Taken(b) : b[l] # b[k]
      BY <2>1, <2>5, BatchShape
    <3> QED
      BY <2>2, <3>1, <3>2, <3>3, <3>4
  <2> QED
    BY <1>4, <2>3, <2>4, <2>5
<1>8. CASE ~RequestUpdate
  <2>1. \A u \in current : u \in Updates /\ Queued(u)
    <3> SUFFICES ASSUME NEW u \in current PROVE u \in Updates /\ Queued(u)
      OBVIOUS
    <3>1. localQueue # <<>> /\ localQueue[Len(localQueue)] = u /\ u \in Updates
      BY DEF QueueOrder, LocalOrder, BridgeTypeOK
    <3>2. Len(localQueue) \in DOMAIN localQueue
      BY <1>1, <3>1
    <3> QED
      BY <3>1, <3>2
  <2> QED
    BY <1>2, <1>4, <1>8, <2>1, OnlyTheCurrentIsAnswered
<1> QED
  BY <1>5, <1>6, <1>7, <1>8 DEF RequestUpdate

\* AnswersAreTrue: what a client is told of an update is so in Revit and in the
\* server's queue, whatever becomes of the pipe and of Revit, and also of a placement
\* for some of whose devices there was no room.
THEOREM AnswersCorrect == BridgeSpec => []AnswersAreTrue
<1>1. BridgeInit => ToldQueue
  BY DEF BridgeInit, ToldQueue
<1>2. ToldFate /\ ToldQueue => AnswersAreTrue
  BY DEF ToldFate, ToldQueue, AnswersAreTrue
<1>3. BridgeTypeOK /\ OneRequest /\ QueueOrder /\ ToldQueue /\ [BridgeNext]_bridgeVars => ToldQueue'
  BY ToldStep
<1>4. FateFollows => ToldFate
  BY DEF FateFollows
<1> QED
  BY <1>1, <1>2, <1>3, <1>4, BridgeInvariance, PTL DEF BridgeSpec

\* ExecutedInOrder: Revit executes what the server accepted in the order in
\* which the server accepted it.
THEOREM FirstComeFirstExecuted == BridgeSpec => []ExecutedInOrder
<1>1. QueueOrder => ExecutedInOrder
  BY DEF QueueOrder
<1> QED
  BY <1>1, BridgeInvariance, PTL

\* CapacityBoundsForwarding: the server's queue is a lifetime bound.
THEOREM CapacityIsForLife == BridgeSpec => []CapacityBoundsForwarding
<1>1. ASSUME BridgeTypeOK, QueueOrder
      PROVE  CapacityBoundsForwarding
  <2> DEFINE n == Len(localQueue)
             T == {u \in Updates : fate[u] # "none"}
             R == {localQueue[i] : i \in 1..n}
  <2>1. localQueue \in Seq(Updates) /\ n \in Nat /\ n <= LocalCapacity
    BY <1>1 DEF BridgeTypeOK, QueueOrder, LocalOrder
  <2>2. IsFiniteSet(1..n) /\ Cardinality(1..n) = n
    BY <2>1, FS_Interval
  <2>3. IsFiniteSet(R) /\ Cardinality(R) <= n
    <3>1. localQueue \in Surjection(1..n, R)
      BY <2>1 DEF Surjection
    <3> QED
      BY <2>2, <3>1, FS_Surjection DEF ExistsSurjection
  <2>4. T \subseteq R
    BY <1>1, <2>1 DEF QueueOrder, AllFromLocal
  <2>5. Cardinality(T) <= Cardinality(R) /\ Cardinality(T) \in Nat /\ Cardinality(R) \in Nat
    BY <2>3, <2>4, FS_Subset, FS_CardinalityType
  <2> QED
    BY <2>1, <2>3, <2>5, BridgeAssumption DEF CapacityBoundsForwarding
<1> QED
  BY <1>1, BridgeInvariance, PTL
-----------------------------------------------------------------------------
(* The bridge is a line of updates.                                         *)

LEMMA LineStart == BridgeInit => Lives!FatesInit
BY DEF BridgeInit, Lives!FatesInit

\* A request for an update finds it outside the line.
LEMMA RequestIsNew ==
    ASSUME OneRequest, LocalOrder, BridgeTypeOK, NEW u \in Updates,
           server = "idle", answer[u] = "none"
    PROVE  ~Lives!Accepted(u)
BY DEF OneRequest, LocalOrder, BridgeTypeOK, Lives!Accepted

\* The update the server is at is the newest of the line.
LEMMA CurrentIsNewest ==
    ASSUME OneRequest, LocalOrder, BridgeTypeOK, NEW u \in current
    PROVE  /\ u \in Updates /\ answer[u] = "none"
           /\ localQueue # <<>> /\ localQueue[Len(localQueue)] = u
           /\ Lives!Accepted(u)
<1>1. u \in Updates /\ answer[u] = "none" /\ localQueue # <<>> /\ localQueue[Len(localQueue)] = u
  BY DEF OneRequest, LocalOrder, BridgeTypeOK
<1>2. localQueue \in Seq(Updates)
  BY DEF BridgeTypeOK
<1>3. Len(localQueue) \in DOMAIN localQueue
  BY <1>1, <1>2
<1> QED
  BY <1>1, <1>3 DEF Lives!Accepted

\* What Revit takes is the first of those that wait in the line.
LEMMA HeadIsOldest ==
    ASSUME BridgeTypeOK, QueueOrder, actionQueue # <<>>
    PROVE  \E i \in DOMAIN localQueue :
              /\ localQueue[i] = Head(actionQueue)
              /\ fate[localQueue[i]] = "waiting"
              /\ \A h \in DOMAIN localQueue : h < i => fate[localQueue[h]] # "waiting"
<1>1. localQueue \in Seq(Updates) /\ actionQueue \in Seq(Updates)
  BY DEF BridgeTypeOK
<1>2. 1 \in DOMAIN actionQueue /\ Head(actionQueue) = actionQueue[1] /\ actionQueue[1] \in Updates
  BY <1>1
<1>3. fate[actionQueue[1]] = "waiting"
  BY <1>2 DEF QueueOrder, ActionsWait
<1>4. PICK i \in DOMAIN localQueue : localQueue[i] = actionQueue[1]
  BY <1>2, <1>3 DEF QueueOrder, AllFromLocal
<1>5. ASSUME NEW h \in DOMAIN localQueue, h < i, fate[localQueue[h]] = "waiting"
      PROVE  FALSE
  <2>1. localQueue[h] \in Updates /\ h \in Nat /\ i \in Nat
    BY <1>1
  <2>2. PICK a \in DOMAIN actionQueue : actionQueue[a] = localQueue[h]
    BY <1>5, <2>1 DEF QueueOrder, ActionsWait
  <2>3. a # 1
    BY <1>4, <1>5, <2>1, <2>2 DEF QueueOrder, LocalOrder
  <2>4. 1 < a
    BY <1>1, <2>3
  <2>5. i < h
    BY <1>2, <1>4, <2>2, <2>4 DEF QueueOrder, SameOrder
  <2> QED
    BY <1>5, <2>1, <2>5
<1> QED
  BY <1>2, <1>3, <1>4, <1>5

LEMMA LineFollows ==
    ASSUME BridgeTypeOK, OneRequest, FateFollows, QueueOrder, [BridgeNext]_bridgeVars
    PROVE  Lives!FatesNext \/ UNCHANGED Lives!fateVars
<1> USE DEF Lives!fateVars
<1>1. ASSUME NEW u \in Updates, Refuse(u)
      PROVE  Lives!FatesNext
  <2>1. Lives!Refuse(u)
    BY <1>1, RequestIsNew DEF Refuse, Rejects, Reply, addinVars, Lives!Refuse, Lives!Tell, QueueOrder
  <2> QED
    BY <2>1 DEF Lives!FatesNext
<1>2. ASSUME NEW u \in Updates, Take(u)
      PROVE  Lives!FatesNext
  <2>1. /\ server = "idle" /\ answer[u] = "none" /\ u \in BimParameters \ Malformed
        /\ Len(localQueue) # LocalCapacity
        /\ localQueue' = Append(localQueue, u) /\ UNCHANGED <<answer, fate>>
    BY <1>2, Zenon DEF Take, Rejects, addinVars
  <2>2. Len(localQueue) < LocalCapacity
    BY <2>1, BridgeAssumption DEF QueueOrder, LocalOrder, BridgeTypeOK
  <2>3. Lives!Accept(u)
    BY <2>1, <2>2, RequestIsNew DEF Lives!Accept, QueueOrder
  <2> QED
    BY <2>3 DEF Lives!FatesNext
<1>3. ASSUME NEW u \in Updates, ServerStep(u)
      PROVE  Lives!FatesNext \/ UNCHANGED Lives!fateVars
  <2>1. CASE PassGate(u) \/ Connect(u)
    BY <2>1 DEF PassGate, Connect, addinVars
  <2>2. CASE FailFast(u) \/ ConnectInVain(u) \/ HearNothing(u)
    <3>1. u \in current
      BY <1>3 DEF ServerStep
    <3>2. Lives!Report(u)
      BY <2>2, <3>1, CurrentIsNewest DEF FailFast, ConnectInVain, HearNothing, Reply, addinVars,
         Lives!Report, Lives!Tell, QueueOrder
    <3> QED
      BY <3>2 DEF Lives!FatesNext
  <2> QED
    BY <1>3, <2>1, <2>2 DEF ServerStep
<1>4. ASSUME NEW u \in Updates, AddinStep(u)
      PROVE  Lives!FatesNext \/ UNCHANGED Lives!fateVars
  <2>1. u \in current
    BY <1>4 DEF AddinStep
  <2>2. CASE Enqueue(u)
    <3>1. fate[u] = "none"
      BY <2>1, <2>2 DEF Enqueue, FateFollows
    <3>2. Lives!Reach(u)
      BY <2>1, <2>2, <3>1, CurrentIsNewest DEF Enqueue, serverVars, Lives!Reach, QueueOrder, OneRequest
    <3> QED
      BY <3>2 DEF Lives!FatesNext
  <2>3. CASE Raise(u) \/ RespondInVain(u)
    BY <2>3 DEF Raise, RespondInVain, serverVars
  <2>4. CASE Respond(u)
    <3>1. fate[u] # "none"
      BY <2>1, <2>4 DEF Respond, FateFollows
    <3>2. Lives!Report(u)
      BY <2>1, <2>4, <3>1, CurrentIsNewest DEF Respond, Reply, Lives!Report, Lives!Tell, QueueOrder
    <3> QED
      BY <3>2 DEF Lives!FatesNext
  <2> QED
    BY <1>4, <2>2, <2>3, <2>4 DEF AddinStep
<1>5. CASE CoolDown \/ Relisten \/ Startup \/ UNCHANGED bridgeVars
  BY <1>5 DEF CoolDown, Relisten, Startup, bridgeVars, serverVars, addinVars
<1>6. CASE Execute
  <2>1. CASE UNCHANGED fate
    BY <1>6, <2>1, ExecuteEffect
  <2>2. ASSUME actionQueue # <<>>, NEW end \in {"committed", "rolled_back"},
               fate' = [fate EXCEPT ![Head(actionQueue)] = end]
        PROVE  Lives!FatesNext
    <3>1. PICK i \in DOMAIN localQueue :
             /\ localQueue[i] = Head(actionQueue)
             /\ fate[localQueue[i]] = "waiting"
             /\ \A h \in DOMAIN localQueue : h < i => fate[localQueue[h]] # "waiting"
      BY <2>2, HeadIsOldest
    <3>2. Lives!Execute(i)
      BY <1>6, <2>2, <3>1, ExecuteEffect DEF Lives!Execute
    <3> QED
      BY <3>1, <3>2 DEF Lives!FatesNext
  <2> QED
    BY <1>6, <2>1, <2>2, ExecuteEffect
<1>7. CASE Shutdown
  BY <1>7 DEF Shutdown, serverVars, Lives!FatesNext, Lives!Lose
<1>8. ASSUME NEW b \in Batches, QueueBatch(b)
      PROVE  Lives!FatesNext
  <2>1. localQueue \in Seq(Updates) /\ Len(localQueue) <= LocalCapacity
    BY DEF BridgeTypeOK, QueueOrder, LocalOrder
  <2>2. DOMAIN b = 1..Len(b) /\ \A i \in 1..Len(b) : b[i] \in Updates
    BY BatchShape
  <2>3. \A i \in DOMAIN b : answer[b[i]] = "none" /\ ~Lives!Accepted(b[i])
    BY <1>8, <2>2, BatchIsAnswered, RequestIsNew DEF QueueOrder
  <2>4. /\ Taken(b) \in 0..Len(b)
        /\ \A i \in 1..Taken(b) : b[i] \notin Malformed
        /\ Taken(b) # Len(b) => \/ Len(localQueue) + Taken(b) = LocalCapacity
                                \/ b[Taken(b) + 1] \in Malformed
        /\ Len(localQueue) + Taken(b) <= LocalCapacity
    BY <2>1, TakenRange
  <2>5. Len(localQueue') = Len(localQueue) + Taken(b)
    BY <1>8, <2>1, BatchIsQueued
  <2>6. /\ localQueue' = localQueue \o SubSeq(b, 1, Taken(b))
        /\ Lives!TellAll(b, IF Taken(b) = Len(b) THEN "queued" ELSE "refused")
        /\ UNCHANGED fate
    BY <1>8 DEF QueueBatch, Tell, Lives!TellAll, addinVars
  <2>7. Lives!AcceptBatch(b)
    BY <2>3, <2>4, <2>5, <2>6 DEF Lives!AcceptBatch
  <2> QED
    BY <2>7 DEF Lives!FatesNext
<1> QED
  BY <1>1, <1>2, <1>3, <1>4, <1>5, <1>6, <1>7, <1>8 DEF BridgeNext, RequestUpdate, Serve, Attend

\* Refinement: the server, its breaker, the pipe, the add-in and Revit together
\* keep one line of updates (_handle_update_bim_parameter, _handle_place_detector,
\* send_command, ListenLoop, Execute, OnShutdown).
THEOREM BridgeImplementsFates == BridgeSpec => UpdateFatesSpec
<1>1. BridgeTypeOK /\ OneRequest /\ FateFollows /\ QueueOrder /\ [BridgeNext]_bridgeVars
        => [Lives!FatesNext]_(Lives!fateVars)
  BY LineFollows
<1> QED
  BY <1>1, LineStart, BridgeInvariance, PTL DEF BridgeSpec, UpdateFatesSpec, Lives!UpdateFatesSpec
-----------------------------------------------------------------------------
(* The server gets through with an update.                                  *)

\* Where update u is: on the side of the server, ...
AtGate(u)    == u \in current /\ server = "gate"
AtPipe(u)    == u \in current /\ server = "connect"
AtBroken(u)  == u \in current /\ server = "await" /\ addin \in {"down", "closing"}
\* ... or on that of the add-in.
AtAddin(u, where) == u \in current /\ server = "await" /\ addin = where

HasAnswer(u) == answer[u] # "none"

\* A server that waits, waits for a command or at a pipe that is broken.
WaitsForSomebody == server = "await" => addin \in {"enqueue", "raise", "respond", "down", "closing"}

LEMMA WaitStep == WaitsForSomebody /\ [BridgeNext]_bridgeVars => WaitsForSomebody'
<1> SUFFICES ASSUME WaitsForSomebody, [BridgeNext]_bridgeVars PROVE WaitsForSomebody'
  OBVIOUS
<1> USE DEF WaitsForSomebody, serverVars, breakerVars, addinVars
<1>1. CASE RequestUpdate
  BY <1>1 DEF RequestUpdate, QueueBatch, Refuse, Take, Reply
<1>2. CASE Serve
  BY <1>2 DEF Serve, ServerStep, PassGate, FailFast, Connect, ConnectInVain, HearNothing, Reply
<1>3. CASE Attend
  BY <1>3 DEF Attend, AddinStep, Enqueue, Raise, Respond, RespondInVain, Reply
<1>4. CASE CoolDown \/ Relisten \/ Startup \/ UNCHANGED bridgeVars
  BY <1>4 DEF CoolDown, Relisten, Startup, bridgeVars
<1>5. CASE Execute \/ Shutdown
  BY <1>5, ExecuteEffect, ShutdownEffect
<1> QED
  BY <1>1, <1>2, <1>3, <1>4, <1>5 DEF BridgeNext

\* Steps that are neither the server's nor the add-in's leave the server where it
\* is; of them only the end of Revit interferes with a command.
LEMMA OthersKeepAway ==
    ASSUME NEW u \in current, server # "idle", [BridgeNext]_bridgeVars, ~Serve, ~Attend
    PROVE  /\ UNCHANGED <<server, current>>
           /\ server = "await" => UNCHANGED addin \/ addin' = "down"
<1> USE DEF serverVars, breakerVars, addinVars
<1>1. CASE RequestUpdate
  BY <1>1 DEF RequestUpdate, QueueBatch, Refuse, Take
<1>2. CASE CoolDown \/ Relisten \/ Startup \/ UNCHANGED bridgeVars
  BY <1>2 DEF CoolDown, Relisten, Startup, bridgeVars
<1>3. CASE Execute \/ Shutdown
  BY <1>3, ExecuteEffect, ShutdownEffect
<1> QED
  BY <1>1, <1>2, <1>3 DEF BridgeNext

\* What a step of the server does to the update it is at.
LEMMA ServeEffect ==
    ASSUME BridgeTypeOK, OneRequest, NEW u \in current, Serve
    PROVE  \/ AtGate(u) /\ AtPipe(u)'
           \/ AtPipe(u) /\ AtAddin(u, "enqueue")'
           \/ (AtGate(u) \/ AtPipe(u) \/ AtBroken(u)) /\ HasAnswer(u)'
<1> USE DEF OneRequest, AtGate, AtPipe, AtBroken, AtAddin, HasAnswer
<1>1. u \in Updates /\ answer \in [Updates -> Answers]
  BY DEF BridgeTypeOK
<1>2. ServerStep(u)
  BY DEF Serve, ServerStep
<1>3. CASE PassGate(u)
  BY <1>3 DEF PassGate
<1>4. CASE Connect(u)
  BY <1>4 DEF Connect
<1>5. CASE FailFast(u) \/ ConnectInVain(u) \/ HearNothing(u)
  BY <1>1, <1>5 DEF FailFast, ConnectInVain, HearNothing, Reply
<1> QED
  BY <1>2, <1>3, <1>4, <1>5 DEF ServerStep

\* What a step of the add-in does to it.
LEMMA AttendEffect ==
    ASSUME BridgeTypeOK, OneRequest, NEW u \in current, Attend
    PROVE  \/ AtAddin(u, "enqueue") /\ AtAddin(u, "raise")'
           \/ AtAddin(u, "raise") /\ AtAddin(u, "respond")'
           \/ AtAddin(u, "respond") /\ (AtBroken(u)' \/ HasAnswer(u)')
<1> USE DEF OneRequest, AtBroken, AtAddin, HasAnswer
<1>1. u \in Updates /\ answer \in [Updates -> Answers]
  BY DEF BridgeTypeOK
<1>2. AddinStep(u)
  BY DEF Attend, AddinStep
<1>3. CASE Enqueue(u) \/ Raise(u) \/ RespondInVain(u)
  BY <1>3 DEF Enqueue, Raise, RespondInVain, serverVars
<1>4. CASE Respond(u)
  BY <1>1, <1>4 DEF Respond, Reply
<1> QED
  BY <1>2, <1>3, <1>4 DEF AddinStep

\* On its way an update stays where it is or goes on.
LEMMA UpdateGoesOn ==
    ASSUME BridgeTypeOK, OneRequest, NEW u \in Updates, [BridgeNext]_bridgeVars
    PROVE  /\ AtGate(u) => AtGate(u)' \/ AtPipe(u)' \/ HasAnswer(u)'
           /\ AtPipe(u) => AtPipe(u)' \/ AtAddin(u, "enqueue")' \/ HasAnswer(u)'
           /\ AtAddin(u, "enqueue") =>
                 AtAddin(u, "enqueue")' \/ AtAddin(u, "raise")' \/ AtBroken(u)'
           /\ AtAddin(u, "raise") =>
                 AtAddin(u, "raise")' \/ AtAddin(u, "respond")' \/ AtBroken(u)'
           /\ AtAddin(u, "respond") =>
                 AtAddin(u, "respond")' \/ AtBroken(u)' \/ HasAnswer(u)'
           /\ AtBroken(u) => AtBroken(u)' \/ HasAnswer(u)'
<1> SUFFICES ASSUME u \in current, server # "idle"
             PROVE  /\ AtGate(u) => AtGate(u)' \/ AtPipe(u)' \/ HasAnswer(u)'
                    /\ AtPipe(u) => AtPipe(u)' \/ AtAddin(u, "enqueue")' \/ HasAnswer(u)'
                    /\ AtAddin(u, "enqueue") =>
                          AtAddin(u, "enqueue")' \/ AtAddin(u, "raise")' \/ AtBroken(u)'
                    /\ AtAddin(u, "raise") =>
                          AtAddin(u, "raise")' \/ AtAddin(u, "respond")' \/ AtBroken(u)'
                    /\ AtAddin(u, "respond") =>
                          AtAddin(u, "respond")' \/ AtBroken(u)' \/ HasAnswer(u)'
                    /\ AtBroken(u) => AtBroken(u)' \/ HasAnswer(u)'
  BY DEF AtGate, AtPipe, AtAddin, AtBroken
<1>1. CASE Serve
  BY <1>1, ServeEffect DEF AtGate, AtPipe, AtAddin, AtBroken
<1>2. CASE Attend
  BY <1>2, AttendEffect DEF AtGate, AtPipe, AtAddin, AtBroken
<1>3. CASE ~Serve /\ ~Attend
  BY <1>3, OthersKeepAway DEF AtGate, AtPipe, AtAddin, AtBroken
<1> QED
  BY <1>1, <1>2, <1>3

\* One update: through the gate and the pipe, the add-in's three steps, and the
\* pipe's end; each of these places is left by a fair step, and never returned to.
LEMMA OneUpdateIsAnswered ==
    ASSUME NEW u \in Updates
    PROVE  /\ [][BridgeNext]_bridgeVars /\ WF_bridgeVars(Serve) /\ WF_bridgeVars(Attend)
           /\ [](BridgeTypeOK /\ OneRequest /\ WaitsForSomebody) /\ []BridgeIsNotStuck
           => Answered(u)
<1> DEFINE Inv == BridgeTypeOK /\ OneRequest /\ WaitsForSomebody
           E == AtAddin(u, "enqueue")
           R == AtAddin(u, "raise")
           A == AtAddin(u, "respond")
<1>1. Inv /\ u \in current => AtGate(u) \/ AtPipe(u) \/ E \/ R \/ A \/ AtBroken(u)
  BY DEF BridgeTypeOK, OneRequest, WaitsForSomebody, AtGate, AtPipe, AtAddin, AtBroken
<1>2. Inv /\ [BridgeNext]_bridgeVars
        => /\ AtGate(u) => AtGate(u)' \/ AtPipe(u)' \/ HasAnswer(u)'
           /\ AtPipe(u) => AtPipe(u)' \/ E' \/ HasAnswer(u)'
           /\ E => E' \/ R' \/ AtBroken(u)'
           /\ R => R' \/ A' \/ AtBroken(u)'
           /\ A => A' \/ AtBroken(u)' \/ HasAnswer(u)'
           /\ AtBroken(u) => AtBroken(u)' \/ HasAnswer(u)'
  BY UpdateGoesOn
<1>3. Inv /\ <<Serve>>_bridgeVars
        => /\ AtGate(u) => AtPipe(u)' \/ HasAnswer(u)'
           /\ AtPipe(u) => E' \/ HasAnswer(u)'
           /\ AtBroken(u) => HasAnswer(u)'
  BY ServeEffect DEF AtGate, AtPipe, AtBroken
<1>4. Inv /\ <<Attend>>_bridgeVars
        => /\ E => R'
           /\ R => A'
           /\ A => AtBroken(u)' \/ HasAnswer(u)'
  BY AttendEffect DEF AtAddin
<1>5. BridgeIsNotStuck => (AtGate(u) \/ AtPipe(u) \/ AtBroken(u) => ENABLED <<Serve>>_bridgeVars)
  BY DEF BridgeIsNotStuck, AtGate, AtPipe, AtBroken
<1>6. BridgeIsNotStuck => (E \/ R \/ A => ENABLED <<Attend>>_bridgeVars)
  BY DEF BridgeIsNotStuck, AtAddin
<1>7. HasAnswer(u) => answer[u] # "none"
  BY DEF HasAnswer
<1> HIDE DEF Inv, E, R, A
<1>8. [](BridgeTypeOK /\ OneRequest /\ WaitsForSomebody) => []Inv
  BY PTL DEF Inv
<1> QED
  BY <1>1, <1>2, <1>3, <1>4, <1>5, <1>6, <1>7, <1>8, PTL DEF Answered

\* EveryUpdateIsAnswered, for any updates and bounds, as long as the fair steps are
\* those that can be taken: BridgeIsNotStuck.
THEOREM ServerGetsThrough == BridgeSpec /\ []BridgeIsNotStuck => EveryUpdateIsAnswered
<1>1. BridgeInit => WaitsForSomebody
  BY DEF BridgeInit, WaitsForSomebody
<1>2. BridgeSpec => /\ [][BridgeNext]_bridgeVars /\ WF_bridgeVars(Serve) /\ WF_bridgeVars(Attend)
                    /\ [](BridgeTypeOK /\ OneRequest /\ WaitsForSomebody)
  BY <1>1, BridgeInvariance, WaitStep, PTL DEF BridgeSpec, BridgeFairness
<1>3. ASSUME NEW u \in Updates
      PROVE  BridgeSpec /\ []BridgeIsNotStuck => Answered(u)
  BY <1>2, OneUpdateIsAnswered, PTL
<1> QED
  BY <1>3, BridgeAssumption DEF EveryUpdateIsAnswered
=============================================================================
