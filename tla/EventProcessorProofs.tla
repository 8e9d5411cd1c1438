------------------------ MODULE EventProcessorProofs ------------------------
(***************************************************************************)
(* Theorems about EventProcessor, for any events, threads, capacities and  *)
(* limits.                                                                 *)
(***************************************************************************)
EXTENDS EventProcessor, FiniteSetTheorems, TLAPS

\* A thread has a message in its hands exactly between two queues.
HandsOK ==
    \A t \in Threads : hold[t] = None <=>
        pc[t] \in {"submit", "take", "retake", "blocked", "off"}

\* Nobody has seen an event that is not submitted.
NewOK ==
    \A e \in Events : topic[e] = None => ~Present(e) /\ attempts[e] = 0 /\ taken[e] = 0

\* Times that an event has passed the input queue, counting the one it missed.
Passes(e) == taken[e] + (IF topic[e] = "retry_events" THEN 1 ELSE 0)

Refilled(e) ==
    e \in queue["input"] \/ \E t \in Threads : hold[t] = e /\ pc[t] = "refill"

Tried(e) ==
    e \in queue["retry"] \/ \E t \in Threads : hold[t] = e /\ pc[t] # "refill"

\* attempts lags one behind while an event is worked on, and is level again when it
\* is on its way back to the input queue.
CountOK ==
    \A e \in Events :
        /\ Refilled(e) => Passes(e) = attempts[e]
        /\ Tried(e) => Passes(e) = attempts[e] + 1
        /\ e \in queue["dead"] => Passes(e) >= MaxRetries + 1

IInv == ProcessorTypeOK /\ HandsOK /\ EventInOnePlace /\ NewOK /\ CountOK

-----------------------------------------------------------------------------
LEMMA InitOK == Init => IInv
<1> SUFFICES ASSUME Init PROVE IInv
    OBVIOUS
<1> USE ProcessorAssumption DEF Init
<1>1. ProcessorTypeOK
    BY DEF ProcessorTypeOK, Queues, Topics, Threads, Places
<1>2. HandsOK
    BY DEF HandsOK, Threads
<1>3. EventInOnePlace /\ NewOK
    BY DEF EventInOnePlace, NewOK, Held, Present, Queues, Threads
<1>4. CountOK
    BY DEF CountOK, Refilled, Tried, Passes, Queues, Threads
<1> QED BY <1>1, <1>2, <1>3, <1>4 DEF IInv

\* Types, and what a thread has in its hands.
LEMMA ShapeKept ==
    ProcessorTypeOK /\ HandsOK /\ NewOK /\ [Next]_vars => ProcessorTypeOK' /\ HandsOK'
<1> SUFFICES ASSUME ProcessorTypeOK, HandsOK, NewOK, [Next]_vars
             PROVE ProcessorTypeOK' /\ HandsOK'
    OBVIOUS
<1> USE ProcessorAssumption DEF ProcessorTypeOK, HandsOK, Threads, Places, Queues, Topics,
        queueVars, circuitVars, Goto, Holds
<1>1. CASE UNCHANGED vars
    BY <1>1 DEF vars
<1>2. ASSUME NEW c \in Clients, NEW e \in Events, Submit(c, e)
      PROVE ProcessorTypeOK' /\ HandsOK'
    BY <1>2 DEF Submit, Enqueue, Refuse, Accept, Block
<1>3. ASSUME NEW c \in Clients, Divert(c) PROVE ProcessorTypeOK' /\ HandsOK'
    BY <1>3 DEF Divert, Enqueue, Refuse, Accept, Block
<1>4. ASSUME NEW w \in Workers, NEW q \in Queues, NEW next \in {"take", "retake"},
             pc[w] \notin {"submit", "take", "retake", "blocked", "off"}, Pass(w, q, next)
      PROVE ProcessorTypeOK' /\ HandsOK'
    BY <1>4 DEF Pass, Enqueue, Refuse, Accept, Block
<1>5. ASSUME NEW w \in Workers, Worker(w) PROVE ProcessorTypeOK' /\ HandsOK'
  <2>1. CASE Leave(w) \/ TakeNothing(w) \/ RetakeNothing(w)
    BY <2>1 DEF Leave, TakeNothing, RetakeNothing
  <2>2. CASE Take(w)
    BY <2>2 DEF Take, Dequeue
  <2>3. CASE Filter(w) \/ FilterRaises(w) \/ Gate(w) \/ RunStages(w)
    BY <2>3 DEF Filter, FilterRaises, Gate, RunStages
  <2>4. CASE Purge(w) \/ Count(w)
    BY <2>4 DEF Purge, Count, Walks
  <2>5. CASE Swap(w) \/ SwapRaises(w)
    BY <2>5 DEF Swap, SwapRaises, Walks
  <2>6. CASE Deliver(w) \/ Fail(w) \/ Again(w) \/ Refill(w)
    BY <2>6, <1>4 DEF Deliver, Fail, Again, Refill
  <2>7. CASE Retake(w)
    BY <2>7 DEF Retake, Dequeue
  <2> QED BY <1>5, <2>1, <2>2, <2>3, <2>4, <2>5, <2>6, <2>7 DEF Worker
<1>6. CASE Stop
    BY <1>6 DEF Stop
<1> QED BY <1>1, <1>2, <1>3, <1>5, <1>6 DEF Next, Client

-----------------------------------------------------------------------------
(* Where a step can move an event.                                          *)

\* Whatever t does, the other threads stay where they are, and t is on its way
\* back to the input queue or not.
Steps(t, back) ==
    \A u \in Threads : (pc'[u] = "refill") <=> IF u = t THEN back ELSE pc[u] = "refill"

Still ==
    /\ UNCHANGED <<queue, topic, attempts, taken, hold>>
    /\ \A u \in Threads : (pc'[u] = "refill") <=> (pc[u] = "refill")

Submits(t, e) ==
    /\ topic[e] = None /\ hold[t] = None
    /\ \/ /\ topic' = [topic EXCEPT ![e] = "events"]
          /\ queue' = [queue EXCEPT !["input"] = @ \cup {e}]
          /\ hold' = hold
       \/ /\ topic' = [topic EXCEPT ![e] = "retry_events"]
          /\ queue' = queue
          /\ hold' = [hold EXCEPT ![t] = e]
    /\ Steps(t, FALSE)
    /\ UNCHANGED <<attempts, taken>>

Takes(t, q, e) ==
    /\ hold[t] = None /\ e \in queue[q]
    /\ hold' = [hold EXCEPT ![t] = e]
    /\ queue' = [queue EXCEPT ![q] = @ \ {e}]
    /\ \/ /\ q = "input" /\ Steps(t, FALSE)
          /\ taken' = [taken EXCEPT ![e] = @ + 1]
          /\ attempts' = attempts
       \/ /\ q = "retry" /\ Steps(t, TRUE)
          /\ attempts' = [attempts EXCEPT ![e] = @ + 1]
          /\ taken' = taken
    /\ topic' = topic

Puts(t, q, e) ==
    /\ hold[t] = e
    /\ hold' = [hold EXCEPT ![t] = None]
    /\ queue' = [queue EXCEPT ![q] = @ \cup {e}]
    /\ (q = "input") <=> (pc[t] = "refill")
    /\ q = "dead" => attempts[e] >= MaxRetries
    /\ Steps(t, FALSE)
    /\ UNCHANGED <<topic, attempts, taken>>

Loses(t, e) ==
    /\ hold[t] = e
    /\ hold' = [hold EXCEPT ![t] = None]
    /\ pc[t] = "gate" \/ (pc[t] = "swap" /\ walk[t] = "broken") \/ Refuses(t)
    /\ Steps(t, FALSE)
    /\ UNCHANGED <<queue, topic, attempts, taken>>

Moves ==
    \/ Still
    \/ \E t \in Threads, e \in Events :
         \/ Submits(t, e)
         \/ Loses(t, e)
         \/ \E q \in Queues : Takes(t, q, e) \/ Puts(t, q, e)

LEMMA StepMoves == ProcessorTypeOK /\ HandsOK /\ [Next]_vars => Moves
<1> SUFFICES ASSUME ProcessorTypeOK, HandsOK, [Next]_vars PROVE Moves
    OBVIOUS
<1> USE ProcessorAssumption DEF ProcessorTypeOK, HandsOK, Threads, Queues, Topics,
        queueVars, circuitVars, Goto, Holds
<1>1. CASE UNCHANGED vars
    BY <1>1 DEF vars, Moves, Still
<1>2. ASSUME NEW c \in Clients, NEW e \in Events, Submit(c, e) PROVE Moves
  <2>1. Submits(c, e)
    BY <1>2 DEF Submit, Enqueue, Refuse, Accept, Block, Submits, Steps
  <2> QED BY <2>1 DEF Moves
<1>3. ASSUME NEW c \in Clients, Divert(c) PROVE Moves
  <2>1. PICK e \in Events : hold[c] = e
    BY <1>3 DEF Divert
  <2>2. Puts(c, "retry", e) \/ Loses(c, e)
    BY <1>3, <2>1 DEF Divert, Enqueue, Refuse, Accept, Block, Puts, Loses, Steps, Refuses
  <2> QED BY <2>2 DEF Moves
<1>4. ASSUME NEW w \in Workers, NEW q \in Queues, NEW next \in {"take", "retake"},
             Pass(w, q, next),
             pc[w] \notin {"submit", "take", "retake", "blocked", "off"},
             (q = "input") <=> (pc[w] = "refill"),
             q = "dead" => attempts[hold[w]] >= MaxRetries,
             IsFull(q) => Refuses(w)
      PROVE Moves
  <2>1. PICK e \in Events : hold[w] = e
    BY <1>4
  <2>2. CASE IsFull(q)
    <3>1. Loses(w, e)
      BY <1>4, <2>1, <2>2 DEF Pass, Enqueue, Refuse, Loses, Steps
    <3> QED BY <3>1 DEF Moves
  <2>3. CASE ~IsFull(q)
    <3>1. Puts(w, q, e)
      BY <1>4, <2>1, <2>3 DEF Pass, Enqueue, Accept, Block, Puts, Steps
    <3> QED BY <3>1 DEF Moves
  <2> QED BY <2>2, <2>3
<1>5. ASSUME NEW w \in Workers, Worker(w) PROVE Moves
  <2>1. CASE Leave(w) \/ TakeNothing(w) \/ RetakeNothing(w) \/ FilterRaises(w)
             \/ Gate(w) \/ RunStages(w) \/ Purge(w) \/ Swap(w) \/ Count(w)
    <3>1. Still
      BY <2>1 DEF Leave, TakeNothing, RetakeNothing, FilterRaises, Gate, RunStages,
                  Purge, Swap, Count, Still
    <3> QED BY <3>1 DEF Moves
  <2>2. CASE Take(w)
    <3>1. PICK e \in Events : Takes(w, "input", e)
      BY <2>2 DEF Take, Dequeue, Takes, Steps
    <3> QED BY <3>1 DEF Moves
  <2>3. CASE Retake(w)
    <3>1. PICK e \in Events : Takes(w, "retry", e)
      BY <2>3 DEF Retake, Dequeue, Takes, Steps
    <3> QED BY <3>1 DEF Moves
  <2>4. CASE Filter(w) \/ SwapRaises(w)
    <3>1. PICK e \in Events : hold[w] = e
      BY <2>4 DEF Filter, SwapRaises
    <3>2. Loses(w, e)
      BY <2>4, <3>1 DEF Filter, SwapRaises, Loses, Steps
    <3> QED BY <3>2 DEF Moves
  <2>5. CASE Deliver(w)
    BY <2>5, <1>4 DEF Deliver, Refuses
  <2>6. CASE Fail(w)
    BY <2>6, <1>4 DEF Fail, Refuses
  <2>7. CASE Again(w)
    BY <2>7, <1>4 DEF Again, Refuses
  <2>8. CASE Refill(w)
    BY <2>8, <1>4 DEF Refill, Refuses
  <2> QED BY <1>5, <2>1, <2>2, <2>3, <2>4, <2>5, <2>6, <2>7, <2>8 DEF Worker
<1>6. CASE Stop
    BY <1>6 DEF Stop, Moves, Still
<1> QED BY <1>1, <1>2, <1>3, <1>5, <1>6 DEF Next, Client

-----------------------------------------------------------------------------
(* The invariants, from where a step can move an event.                     *)

LEMMA PlacesKept ==
    ProcessorTypeOK /\ EventInOnePlace /\ NewOK /\ Moves => EventInOnePlace' /\ NewOK'
<1> SUFFICES ASSUME ProcessorTypeOK, EventInOnePlace, NewOK, Moves
             PROVE EventInOnePlace' /\ NewOK'
    OBVIOUS
<1> USE ProcessorAssumption DEF ProcessorTypeOK, EventInOnePlace, NewOK, Held, Present
<1>1. CASE Still
    BY <1>1 DEF Still
<1>2. ASSUME NEW t \in Threads, NEW e \in Events, Submits(t, e)
      PROVE EventInOnePlace' /\ NewOK'
  <2>1. ~Held(e) /\ \A p \in Queues : e \notin queue[p]
    BY <1>2 DEF Submits
  <2>2. CASE hold' = hold
    <3>1. \A p \in Queues : queue'[p] = IF p = "input" THEN queue[p] \cup {e} ELSE queue[p]
      <4>1. queue' = [queue EXCEPT !["input"] = @ \cup {e}]
        BY <1>2, <2>2 DEF Submits
      <4> QED BY <4>1
    <3>2. EventInOnePlace'
      BY <2>1, <2>2, <3>1 DEF Queues
    <3>3. NewOK'
      BY <1>2, <2>1, <2>2, <3>1 DEF Submits, Topics
    <3> QED BY <3>2, <3>3
  <2>3. CASE queue' = queue /\ hold' = [hold EXCEPT ![t] = e]
    <3>1. \A u \in Threads : hold'[u] = IF u = t THEN e ELSE hold[u]
      BY <2>3
    <3>2. EventInOnePlace'
      BY <2>1, <2>3, <3>1
    <3>3. NewOK'
      BY <1>2, <2>1, <2>3, <3>1 DEF Submits, Topics
    <3> QED BY <3>2, <3>3
  <2> QED BY <1>2, <2>2, <2>3 DEF Submits
<1>3. ASSUME NEW t \in Threads, NEW e \in Events, Loses(t, e)
      PROVE EventInOnePlace' /\ NewOK'
    BY <1>3 DEF Loses
<1>4. ASSUME NEW t \in Threads, NEW e \in Events, NEW q \in Queues, Takes(t, q, e)
      PROVE EventInOnePlace' /\ NewOK'
  <2>1. ~Held(e) /\ topic[e] # None /\ \A p \in Queues : e \in queue[p] => p = q
    BY <1>4 DEF Takes
  <2>2. \A u \in Threads : hold'[u] = IF u = t THEN e ELSE hold[u]
    BY <1>4 DEF Takes
  <2>3. \A p \in Queues : queue'[p] = queue[p] \ {e}
    BY <1>4, <2>1 DEF Takes
  <2>4. EventInOnePlace'
    BY <2>1, <2>2, <2>3 DEF Queues
  <2>5. topic' = topic /\ \A x \in Events : x # e => attempts'[x] = attempts[x] /\ taken'[x] = taken[x]
    BY <1>4 DEF Takes
  <2>6. NewOK'
    BY <2>1, <2>2, <2>3, <2>5
  <2> QED BY <2>4, <2>6
<1>5. ASSUME NEW t \in Threads, NEW e \in Events, NEW q \in Queues, Puts(t, q, e)
      PROVE EventInOnePlace' /\ NewOK'
  <2>1. hold[t] = e /\ topic[e] # None /\ \A p \in Queues : e \notin queue[p]
    BY <1>5 DEF Puts
  <2>2. \A u \in Threads : hold'[u] = IF u = t THEN None ELSE hold[u]
    BY <1>5 DEF Puts
  <2>3. \A p \in Queues : queue'[p] = IF p = q THEN queue[p] \cup {e} ELSE queue[p]
    BY <1>5 DEF Puts
  <2>4. EventInOnePlace'
    BY <2>1, <2>2, <2>3 DEF Queues
  <2>5. NewOK'
    BY <1>5, <2>1, <2>2, <2>3 DEF Puts
  <2> QED BY <2>4, <2>5
<1> QED BY <1>1, <1>2, <1>3, <1>4, <1>5 DEF Moves

LEMMA CountKept ==
    ProcessorTypeOK /\ EventInOnePlace /\ NewOK /\ CountOK /\ Moves => CountOK'
<1> SUFFICES ASSUME ProcessorTypeOK, EventInOnePlace, NewOK, CountOK, Moves, NEW x \in Events
             PROVE /\ Refilled(x)' => Passes(x)' = attempts'[x]
                   /\ Tried(x)' => Passes(x)' = attempts'[x] + 1
                   /\ x \in queue'["dead"] => Passes(x)' >= MaxRetries + 1
    BY DEF CountOK
<1> USE ProcessorAssumption DEF ProcessorTypeOK, Queues, Topics, Refilled, Tried, Passes
<1>0. /\ Refilled(x) => Passes(x) = attempts[x]
      /\ Tried(x) => Passes(x) = attempts[x] + 1
      /\ x \in queue["dead"] => Passes(x) >= MaxRetries + 1
    BY DEF CountOK
<1>1. CASE Still
    BY <1>0, <1>1 DEF Still
<1>2. ASSUME NEW t \in Threads, NEW e \in Events, Submits(t, e)
      PROVE /\ Refilled(x)' => Passes(x)' = attempts'[x]
            /\ Tried(x)' => Passes(x)' = attempts'[x] + 1
            /\ x \in queue'["dead"] => Passes(x)' >= MaxRetries + 1
    BY <1>0, <1>2 DEF Submits, Steps, NewOK, Present, Held
<1>3. ASSUME NEW t \in Threads, NEW e \in Events, Loses(t, e)
      PROVE /\ Refilled(x)' => Passes(x)' = attempts'[x]
            /\ Tried(x)' => Passes(x)' = attempts'[x] + 1
            /\ x \in queue'["dead"] => Passes(x)' >= MaxRetries + 1
    BY <1>0, <1>3 DEF Loses, Steps
<1>4. ASSUME NEW t \in Threads, NEW e \in Events, NEW q \in Queues, Takes(t, q, e)
      PROVE /\ Refilled(x)' => Passes(x)' = attempts'[x]
            /\ Tried(x)' => Passes(x)' = attempts'[x] + 1
            /\ x \in queue'["dead"] => Passes(x)' >= MaxRetries + 1
    BY <1>0, <1>4 DEF Takes, Steps, EventInOnePlace, Held
<1>5. ASSUME NEW t \in Threads, NEW e \in Events, NEW q \in Queues, Puts(t, q, e)
      PROVE /\ Refilled(x)' => Passes(x)' = attempts'[x]
            /\ Tried(x)' => Passes(x)' = attempts'[x] + 1
            /\ x \in queue'["dead"] => Passes(x)' >= MaxRetries + 1
    BY <1>0, <1>5 DEF Puts, Steps, EventInOnePlace, Held
<1> QED BY <1>1, <1>2, <1>3, <1>4, <1>5 DEF Moves

LEMMA Inductive == IInv /\ [Next]_vars => IInv'
    BY ShapeKept, StepMoves, PlacesKept, CountKept DEF IInv

LEMMA Invariance == Spec => []IInv
<1>1. Init => IInv
    BY InitOK
<1>2. IInv /\ [Next]_vars => IInv'
    BY Inductive
<1> QED BY <1>1, <1>2, PTL DEF Spec

\* Type correctness.
THEOREM TypeCorrect == Spec => []ProcessorTypeOK
<1>1. IInv => ProcessorTypeOK
    BY DEF IInv
<1> QED BY <1>1, Invariance, PTL

\* However many workers and clients: no event is in two places.
THEOREM NoEventIsDuplicated == Spec => []EventInOnePlace
<1>1. IInv => EventInOnePlace
    BY DEF IInv
<1> QED BY <1>1, Invariance, PTL

\* The dead-letter queue holds only what has been retried to the limit.
THEOREM DeadMeansRetried == Spec => []DeadEventsWereRetried
<1>1. IInv => DeadEventsWereRetried
  <2> SUFFICES ASSUME IInv, NEW e \in queue["dead"]
               PROVE taken[e] >= IF topic[e] = "events" THEN MaxRetries + 1 ELSE MaxRetries
      BY DEF DeadEventsWereRetried
  <2>1. e \in Events /\ ProcessorTypeOK
      BY DEF IInv, ProcessorTypeOK, Queues
  <2>2. Passes(e) >= MaxRetries + 1
      BY <2>1 DEF IInv, CountOK
  <2> QED BY <2>1, <2>2, ProcessorAssumption DEF Passes, ProcessorTypeOK
<1> QED BY <1>1, Invariance, PTL

-----------------------------------------------------------------------------
(* What a step may never do.                                                *)

\* A jammed queue is jammed for good.
LEMMA JamStays ==
    ProcessorTypeOK /\ [Next]_vars =>
        \A q \in Queues : lock[q] # None => UNCHANGED <<queue[q], lock[q]>>
<1> SUFFICES ASSUME ProcessorTypeOK, [Next]_vars, NEW r \in Queues, lock[r] # None
             PROVE UNCHANGED <<queue[r], lock[r]>>
    OBVIOUS
<1> USE DEF ProcessorTypeOK, queueVars
<1>1. CASE UNCHANGED vars
    BY <1>1 DEF vars
<1>2. ASSUME NEW c \in Clients, Client(c) PROVE UNCHANGED <<queue[r], lock[r]>>
    BY <1>2 DEF Client, Submit, Divert, Enqueue, Refuse, Accept, Block
<1>3. ASSUME NEW w \in Workers, Worker(w) PROVE UNCHANGED <<queue[r], lock[r]>>
  <2>1. CASE Take(w) \/ Retake(w)
    BY <2>1 DEF Take, Retake, Dequeue
  <2>2. CASE Deliver(w) \/ Fail(w) \/ Again(w) \/ Refill(w)
    BY <2>2 DEF Deliver, Fail, Again, Refill, Pass, Enqueue, Refuse, Accept, Block
  <2>3. CASE ~(Take(w) \/ Retake(w) \/ Deliver(w) \/ Fail(w) \/ Again(w) \/ Refill(w))
    BY <1>3, <2>3 DEF Worker, Leave, TakeNothing, Filter, FilterRaises, Gate, RunStages, Purge, Swap,
        SwapRaises, Count, RetakeNothing
  <2> QED BY <2>1, <2>2, <2>3
<1>4. CASE Stop
    BY <1>4 DEF Stop
<1> QED BY <1>1, <1>2, <1>3, <1>4 DEF Next

THEOREM JamsAreForGood == Spec => JamIsForGood
<1>1. ProcessorTypeOK /\ [Next]_vars =>
        [\A q \in Queues : lock[q] # None => UNCHANGED <<queue[q], lock[q]>>]_vars
    BY JamStays
<1> QED BY <1>1, TypeCorrect, PTL DEF Spec, JamIsForGood

\* No event gets lost but by a filter, a full queue, or two failures at once.
LEMMA LossNeedsReason ==
    ProcessorTypeOK /\ Moves =>
        \A e \in Events : Present(e) /\ ~Present(e)' =>
            \E t \in Threads :
                /\ hold[t] = e
                /\ \/ pc[t] = "gate"
                   \/ pc[t] = "swap" /\ walk[t] = "broken"
                   \/ Refuses(t)
<1> SUFFICES ASSUME ProcessorTypeOK, Moves, NEW x \in Events, Present(x), ~Present(x)'
             PROVE \E t \in Threads :
                     /\ hold[t] = x
                     /\ \/ pc[t] = "gate"
                        \/ pc[t] = "swap" /\ walk[t] = "broken"
                        \/ Refuses(t)
    OBVIOUS
<1> USE ProcessorAssumption DEF ProcessorTypeOK, Present, Held, Queues
<1>1. ~Still
    BY DEF Still
<1>2. ASSUME NEW t \in Threads, NEW e \in Events, Submits(t, e) PROVE FALSE
    BY <1>2 DEF Submits
<1>3. ASSUME NEW t \in Threads, NEW e \in Events, NEW q \in Queues, Takes(t, q, e) PROVE FALSE
    BY <1>3 DEF Takes
<1>4. ASSUME NEW t \in Threads, NEW e \in Events, NEW q \in Queues, Puts(t, q, e) PROVE FALSE
    BY <1>4 DEF Puts
<1>5. PICK t \in Threads, e \in Events : Loses(t, e)
    BY <1>1, <1>2, <1>3, <1>4 DEF Moves
<1>6. x = e
    BY <1>5 DEF Loses
<1> QED BY <1>5, <1>6 DEF Loses

THEOREM NoSilentLoss == Spec => LossIsExplained
<1>1. IInv /\ [Next]_vars =>
        [\A e \in Events : Present(e) /\ ~Present(e)' =>
            \E t \in Threads :
                /\ hold[t] = e
                /\ \/ pc[t] = "gate"
                   \/ pc[t] = "swap" /\ walk[t] = "broken"
                   \/ Refuses(t)]_vars
    BY StepMoves, LossNeedsReason DEF IInv
<1> QED BY <1>1, Invariance, PTL DEF Spec, LossIsExplained

-----------------------------------------------------------------------------
(* The processor implements the life of an event.                           *)

LEMMA FatesStart == Init => Fates!FatesInit
    BY DEF Init, Fates!FatesInit, EventFateOf, Fate

\* A step that changes the fate of one event as the abstract machine may.
LEMMA OneFate ==
    ASSUME NEW e \in Events,
           \A x \in Events : x # e => Fate(x)' = Fate(x),
           \/ Fate(e)' = Fate(e)
           \/ Fate(e) = "new" /\ Fate(e)' = "pending"
           \/ Fate(e) = "pending" /\ Fate(e)' \in {"delivered", "dead", "lost"}
    PROVE  Fates!FatesNext \/ UNCHANGED EventFateOf
<1>1. CASE Fate(e)' = Fate(e)
    BY <1>1 DEF EventFateOf
<1>2. CASE Fate(e)' # Fate(e)
  <2>1. EventFateOf' = [EventFateOf EXCEPT ![e] = Fate(e)']
    BY DEF EventFateOf
  <2>2. EventFateOf[e] = Fate(e)
    BY DEF EventFateOf
  <2>3. CASE Fate(e) = "new" /\ Fate(e)' = "pending"
    BY <2>1, <2>2, <2>3 DEF Fates!FatesNext, Fates!Accept
  <2>4. CASE Fate(e) = "pending" /\ Fate(e)' \in {"delivered", "dead", "lost"}
    <3>1. PICK how \in {"delivered", "dead", "lost"} : how = Fate(e)'
      BY <2>4
    <3>2. Fates!Settle(e, how)
      BY <2>1, <2>2, <2>4, <3>1 DEF Fates!Settle
    <3> QED BY <3>2 DEF Fates!FatesNext
  <2> QED BY <1>2, <2>3, <2>4
<1> QED BY <1>1, <1>2

LEMMA FatesFollow == IInv /\ Moves => Fates!FatesNext \/ UNCHANGED EventFateOf
<1> SUFFICES ASSUME IInv, Moves PROVE Fates!FatesNext \/ UNCHANGED EventFateOf
    OBVIOUS
<1> USE ProcessorAssumption DEF IInv, ProcessorTypeOK, EventInOnePlace, NewOK, Held, Present,
        Fate, Pending
<1>1. CASE Still
    BY <1>1 DEF Still, EventFateOf
<1>2. ASSUME NEW t \in Threads, NEW e \in Events, Submits(t, e)
      PROVE Fates!FatesNext \/ UNCHANGED EventFateOf
  <2>1. Fate(e) = "new" /\ \A p \in Queues : e \notin queue[p]
    BY <1>2 DEF Submits
  <2>2. Fate(e)' = "pending"
    BY <1>2, <2>1 DEF Submits, Topics, Queues
  <2>3. \A x \in Events : x # e => Fate(x)' = Fate(x)
    BY <1>2 DEF Submits, Queues
  <2> QED BY <2>1, <2>2, <2>3, OneFate
<1>3. ASSUME NEW t \in Threads, NEW e \in Events, Loses(t, e)
      PROVE Fates!FatesNext \/ UNCHANGED EventFateOf
  <2>1. Fate(e) = "pending"
    BY <1>3 DEF Loses, Queues
  <2>2. Fate(e)' = "lost"
    BY <1>3 DEF Loses, Queues
  <2>3. \A x \in Events : x # e => Fate(x)' = Fate(x)
    BY <1>3 DEF Loses
  <2> QED BY <2>1, <2>2, <2>3, OneFate
<1>4. ASSUME NEW t \in Threads, NEW e \in Events, NEW q \in Queues, Takes(t, q, e)
      PROVE Fates!FatesNext \/ UNCHANGED EventFateOf
  <2>1. Fate(e) = "pending"
    BY <1>4 DEF Takes, Queues
  <2>2. Fate(e)' = "pending"
    BY <1>4 DEF Takes, Queues
  <2>3. \A x \in Events : x # e => Fate(x)' = Fate(x)
    BY <1>4 DEF Takes, Queues
  <2> QED BY <2>1, <2>2, <2>3, OneFate
<1>5. ASSUME NEW t \in Threads, NEW e \in Events, NEW q \in Queues, Puts(t, q, e)
      PROVE Fates!FatesNext \/ UNCHANGED EventFateOf
  <2>1. Fate(e) = "pending"
    BY <1>5 DEF Puts, Queues
  <2>2. Fate(e)' \in {"pending", "delivered", "dead"}
    BY <1>5 DEF Puts, Queues
  <2>3. \A x \in Events : x # e => Fate(x)' = Fate(x)
    BY <1>5 DEF Puts, Queues
  <2> QED BY <2>1, <2>2, <2>3, OneFate
<1> QED BY <1>1, <1>2, <1>3, <1>4, <1>5 DEF Moves

\* Refinement: an event that is delivered, dead or lost stays so.
THEOREM ProcessorImplementsFates == Spec => FatesSpec
<1>1. Init => Fates!FatesInit
    BY FatesStart
<1>2. IInv /\ [Next]_vars => [Fates!FatesNext]_EventFateOf
    BY StepMoves, FatesFollow DEF IInv
<1> QED BY <1>1, <1>2, Invariance, PTL DEF Spec, FatesSpec, Fates!FatesSpec

-----------------------------------------------------------------------------
(* The topic heaps of the input queue, which nothing is taken from.          *)

\* They hold as many messages as have been put in, but for the one whose put waits.
TopicHeapOK(tp) ==
    /\ IsFiniteSet(Intakes(tp))
    /\ filed["input"][tp] <= Capacity["input"]
    /\ \/ Intake(tp) = filed["input"][tp]
       \/ /\ lock["input"] # None
          /\ filed["input"][tp] = Capacity["input"]
          /\ Intake(tp) = Capacity["input"] + 1

IntakeOK == \A tp \in Topics : TopicHeapOK(tp)

\* What a step can do to the input queue.
InputRests ==
    /\ UNCHANGED <<queue["input"], filed["input"], lock["input"], taken>>
    /\ \A x \in Events : topic'[x] = topic[x] \/ Entries(x) = 0

GivesInput(e) ==
    /\ lock["input"] = None /\ e \in queue["input"]
    /\ queue'["input"] = queue["input"] \ {e}
    /\ taken' = [taken EXCEPT ![e] = @ + 1]
    /\ UNCHANGED <<filed["input"], lock["input"], topic>>

GetsInput(e, tp) ==
    /\ lock["input"] = None /\ e \notin queue["input"]
    /\ queue'["input"] = queue["input"] \cup {e}
    /\ topic' = [topic EXCEPT ![e] = tp]
    /\ topic[e] = tp \/ Entries(e) = 0
    /\ taken' = taken
    /\ \/ /\ filed["input"][tp] < Capacity["input"]
          /\ filed'["input"] = [filed["input"] EXCEPT ![tp] = @ + 1]
          /\ lock'["input"] = None
       \/ /\ filed["input"][tp] >= Capacity["input"]
          /\ filed'["input"] = filed["input"]
          /\ lock'["input"] # None

InputMoves ==
    \/ InputRests
    \/ \E e \in Events : GivesInput(e) \/ \E tp \in Topics : GetsInput(e, tp)

LEMMA EnqueueElsewhere ==
    ASSUME ProcessorTypeOK, NEW q \in Queues, q # "input", NEW e, NEW tp, NEW t, NEW full, NEW next,
           Enqueue(q, e, tp, t, full, next)
    PROVE  UNCHANGED <<queue["input"], filed["input"], lock["input"]>>
BY DEF ProcessorTypeOK, Queues, Enqueue, Refuse, Accept, Block, queueVars

LEMMA EnqueueInput ==
    ASSUME ProcessorTypeOK, NEW e \in Events, NEW tp \in Topics, NEW t \in Threads, NEW full, NEW next,
           Enqueue("input", e, tp, t, full, next)
    PROVE  \/ IsFull("input") /\ Refuse(t, full)
           \/ /\ ~IsFull("input")
              /\ lock["input"] = None
              /\ queue'["input"] = queue["input"] \cup {e}
              /\ \/ /\ filed["input"][tp] < Capacity["input"]
                    /\ filed'["input"] = [filed["input"] EXCEPT ![tp] = @ + 1]
                    /\ lock'["input"] = None
                    /\ Goto(t, next)
                 \/ /\ filed["input"][tp] >= Capacity["input"]
                    /\ filed'["input"] = filed["input"]
                    /\ lock'["input"] # None
                    /\ Goto(t, "blocked")
BY ProcessorAssumption DEF ProcessorTypeOK, Queues, Threads, Enqueue, Accept, Block

LEMMA StepMovesInput == IInv /\ [Next]_vars => InputMoves
<1> SUFFICES ASSUME IInv, [Next]_vars PROVE InputMoves
    OBVIOUS
<1>0. ProcessorTypeOK /\ HandsOK /\ "input" \in Queues
    BY DEF IInv, Queues
<1>1. CASE UNCHANGED vars
    BY <1>1 DEF vars, queueVars, InputMoves, InputRests
<1>2. ASSUME NEW c \in Clients, NEW e \in Events, Submit(c, e) PROVE InputMoves
  <2>1. c \in Threads /\ pc[c] = "submit" /\ topic[e] = None /\ taken' = taken
      BY <1>2 DEF Submit, Threads
  <2>2. e \notin queue["input"] /\ Entries(e) = 0
      BY <1>0, <2>1 DEF IInv, NewOK, Present, Entries
  <2>3. "events" \in Topics /\ Enqueue("input", e, "events", c, "divert", "submit")
      BY <1>2 DEF Submit, Topics
  <2>4. CASE Refuse(c, "divert")
    <3>1. \A x \in Events : topic'[x] = topic[x] \/ x = e
        BY <1>0, <1>2 DEF Submit, ProcessorTypeOK
    <3> QED BY <2>1, <2>2, <2>4, <3>1 DEF Refuse, queueVars, InputMoves, InputRests
  <2>5. CASE ~Refuse(c, "divert")
    <3>0. Goto(c, "submit") \/ Goto(c, "blocked")
        BY <1>0, <2>1, <2>3, <2>5, EnqueueInput
    <3>1. pc' = [pc EXCEPT ![c] = "submit"] \/ pc' = [pc EXCEPT ![c] = "blocked"]
        BY <3>0 DEF Goto
    <3>2. pc'[c] # "divert"
        BY <1>0, <2>1, <3>1 DEF ProcessorTypeOK
    <3>3. topic' = [topic EXCEPT ![e] = "events"]
        BY <1>2, <3>2 DEF Submit
    <3>4. GetsInput(e, "events")
        BY <1>0, <2>1, <2>2, <2>3, <2>5, <3>3, EnqueueInput DEF GetsInput
    <3> QED BY <2>3, <3>4 DEF InputMoves
  <2> QED BY <2>4, <2>5
<1>3. ASSUME NEW c \in Clients, Divert(c) PROVE InputMoves
  <2>1. UNCHANGED <<queue["input"], filed["input"], lock["input"]>>
      BY <1>0, <1>3, EnqueueElsewhere DEF Divert, Queues
  <2> QED BY <1>3, <2>1 DEF Divert, InputMoves, InputRests
<1>4. ASSUME NEW w \in Workers, Worker(w) PROVE InputMoves
  <2>1. CASE Leave(w) \/ TakeNothing(w) \/ RetakeNothing(w) \/ Filter(w) \/ FilterRaises(w)
             \/ Gate(w) \/ RunStages(w)
      BY <2>1 DEF Leave, TakeNothing, RetakeNothing, Filter, FilterRaises, Gate, RunStages,
                  queueVars, InputMoves, InputRests
  <2>2. CASE Purge(w) \/ Swap(w) \/ SwapRaises(w) \/ Count(w)
      BY <2>2 DEF Purge, Swap, SwapRaises, Count, queueVars, InputMoves, InputRests
  <2>3. CASE Take(w)
    <3>1. PICK e \in queue["input"] : Dequeue("input", e) /\ taken' = [taken EXCEPT ![e] = @ + 1]
        BY <2>3 DEF Take
    <3>2. e \in Events
        BY <1>0, <3>1 DEF ProcessorTypeOK
    <3>3. GivesInput(e)
        BY <1>0, <2>3, <3>1 DEF Take, Dequeue, GivesInput, ProcessorTypeOK
    <3> QED BY <3>2, <3>3 DEF InputMoves
  <2>4. CASE Retake(w)
    <3>1. UNCHANGED <<queue["input"], filed["input"], lock["input"]>>
        BY <1>0, <2>4 DEF Retake, Dequeue, ProcessorTypeOK, Queues
    <3> QED BY <2>4, <3>1 DEF Retake, InputMoves, InputRests
  <2>5. ASSUME NEW q \in Queues, q # "input", Pass(w, q, "retake") PROVE InputMoves
    <3>1. UNCHANGED <<queue["input"], filed["input"], lock["input"]>>
        BY <1>0, <2>5, EnqueueElsewhere DEF Pass
    <3> QED BY <2>5, <3>1 DEF Pass, InputMoves, InputRests
  <2>6. CASE Deliver(w) \/ Fail(w) \/ Again(w)
      BY <2>5, <2>6 DEF Deliver, Fail, Again, Queues
  <2>7. CASE Refill(w)
    <3> DEFINE e == hold[w]
    <3>1. w \in Threads /\ pc[w] = "refill" /\ Enqueue("input", e, topic[e], w, "take", "take")
          /\ UNCHANGED <<topic, taken>>
        BY <2>7 DEF Refill, Pass, Threads
    <3>2. e \in Events /\ Held(e)
        BY <1>0, <3>1, ProcessorAssumption DEF HandsOK, ProcessorTypeOK, Held
    <3>3. e \notin queue["input"] /\ topic[e] \in Topics
        BY <1>0, <3>2 DEF IInv, EventInOnePlace, NewOK, Present, ProcessorTypeOK
    <3> HIDE DEF e
    <3>4. CASE Refuse(w, "take")
        BY <3>1, <3>4 DEF Refuse, queueVars, InputMoves, InputRests
    <3>5. CASE ~Refuse(w, "take")
      <4>1. topic' = [topic EXCEPT ![e] = topic[e]]
          BY <1>0, <3>1 DEF ProcessorTypeOK
      <4>2. GetsInput(e, topic[e])
          BY <1>0, <3>1, <3>2, <3>3, <3>5, <4>1, EnqueueInput DEF GetsInput
      <4> QED BY <3>2, <3>3, <4>2 DEF InputMoves
    <3> QED BY <3>4, <3>5
  <2> QED BY <1>4, <2>1, <2>2, <2>3, <2>4, <2>6, <2>7 DEF Worker
<1>5. CASE Stop
    BY <1>5 DEF Stop, queueVars, InputMoves, InputRests
<1> QED BY <1>1, <1>2, <1>3, <1>4, <1>5 DEF Next, Client

LEMMA InIntakes ==
    ASSUME NEW tp, NEW z
    PROVE  z \in Intakes(tp) <=>
              \E x \in Events : topic[x] = tp /\ \E n \in 1..Entries(x) : z = <<x, n>>
BY DEF Intakes

LEMMA InIntakesNext ==
    ASSUME NEW tp, NEW z
    PROVE  z \in Intakes(tp)' <=>
              \E x \in Events : topic'[x] = tp /\ \E n \in 1..Entries(x)' : z = <<x, n>>
BY DEF Intakes

LEMMA EntriesNat ==
    ProcessorTypeOK => \A x \in Events : Entries(x) \in Nat
BY DEF ProcessorTypeOK, Entries

\* Nothing is put in: what was counted stays counted.
LEMMA IntakesSame ==
    ASSUME ProcessorTypeOK, NEW tp \in Topics,
           \A x \in Events : Entries(x)' = Entries(x),
           \A x \in Events : topic'[x] = topic[x] \/ Entries(x) = 0
    PROVE  Intakes(tp)' = Intakes(tp)
<1>1. \A x \in Events : \A n \in 1..Entries(x) : topic'[x] = topic[x]
    BY EntriesNat
<1>2. ASSUME NEW z PROVE z \in Intakes(tp)' <=> z \in Intakes(tp)
    BY <1>1, InIntakes, InIntakesNext
<1> QED BY <1>2

\* A put adds one message to the intake of its topic, and none to the other.
LEMMA IntakesGrow ==
    ASSUME ProcessorTypeOK, NEW e \in Events, NEW tp \in Topics, GetsInput(e, tp)
    PROVE  /\ Intakes(tp)' = Intakes(tp) \cup {<<e, Entries(e) + 1>>}
           /\ <<e, Entries(e) + 1>> \notin Intakes(tp)
           /\ \A other \in Topics \ {tp} : Intakes(other)' = Intakes(other)
<1>1. /\ topic' = [topic EXCEPT ![e] = tp] /\ topic'[e] = tp
      /\ \A x \in Events : x # e => topic'[x] = topic[x]
      /\ topic[e] = tp \/ Entries(e) = 0
    BY DEF GetsInput, ProcessorTypeOK
<1>2. Entries(e)' = Entries(e) + 1 /\ \A x \in Events : x # e => Entries(x)' = Entries(x)
    BY DEF GetsInput, ProcessorTypeOK, Entries
<1>3. Entries(e) \in Nat
    BY EntriesNat
<1>4. \A n : n \in 1..Entries(e)' <=> n \in 1..Entries(e) \/ n = Entries(e) + 1
    BY <1>2, <1>3
<1>5. \A n \in 1..Entries(e) : topic[e] = tp
    BY <1>1, <1>3
<1>6. ASSUME NEW z PROVE z \in Intakes(tp)' <=> z \in Intakes(tp) \cup {<<e, Entries(e) + 1>>}
  <2>1. ASSUME NEW x \in Events, x # e
        PROVE  (topic'[x] = tp /\ \E n \in 1..Entries(x)' : z = <<x, n>>)
                  <=> (topic[x] = tp /\ \E n \in 1..Entries(x) : z = <<x, n>>)
      BY <1>1, <1>2, <2>1
  <2>2. (topic'[e] = tp /\ \E n \in 1..Entries(e)' : z = <<e, n>>)
           <=> (topic[e] = tp /\ \E n \in 1..Entries(e) : z = <<e, n>>) \/ z = <<e, Entries(e) + 1>>
      BY <1>1, <1>4, <1>5
  <2> QED BY <2>1, <2>2, InIntakes, InIntakesNext
<1>7. <<e, Entries(e) + 1>> \notin Intakes(tp)
    BY <1>3, InIntakes
<1>8. ASSUME NEW other \in Topics \ {tp} PROVE Intakes(other)' = Intakes(other)
  <2>1. ASSUME NEW z PROVE z \in Intakes(other)' <=> z \in Intakes(other)
    <3>1. ASSUME NEW x \in Events
          PROVE  (topic'[x] = other /\ \E n \in 1..Entries(x)' : z = <<x, n>>)
                    <=> (topic[x] = other /\ \E n \in 1..Entries(x) : z = <<x, n>>)
        BY <1>1, <1>2, <1>5
    <3> QED BY <3>1, InIntakes, InIntakesNext
  <2> QED BY <2>1
<1> QED BY <1>6, <1>7, <1>8

LEMMA IntakeKept ==
    IInv /\ IntakeOK /\ [Next]_vars => IntakeOK'
<1> SUFFICES ASSUME IInv, IntakeOK, [Next]_vars, NEW other \in Topics PROVE TopicHeapOK(other)'
    BY DEF IntakeOK
<1>0. ProcessorTypeOK /\ TopicHeapOK(other)
    BY DEF IInv, IntakeOK
<1>1. /\ filed["input"] \in [Topics -> Nat]
      /\ Capacity["input"] \in Nat
    BY <1>0, ProcessorAssumption DEF ProcessorTypeOK, Queues
<1>2. CASE InputRests
  <2>1. \A x \in Events : Entries(x)' = Entries(x)
      BY <1>2 DEF InputRests, Entries
  <2>2. Intakes(other)' = Intakes(other)
      BY <1>0, <1>2, <2>1, IntakesSame DEF InputRests
  <2> QED BY <1>0, <1>2, <2>2 DEF InputRests, TopicHeapOK, Intake
<1>3. ASSUME NEW e \in Events, GivesInput(e) PROVE TopicHeapOK(other)'
  <2>1. \A x \in Events : Entries(x)' = Entries(x)
      BY <1>0, <1>3 DEF GivesInput, Entries, ProcessorTypeOK
  <2>2. Intakes(other)' = Intakes(other)
      BY <1>0, <1>3, <2>1, IntakesSame DEF GivesInput
  <2> QED BY <1>0, <1>3, <2>2 DEF GivesInput, TopicHeapOK, Intake
<1>4. ASSUME NEW e \in Events, NEW tp \in Topics, GetsInput(e, tp) PROVE TopicHeapOK(other)'
  <2>1. CASE other # tp
    <3>1. Intakes(other)' = Intakes(other)
        BY <1>0, <1>4, <2>1, IntakesGrow
    <3>2. filed'["input"][other] = filed["input"][other]
        BY <1>1, <1>4, <2>1 DEF GetsInput
    <3>3. Intake(other) = filed["input"][other]
        BY <1>0, <1>4 DEF TopicHeapOK, GetsInput
    <3> QED BY <1>0, <3>1, <3>2, <3>3 DEF TopicHeapOK, Intake
  <2>2. CASE other = tp
    <3>1. /\ Intakes(tp)' = Intakes(tp) \cup {<<e, Entries(e) + 1>>}
          /\ <<e, Entries(e) + 1>> \notin Intakes(tp)
        BY <1>0, <1>4, IntakesGrow
    <3>2. IsFiniteSet(Intakes(tp)')
          /\ Cardinality(Intakes(tp)') = Cardinality(Intakes(tp)) + 1
        BY <1>0, <2>2, <3>1, FS_AddElement DEF TopicHeapOK
    <3>3. Intake(tp)' = Intake(tp) + 1
        BY <3>2 DEF Intake
    <3>4. Intake(tp) = filed["input"][tp] /\ filed["input"][tp] <= Capacity["input"]
        BY <1>0, <1>4, <2>2 DEF TopicHeapOK, GetsInput
    <3>5. CASE /\ filed["input"][tp] < Capacity["input"]
               /\ filed'["input"] = [filed["input"] EXCEPT ![tp] = @ + 1]
      <4>1. filed'["input"][tp] = filed["input"][tp] + 1
          BY <1>1, <3>5
      <4> QED BY <1>1, <2>2, <3>2, <3>3, <3>4, <3>5, <4>1 DEF TopicHeapOK
    <3>6. CASE /\ filed["input"][tp] >= Capacity["input"]
               /\ filed'["input"] = filed["input"]
               /\ lock'["input"] # None
        BY <1>1, <2>2, <3>2, <3>3, <3>4, <3>6 DEF TopicHeapOK
    <3> QED BY <1>4, <3>5, <3>6 DEF GetsInput
  <2> QED BY <2>1, <2>2
<1> QED BY <1>2, <1>3, <1>4, StepMovesInput DEF InputMoves

\* The input queue takes in as many messages of a topic as it has room for in all
\* its life; with one more it is locked for good (message_queue.py, enqueue).
THEOREM IntakeIsBounded == Spec => []IntakeIsForLife
<1>1. Init => IntakeOK
  <2> SUFFICES ASSUME Init, NEW tp \in Topics PROVE TopicHeapOK(tp)
      BY DEF IntakeOK
  <2>1. \A z : z \notin Intakes(tp)
      BY InIntakes, ProcessorAssumption DEF Init
  <2>2. Intakes(tp) = {} /\ filed["input"][tp] = 0 /\ Capacity["input"] \in Nat
      BY <2>1, ProcessorAssumption DEF Init, Queues
  <2> QED BY <2>2, FS_EmptySet DEF TopicHeapOK, Intake
<1>2. IInv /\ IntakeOK => IntakeIsForLife
  <2> SUFFICES ASSUME IInv, IntakeOK, NEW tp \in Topics
               PROVE /\ Intake(tp) <= Capacity["input"] + 1
                     /\ Intake(tp) = Capacity["input"] + 1 => lock["input"] # None
      BY DEF IntakeIsForLife
  <2>1. filed["input"][tp] \in Nat /\ Capacity["input"] \in Nat /\ TopicHeapOK(tp)
      BY ProcessorAssumption DEF IInv, ProcessorTypeOK, IntakeOK, Queues
  <2> QED BY <2>1 DEF TopicHeapOK
<1> QED BY <1>1, <1>2, IntakeKept, Invariance, PTL DEF Spec
=============================================================================
