--------------------------- MODULE EventProcessor ---------------------------
(***************************************************************************)
(* EventProcessor of facp_distributed/event_bus/event_processor.py over    *)
(* its four MessageQueues (message_queue.py).                              *)
(*                                                                         *)
(* A MessageQueue keeps two heaps under one lock: the main one, which the  *)
(* processor takes from, and one per topic, which it does not.  Both have  *)
(* the queue's capacity, and the put into the second has no timeout.       *)
(* Which message a queue hands out first is left open, and so is what a    *)
(* stage or a filter answers.  An event stands for the message it is in.   *)
(***************************************************************************)
EXTENDS Naturals, FiniteSets

CONSTANTS Events,           \* each is submitted once
          Clients,          \* threads that call submit_event
          Workers,          \* threads in _processing_worker
          Capacity,         \* max_size of each queue
          MaxRetries,       \* max_retries
          FailureThreshold, \* failures in the window that open the circuit
          None

Queues == {"input", "output", "retry", "dead"}
Topics == {"events", "retry_events"}
Threads == Clients \cup Workers

ASSUME ProcessorAssumption ==
    /\ Clients \cap Workers = {}
    /\ None \notin Events \cup Threads \cup Topics
    /\ Capacity \in [Queues -> Nat \ {0}]
    /\ MaxRetries \in Nat
    /\ FailureThreshold \in Nat \ {0}

VARIABLES queue,    \* the events in the main heap of each queue
          filed,    \* length of the topic heaps of each queue
          lock,     \* the thread that waits in a put while it has the lock
          topic,    \* the topic of each event's message; None: not submitted
          attempts, \* message.attempts
          taken,    \* history: how often a worker has taken the event up
          running,
          circuit,  \* circuit_state
          failures, \* failure_counts, all told
          pc,       \* where each thread is
          hold,     \* the message in its hands
          seen,     \* the failure records a worker has begun to go through
          walk      \* which those are: still the current ones?

queueVars == <<queue, filed, lock>>
circuitVars == <<circuit, failures, seen, walk>>
vars == <<queueVars, topic, attempts, taken, running, circuitVars, pc, hold>>

Places == {"submit", "divert", "take", "gate", "stages", "purge", "swap", "count",
           "deliver", "fail", "again", "retake", "refill", "blocked", "off"}

ProcessorTypeOK ==
    /\ queue \in [Queues -> SUBSET Events]
    /\ filed \in [Queues -> [Topics -> Nat]]
    /\ lock \in [Queues -> Threads \cup {None}]
    /\ topic \in [Events -> Topics \cup {None}]
    /\ attempts \in [Events -> Nat]
    /\ taken \in [Events -> Nat]
    /\ running \in BOOLEAN
    /\ circuit \in {"closed", "open", "half_open"}
    /\ failures \in Nat
    /\ pc \in [Threads -> Places]
    /\ hold \in [Threads -> Events \cup {None}]
    /\ seen \in [Workers -> Nat]
    /\ walk \in [Workers -> {"none", "current", "old", "broken"}]

\* __init__, and start with the threads it creates.
Init ==
    /\ queue = [q \in Queues |-> {}]
    /\ filed = [q \in Queues |-> [t \in Topics |-> 0]]
    /\ lock = [q \in Queues |-> None]
    /\ topic = [e \in Events |-> None]
    /\ attempts = [e \in Events |-> 0]
    /\ taken = [e \in Events |-> 0]
    /\ running = TRUE
    /\ circuit = "closed"
    /\ failures = 0
    /\ pc = [t \in Threads |-> IF t \in Workers THEN "take" ELSE "submit"]
    /\ hold = [t \in Threads |-> None]
    /\ seen = [w \in Workers |-> 0]
    /\ walk = [w \in Workers |-> "none"]

-----------------------------------------------------------------------------
(* MessageQueue.                                                            *)

IsFull(q) == Cardinality(queue[q]) >= Capacity[q]

Goto(t, where) == pc' = [pc EXCEPT ![t] = where]

Holds(t, m) == hold' = [hold EXCEPT ![t] = m]

Refuse(t, next) ==
    /\ Goto(t, next)
    /\ UNCHANGED queueVars

\* The topic heap has room: both puts return.
Accept(q, e, tp, t, next) ==
    /\ queue' = [queue EXCEPT ![q] = @ \cup {e}]
    /\ filed' = [filed EXCEPT ![q][tp] = @ + 1]
    /\ Goto(t, next)
    /\ UNCHANGED lock

\* The topic heap is full: the put waits for room, inside "with self.lock".
Block(q, e, t) ==
    /\ queue' = [queue EXCEPT ![q] = @ \cup {e}]
    /\ lock' = [lock EXCEPT ![q] = t]
    /\ Goto(t, "blocked")
    /\ UNCHANGED filed

\* Mutant: the put into the topic heap gives up the lock when it must wait.
EnqueueOverfills(q, e, tp, t, full, next) ==
    /\ lock[q] = None
    /\ \/ IsFull(q) /\ Refuse(t, full)
       \/ ~IsFull(q) /\ Accept(q, e, tp, t, next)

\* MessageQueue.enqueue.  The thread goes on at full when it is refused.
Enqueue(q, e, tp, t, full, next) ==
    /\ lock[q] = None
    /\ \/ IsFull(q) /\ Refuse(t, full)
       \/ ~IsFull(q) /\ filed[q][tp] < Capacity[q] /\ Accept(q, e, tp, t, next)
       \/ ~IsFull(q) /\ filed[q][tp] >= Capacity[q] /\ Block(q, e, t)

\* Mutant: looks at the first message and leaves it there.
DequeuePeeks(q, e) ==
    /\ lock[q] = None
    /\ e \in queue[q]
    /\ UNCHANGED queueVars

\* Mutant: takes from the heap, which is thread-safe by itself, without the lock.
DequeueUnlocked(q, e) ==
    /\ e \in queue[q]
    /\ queue' = [queue EXCEPT ![q] = @ \ {e}]
    /\ UNCHANGED <<filed, lock>>

\* MessageQueue.dequeue without a topic.  Nothing here acknowledges, so the
\* id taken is always one of self.messages.
Dequeue(q, e) ==
    /\ lock[q] = None
    /\ e \in queue[q]
    /\ queue' = [queue EXCEPT ![q] = @ \ {e}]
    /\ UNCHANGED <<filed, lock>>

-----------------------------------------------------------------------------
(* submit_event                                                             *)

\* When the input queue is full, a second message with a topic of its own.
Submit(c, e) ==
    /\ pc[c] = "submit" /\ topic[e] = None
    /\ Enqueue("input", e, "events", c, "divert", "submit")
    /\ IF pc'[c] = "divert"
       THEN topic' = [topic EXCEPT ![e] = "retry_events"] /\ Holds(c, e)
       ELSE topic' = [topic EXCEPT ![e] = "events"] /\ UNCHANGED hold
    /\ UNCHANGED <<attempts, taken, running, circuitVars>>

\* Whether the retry queue takes it is not looked at.
Divert(c) ==
    /\ pc[c] = "divert"
    /\ Enqueue("retry", hold[c], topic[hold[c]], c, "submit", "submit")
    /\ Holds(c, None)
    /\ UNCHANGED <<topic, attempts, taken, running, circuitVars>>

-----------------------------------------------------------------------------
(* _processing_worker and _process_single_event                             *)

\* The loop ends when stop has reset running.
Leave(w) ==
    /\ pc[w] = "take" /\ ~running
    /\ Goto(w, "off")
    /\ UNCHANGED <<queueVars, topic, attempts, taken, running, circuitVars, hold>>

Take(w) ==
    /\ pc[w] = "take" /\ running
    /\ \E e \in queue["input"] :
         /\ Dequeue("input", e)
         /\ Holds(w, e)
         /\ taken' = [taken EXCEPT ![e] = @ + 1]
    /\ Goto(w, "gate")
    /\ UNCHANGED <<topic, attempts, running, circuitVars>>

TakeNothing(w) ==
    /\ pc[w] = "take" /\ running
    /\ lock["input"] = None /\ queue["input"] = {}
    /\ Goto(w, "retake")
    /\ UNCHANGED <<queueVars, topic, attempts, taken, running, circuitVars, hold>>

\* DROP: a filter refuses the event.
Filter(w) ==
    /\ pc[w] = "gate"
    /\ Goto(w, "retake") /\ Holds(w, None)
    /\ UNCHANGED <<queueVars, topic, attempts, taken, running, circuitVars>>

\* A filter or an enricher raises, which is a failure whatever the circuit is.
FilterRaises(w) ==
    /\ pc[w] = "gate"
    /\ Goto(w, "purge")
    /\ UNCHANGED <<queueVars, topic, attempts, taken, running, circuitVars, hold>>

\* _is_circuit_open.  An open circuit becomes half open when the window has
\* passed, and lets everything through from then on.
Gate(w) ==
    /\ pc[w] = "gate"
    /\ \/ circuit = "open" /\ Goto(w, "again") /\ UNCHANGED circuit
       \/ circuit = "open" /\ Goto(w, "stages") /\ circuit' = "half_open"
       \/ circuit # "open" /\ Goto(w, "stages") /\ UNCHANGED circuit
    /\ UNCHANGED <<queueVars, topic, attempts, taken, running, failures, seen, walk, hold>>

\* SUCCESS; a stage that answers False; a stage that raises.
RunStages(w) ==
    /\ pc[w] = "stages"
    /\ \E outcome \in {"deliver", "fail", "purge"} : Goto(w, outcome)
    /\ UNCHANGED <<queueVars, topic, attempts, taken, running, circuitVars, hold>>

\* _record_failure without a lock: a comprehension begins to go through the
\* records.  It will keep those that are young enough.
Purge(w) ==
    /\ pc[w] = "purge"
    /\ seen' = [seen EXCEPT ![w] = failures]
    /\ walk' = [walk EXCEPT ![w] = "current"]
    /\ Goto(w, "swap")
    /\ UNCHANGED <<queueVars, topic, attempts, taken, running, circuit, failures, hold>>

\* What a walk through the current records is when the records change.
Walks(w, now) ==
    walk' = [v \in Workers |-> IF v = w THEN "none"
                               ELSE IF walk[v] = "current" THEN now ELSE walk[v]]

\* The young records replace whatever is there now.
Swap(w) ==
    /\ pc[w] = "swap"
    /\ failures' \in 0..seen[w]
    /\ Walks(w, "old")
    /\ Goto(w, "count")
    /\ UNCHANGED <<queueVars, topic, attempts, taken, running, circuit, seen, hold>>

\* A record was added to the dictionary gone through: the iteration raises.
\* The loop's handler prints the error, and nobody has the event any more.
SwapRaises(w) ==
    /\ pc[w] = "swap" /\ walk[w] = "broken"
    /\ Walks(w, "current")
    /\ Goto(w, "take") /\ Holds(w, None)
    /\ UNCHANGED <<queueVars, topic, attempts, taken, running, circuit, failures, seen>>

\* The new failure is added to the records that are there now.
Count(w) ==
    /\ pc[w] = "count"
    /\ failures' = failures + 1
    /\ circuit' = IF failures' >= FailureThreshold THEN "open" ELSE circuit
    /\ Walks(w, "broken")
    /\ Goto(w, "fail")
    /\ UNCHANGED <<queueVars, topic, attempts, taken, running, seen, hold>>

\* The worker puts the event into q, whether or not q takes it.
Pass(w, q, next) ==
    /\ Enqueue(q, hold[w], topic[hold[w]], w, next, next)
    /\ Holds(w, None)
    /\ UNCHANGED <<topic, attempts, taken, running, circuitVars>>

Deliver(w) == pc[w] = "deliver" /\ Pass(w, "output", "retake")

\* Mutant: compares before the attempt that has just failed is counted in.
FailTooSoon(w) ==
    /\ pc[w] = "fail"
    /\ Pass(w, IF attempts[hold[w]] + 1 >= MaxRetries THEN "dead" ELSE "retry", "retake")

Fail(w) ==
    /\ pc[w] = "fail"
    /\ Pass(w, IF attempts[hold[w]] >= MaxRetries THEN "dead" ELSE "retry", "retake")

\* Mutant: the branch for RETRY is missing.
AgainForgets(w) ==
    /\ pc[w] = "again"
    /\ Goto(w, "retake") /\ Holds(w, None)
    /\ UNCHANGED <<queueVars, topic, attempts, taken, running, circuitVars>>

\* RETRY: however many attempts there were.
Again(w) == pc[w] = "again" /\ Pass(w, "retry", "retake")

\* Mutant: attempts counts down from its initial value.
RetakeCountsDown(w) ==
    /\ pc[w] = "retake"
    /\ \E e \in queue["retry"] :
         /\ Dequeue("retry", e)
         /\ Holds(w, e)
         /\ attempts' = [attempts EXCEPT ![e] = @ - 1]
    /\ Goto(w, "refill")
    /\ UNCHANGED <<topic, taken, running, circuitVars>>

\* Mutant: takes up dead letters as well.
RetakeDead(w) ==
    /\ pc[w] = "retake"
    /\ \E q \in {"retry", "dead"}, e \in Events :
         /\ Dequeue(q, e)
         /\ Holds(w, e)
         /\ attempts' = [attempts EXCEPT ![e] = @ + 1]
    /\ Goto(w, "refill")
    /\ UNCHANGED <<topic, taken, running, circuitVars>>

\* Mutant: waits for a batch.
RetakeWhenFull(w) ==
    /\ pc[w] = "retake" /\ IsFull("retry")
    /\ \E e \in queue["retry"] :
         /\ Dequeue("retry", e)
         /\ Holds(w, e)
         /\ attempts' = [attempts EXCEPT ![e] = @ + 1]
    /\ Goto(w, "refill")
    /\ UNCHANGED <<topic, taken, running, circuitVars>>

\* The retry queue is looked at once in each round.
Retake(w) ==
    /\ pc[w] = "retake"
    /\ \E e \in queue["retry"] :
         /\ Dequeue("retry", e)
         /\ Holds(w, e)
         /\ attempts' = [attempts EXCEPT ![e] = @ + 1]
    /\ Goto(w, "refill")
    /\ UNCHANGED <<topic, taken, running, circuitVars>>

RetakeNothing(w) ==
    /\ pc[w] = "retake" /\ queue["retry"] = {}
    /\ Goto(w, "take")
    /\ UNCHANGED <<queueVars, topic, attempts, taken, running, circuitVars, hold>>

Refill(w) == pc[w] = "refill" /\ Pass(w, "input", "take")

\* stop, from any thread.  A thread that is blocked is not joined.
Stop ==
    /\ running
    /\ running' = FALSE
    /\ UNCHANGED <<queueVars, topic, attempts, taken, circuitVars, pc, hold>>

-----------------------------------------------------------------------------
Client(c) == (\E e \in Events : Submit(c, e)) \/ Divert(c)

Worker(w) ==
    \/ Leave(w) \/ Take(w) \/ TakeNothing(w)
    \/ Filter(w) \/ FilterRaises(w) \/ Gate(w) \/ RunStages(w)
    \/ Purge(w) \/ Swap(w) \/ SwapRaises(w) \/ Count(w)
    \/ Deliver(w) \/ Fail(w) \/ Again(w)
    \/ Retake(w) \/ RetakeNothing(w) \/ Refill(w)

Next == (\E c \in Clients : Client(c)) \/ (\E w \in Workers : Worker(w)) \/ Stop

Spec == Init /\ [][Next]_vars

\* Threads are scheduled; nobody has to submit.
FairSpec ==
    /\ Spec
    /\ \A w \in Workers : WF_vars(Worker(w))
    /\ \A c \in Clients : WF_vars(Divert(c))

-----------------------------------------------------------------------------
(* Properties                                                               *)

Held(e) == \E t \in Threads : hold[t] = e
Present(e) == Held(e) \/ \E q \in Queues : e \in queue[q]
Pending(e) == Held(e) \/ e \in queue["input"] \cup queue["retry"]

\* A message is in one queue, or in the hands of one thread, never in two
\* places: no event is processed by two workers at once, retried after it was
\* delivered, or delivered and dead (dequeue, the four ways out of the loop).
EventInOnePlace ==
    \A e \in Events :
        /\ \A p, q \in Queues : e \in queue[p] /\ e \in queue[q] => p = q
        /\ \A t, u \in Threads : hold[t] = e /\ hold[u] = e => t = u
        /\ Held(e) => \A q \in Queues : e \notin queue[q]

\* Only an event that a worker has taken up again max_retries times gets to the
\* dead-letter queue.  It need not have failed as often: rounds of an open
\* circuit count.
DeadEventsWereRetried ==
    \A e \in queue["dead"] :
        taken[e] >= IF topic[e] = "events" THEN MaxRetries + 1 ELSE MaxRetries

\* How often an event has been put into the input queue: it has been taken out as
\* often, or is still there.
Entries(e) == taken[e] + (IF e \in queue["input"] THEN 1 ELSE 0)

\* The messages of a topic that have been put into the input queue so far, each
\* numbered by the entries of its event.
Intakes(tp) == UNION {{e} \X (1..Entries(e)) : e \in {x \in Events : topic[x] = tp}}

Intake(tp) == Cardinality(Intakes(tp))

\* In all its life the input queue takes in as many messages of a topic as it
\* has room for, retries included.  One more, and it is locked for good, although
\* it may be all but empty: the topic heap is never taken from.
IntakeIsForLife ==
    \A tp \in Topics :
        /\ Intake(tp) <= Capacity["input"] + 1
        /\ Intake(tp) = Capacity["input"] + 1 => lock["input"] # None

\* A queue in which a put waits for room never changes again: what could make
\* room needs the lock that the waiting thread has.
JamIsForGood ==
    [][\A q \in Queues : lock[q] # None => UNCHANGED <<queue[q], lock[q]>>]_vars

\* An event leaves the processor without having been delivered or reported dead
\* only when a filter drops it, when the queue it is to go to is full, or when two
\* workers record failures at once.  A stop, a retry or an open circuit loses none.
Refuses(t) ==
    \/ pc[t] \in {"divert", "again"} /\ IsFull("retry")
    \/ pc[t] = "deliver" /\ IsFull("output")
    \/ pc[t] = "fail" /\ IsFull(IF attempts[hold[t]] >= MaxRetries THEN "dead" ELSE "retry")
    \/ pc[t] = "refill" /\ IsFull("input")

LossIsExplained ==
    [][\A e \in Events : Present(e) /\ ~Present(e)' =>
        \E t \in Threads :
            /\ hold[t] = e
            /\ \/ pc[t] = "gate"
               \/ pc[t] = "swap" /\ walk[t] = "broken"
               \/ Refuses(t)]_vars

\* What has become of each event, as the queues tell it.
Fate(e) ==
    IF topic[e] = None THEN "new"
    ELSE IF e \in queue["output"] THEN "delivered"
    ELSE IF e \in queue["dead"] THEN "dead"
    ELSE IF Pending(e) THEN "pending" ELSE "lost"

EventFateOf == [e \in Events |-> Fate(e)]

Fates == INSTANCE EventFates WITH fate <- EventFateOf

\* The processor implements the life of an event: it has one fate, and keeps it.
\* Nothing that is delivered, dead or lost is ever pending again.
FatesSpec == Fates!FatesSpec

Jammed == \E q \in Queues : lock[q] # None

\* Every event that was submitted is settled in the end (delivered, dead or lost),
\* unless the processor is stopped or jams.  An open circuit puts no bound on the
\* retries; what bounds them is the topic heap.
EveryEventIsSettled ==
    \A e \in Events : topic[e] # None ~> (~Pending(e) \/ ~running \/ Jammed)

=============================================================================
