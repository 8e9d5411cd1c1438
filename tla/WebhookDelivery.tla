-------------------------- MODULE WebhookDelivery --------------------------
(***************************************************************************)
(* The webhook delivery service (fireai/infrastructure/webhook_service.py):*)
(* publish_event hands an event to a pool of threads, one delivery for     *)
(* each subscription, and waits for them for a minute.  A delivery that    *)
(* fails max_retries times ends in the dead-letter queue, from which       *)
(* operators replay it.  The posts themselves fail at will.                *)
(***************************************************************************)
EXTENDS Naturals, Sequences, FiniteSets

CONSTANTS
    Events,
    Unencodable,   \* those whose data json.dumps cannot encode
    Subscriptions,
    Replayers,     \* operators who call replay_dead_letter
    PoolThreads,   \* of the executor of one event
    MaxRetries,    \* max_retries
    DlqMaxSize     \* dlq_max_size

ASSUME WebhookAssumption ==
    /\ Unencodable \subseteq Events
    /\ IsFiniteSet(Replayers)
    /\ PoolThreads \in Nat \ {0}
    /\ MaxRetries \in Nat \ {0}
    /\ DlqMaxSize \in Nat

VARIABLES
    subscribed,   \* the keys of _subscriptions
    publishing,   \* how far publish_event has come with an event
    delivery,     \* what has become of a delivery
    attempts,     \* the attempts of its thread
    dlq,          \* _dlq
    hand,         \* the entry a replayer has taken out of it (one or none)
    place         \* the index it was at, and whether its subscription was found

webhookVars == <<subscribed, publishing, delivery, attempts, dlq, hand, place>>

Deliveries == Events \X Subscriptions
Statuses == {"none", "queued", "trying", "delivered", "cancelled", "unsent",
             "dead", "evicted", "cleared"}
Settled == {"delivered", "cancelled", "unsent", "evicted", "cleared"}

Places == [index : Nat, found : BOOLEAN]
NoPlace == [index |-> 0, found |-> FALSE]

WebhookTypeOK ==
    /\ subscribed \in SUBSET Subscriptions
    /\ publishing \in [Events -> {"none", "waiting", "returned"}]
    /\ delivery \in [Deliveries -> Statuses]
    /\ attempts \in [Deliveries -> 0..MaxRetries]
    /\ dlq \in Seq(Deliveries)
    /\ hand \in [Replayers -> SUBSET Deliveries]
    /\ place \in [Replayers -> Places]

WebhookInit ==
    /\ subscribed = Subscriptions
    /\ publishing = [e \in Events |-> "none"]
    /\ delivery = [d \in Deliveries |-> "none"]
    /\ attempts = [d \in Deliveries |-> 0]
    /\ dlq = <<>>
    /\ hand = [r \in Replayers |-> {}]
    /\ place = [r \in Replayers |-> NoPlace]

-----------------------------------------------------------------------------
Subscribe(s) ==
    /\ subscribed' = subscribed \union {s}
    /\ UNCHANGED <<publishing, delivery, attempts, dlq, hand, place>>

Unsubscribe(s) ==
    /\ subscribed' = subscribed \ {s}
    /\ UNCHANGED <<publishing, delivery, attempts, dlq, hand, place>>

\* publish_event, up to as_completed.
Publish(e) ==
    /\ publishing[e] = "none"
    /\ publishing' = [publishing EXCEPT ![e] = IF subscribed = {} THEN "returned" ELSE "waiting"]
    /\ delivery' = [d \in Deliveries |->
                       IF d[1] = e /\ d[2] \in subscribed THEN "queued" ELSE delivery[d]]
    /\ UNCHANGED <<subscribed, attempts, dlq, hand, place>>

\* Mutant: the futures are not cancelled, and the pool is shut down.
ReturnUncancelled(e) ==
    /\ publishing[e] = "waiting"
    /\ publishing' = [publishing EXCEPT ![e] = "returned"]
    /\ UNCHANGED <<subscribed, delivery, attempts, dlq, hand, place>>

\* The minute is over, or every future is done.  Only a future that no thread
\* has begun can be cancelled; the threads that run go on.
Return(e) ==
    /\ publishing[e] = "waiting"
    /\ publishing' = [publishing EXCEPT ![e] = "returned"]
    /\ delivery' = [d \in Deliveries |->
                       IF d[1] = e /\ delivery[d] = "queued" THEN "cancelled" ELSE delivery[d]]
    /\ UNCHANGED <<subscribed, attempts, dlq, hand, place>>

Busy(e) == {d \in Deliveries : d[1] = e /\ delivery[d] = "trying"}

\* A thread of the pool takes up _deliver_with_retry.  If the event cannot be
\* encoded, that is all: the error is logged, and the delivery is neither tried nor
\* dead-lettered.
Begin(d) ==
    /\ delivery[d] = "queued" /\ publishing[d[1]] = "waiting"
    /\ Cardinality(Busy(d[1])) < PoolThreads
    /\ delivery' = [delivery EXCEPT ![d] = IF d[1] \in Unencodable THEN "unsent" ELSE "trying"]
    /\ UNCHANGED <<subscribed, publishing, attempts, dlq, hand, place>>

\* _deliver_once and the bookkeeping of the attempt.  An answer that is late or
\* lost is a failure like any other, although the event has arrived.
Attempt(d) ==
    /\ delivery[d] = "trying" /\ attempts[d] < MaxRetries
    /\ attempts' = [attempts EXCEPT ![d] = @ + 1]
    /\ \E status \in {"trying", "delivered"} :
          delivery' = [delivery EXCEPT ![d] = status]
    /\ UNCHANGED <<subscribed, publishing, dlq, hand, place>>

\* What the slice -dlq_max_size: drops of a queue that is too long: all but the
\* newest entries, but nothing when the limit is 0.
Excess(q) ==
    IF Len(q) > DlqMaxSize /\ DlqMaxSize # 0 THEN Len(q) - DlqMaxSize ELSE 0

\* Mutant: the queue is cut off only by one entry at a time, and only when full.
DeadLetterDropsOne(d) ==
    /\ delivery[d] = "trying" /\ attempts[d] = MaxRetries
    /\ LET q == Append(dlq, d)
           n == IF Len(dlq) = DlqMaxSize THEN 1 ELSE 0
           dropped == {q[i] : i \in 1..n} IN
       /\ dlq' = SubSeq(q, n + 1, Len(q))
       /\ delivery' = [x \in Deliveries |->
                          IF x \in dropped THEN "evicted"
                          ELSE IF x = d THEN "dead" ELSE delivery[x]]
    /\ UNCHANGED <<subscribed, publishing, attempts, hand, place>>

\* All attempts failed.  The audit record is left out.
DeadLetter(d) ==
    /\ delivery[d] = "trying" /\ attempts[d] = MaxRetries
    /\ LET q == Append(dlq, d)
           n == Excess(q)
           dropped == {q[i] : i \in 1..n} IN
       /\ dlq' = SubSeq(q, n + 1, Len(q))
       /\ delivery' = [x \in Deliveries |->
                          IF x \in dropped THEN "evicted"
                          ELSE IF x = d THEN "dead" ELSE delivery[x]]
    /\ UNCHANGED <<subscribed, publishing, attempts, hand, place>>

-----------------------------------------------------------------------------
(* replay_dead_letter and clear_dead_letter_queue                           *)

Without(q, i) == SubSeq(q, 1, i - 1) \o SubSeq(q, i + 1, Len(q))
With(q, i, d) == SubSeq(q, 1, i - 1) \o <<d>> \o SubSeq(q, i, Len(q))

\* Mutant: the entry stays in the queue until its delivery succeeds.
TakeOutLater(r, i) ==
    /\ hand[r] = {}
    /\ hand' = [hand EXCEPT ![r] = {dlq[i]}]
    /\ place' = [place EXCEPT ![r] = [index |-> i, found |-> FALSE]]
    /\ UNCHANGED <<dlq, subscribed, publishing, delivery, attempts>>

\* The entry is taken out under the lock; the subscription is looked up later.
TakeOut(r, i) ==
    /\ hand[r] = {}
    /\ hand' = [hand EXCEPT ![r] = {dlq[i]}]
    /\ place' = [place EXCEPT ![r] = [index |-> i, found |-> FALSE]]
    /\ dlq' = Without(dlq, i)
    /\ UNCHANGED <<subscribed, publishing, delivery, attempts>>

FindSubscription(r) ==
    /\ ~place[r].found
    /\ \E d \in hand[r] : d[2] \in subscribed
    /\ place' = [place EXCEPT ![r].found = TRUE]
    /\ UNCHANGED <<subscribed, publishing, delivery, attempts, dlq, hand>>

LetGo(r) ==
    /\ hand' = [hand EXCEPT ![r] = {}]
    /\ place' = [place EXCEPT ![r] = NoPlace]

\* One attempt only.
Redeliver(r) ==
    /\ place[r].found
    /\ \E d \in hand[r] : delivery' = [delivery EXCEPT ![d] = "delivered"]
    /\ LetGo(r)
    /\ UNCHANGED <<subscribed, publishing, attempts, dlq>>

\* The subscription is gone, or the attempt fails: the entry is inserted where
\* it was, or last if the queue has become shorter.
PutBack(r) ==
    /\ \E d \in hand[r] :
          /\ place[r].found \/ d[2] \notin subscribed
          /\ dlq' = IF place[r].index <= Len(dlq) THEN With(dlq, place[r].index, d)
                    ELSE Append(dlq, d)
    /\ LetGo(r)
    /\ UNCHANGED <<subscribed, publishing, delivery, attempts>>

ClearDlq ==
    /\ dlq # <<>>
    /\ dlq' = <<>>
    /\ delivery' = [d \in Deliveries |->
                       IF \E i \in DOMAIN dlq : dlq[i] = d THEN "cleared" ELSE delivery[d]]
    /\ UNCHANGED <<subscribed, publishing, attempts, hand, place>>

-----------------------------------------------------------------------------
Threads == \E d \in Deliveries : Begin(d) \/ Attempt(d) \/ DeadLetter(d)

Subscribing == \E s \in Subscriptions : Subscribe(s) \/ Unsubscribe(s)

Publishing == \E e \in Events : Publish(e) \/ Return(e)

Replaying ==
    \E r \in Replayers :
        \/ \E i \in DOMAIN dlq : TakeOut(r, i)
        \/ FindSubscription(r) \/ Redeliver(r) \/ PutBack(r)

WebhookNext == Subscribing \/ Publishing \/ Threads \/ Replaying \/ ClearDlq

\* The threads of the pools run, and publish_event returns after a minute.  It is
\* enough that some thread goes on, because each has only so many attempts.
WebhookFairness ==
    /\ WF_webhookVars(\E d \in Deliveries : Attempt(d) \/ DeadLetter(d))
    /\ WF_webhookVars(\E e \in Events : Return(e))

WebhookSpec == WebhookInit /\ [][WebhookNext]_webhookVars /\ WebhookFairness

-----------------------------------------------------------------------------
(* Properties                                                               *)

\* However replays, evictions and new dead letters interleave, an entry is at
\* one place of the queue or in one replayer's hands, and nothing else is.
DeadLetterHasOnePlace ==
    \A d \in Deliveries :
        LET inQueue == {i \in DOMAIN dlq : dlq[i] = d}
            inHands == {r \in Replayers : d \in hand[r]} IN
        IF delivery[d] = "dead"
        THEN \/ inHands = {} /\ \E i \in DOMAIN dlq : inQueue = {i}
             \/ inQueue = {} /\ \E r \in Replayers : inHands = {r}
        ELSE inQueue = {} /\ inHands = {}

\* Entries that are put back after a failed replay evict nothing, so that the
\* queue outgrows dlq_max_size; but never by more than one entry a replayer.
DlqOutgrowsByReplays ==
    DlqMaxSize # 0 => Len(dlq) <= DlqMaxSize + Cardinality(Replayers)

\* What was delivered, cancelled, unsent, evicted or cleared stays so: a replay neither
\* brings an entry back nor delivers it a second time.
SettledIsForGood ==
    [][\A d \in Deliveries : delivery[d] \in Settled => delivery'[d] = delivery[d]]_webhookVars

LifeOf == [d \in Deliveries |-> IF delivery[d] \in {"queued", "trying"} THEN "pending"
                                 ELSE delivery[d]]

DeliveryLife == INSTANCE DeliveryLives WITH life <- LifeOf

\* However attempts, evictions, clearings and several replays interleave, a delivery
\* has one of the lives of DeliveryLives: each dead letter ends in one way only, and
\* none is pushed out while there is room; and an event that cannot be encoded has none.
LivesSpec == DeliveryLife!LivesSpec

\* Every delivery of an event comes to an end, be it in the dead-letter queue, also
\* when the publisher has long gone away, or unsent, when the event cannot be encoded.
EveryDeliveryEnds ==
    \A e \in Events :
        publishing[e] = "waiting" ~>
            \A d \in Deliveries : d[1] = e => delivery[d] \in Settled \union {"none", "dead"}
=============================================================================
