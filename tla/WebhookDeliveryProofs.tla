----------------------- MODULE WebhookDeliveryProofs -----------------------
(***************************************************************************)
(* Proofs about WebhookDelivery, for any events, subscriptions, replayers, *)
(* retries and sizes of the dead-letter queue.                             *)
(***************************************************************************)
EXTENDS WebhookDelivery, SequenceTheorems, FiniteSetTheorems, TLAPS

(* What is in a queue, whatever the order. *)
Entries(q) == {q[i] : i \in 1..Len(q)}

Distinct(q) == \A i, j \in 1..Len(q) : q[i] = q[j] => i = j

(* Hands into which an entry has been taken. *)
Full == {r \in Replayers : hand[r] # {}}

(* A delivery is queued only by the publication of its event. *)
UnpublishedIsNone ==
    \A d \in Deliveries : publishing[d[1]] = "none" => delivery[d] = "none"

(* The dead deliveries are those of the queue and of the hands; these are    *)
(* apart, and no entry is in them twice.                                     *)
Held ==
    /\ Distinct(dlq)
    /\ \A r \in Replayers : \A d, e \in hand[r] : d = e
    /\ \A r \in Replayers : hand[r] # {} => place[r].index >= 1
    /\ \A r \in Replayers : hand[r] \cap Entries(dlq) = {}
    /\ \A r, s \in Replayers : r # s => hand[r] \cap hand[s] = {}
    /\ \A d \in Deliveries :
          delivery[d] = "dead" <=> d \in Entries(dlq) \/ \E r \in Replayers : d \in hand[r]

(* A full hand has left room for its entry. *)
RoomForHands ==
    DlqMaxSize # 0 => Len(dlq) + Cardinality(Full) <= DlqMaxSize + Cardinality(Replayers)

WebhookInv == WebhookTypeOK /\ UnpublishedIsNone /\ Held /\ RoomForHands

-----------------------------------------------------------------------------
(* What the operations of the queue make of its entries.                    *)

LEMMA WithoutEntry ==
    ASSUME NEW S, NEW q \in Seq(S), NEW i \in 1..Len(q)
    PROVE  /\ Without(q, i) \in Seq(S)
           /\ Len(Without(q, i)) = Len(q) - 1
           /\ \A j \in 1..(Len(q) - 1) :
                 Without(q, i)[j] = IF j < i THEN q[j] ELSE q[j + 1]
<1> DEFINE a == SubSeq(q, 1, i - 1)
           b == SubSeq(q, i + 1, Len(q))
<1>0. Len(q) \in Nat /\ i \in Nat /\ i >= 1 /\ i <= Len(q)
  BY LenProperties
<1>1. a \in Seq(S) /\ Len(a) = i - 1 /\ \A j \in 1..(i - 1) : a[j] = q[j]
  BY <1>0, SubSeqProperties
<1>2. b \in Seq(S) /\ Len(b) = Len(q) - i /\ \A j \in 1..(Len(q) - i) : b[j] = q[i + j]
  BY <1>0, SubSeqProperties
<1>3. Without(q, i) = a \o b
  BY DEF Without
<1> HIDE DEF a, b
<1>4. /\ a \o b \in Seq(S)
      /\ Len(a \o b) = Len(a) + Len(b)
      /\ \A j \in 1..Len(a) + Len(b) : (a \o b)[j] = IF j <= Len(a) THEN a[j] ELSE b[j - Len(a)]
  BY <1>1, <1>2, ConcatProperties
<1>5. ASSUME NEW j \in 1..(Len(q) - 1)
      PROVE  (a \o b)[j] = IF j < i THEN q[j] ELSE q[j + 1]
  <2>1. CASE j < i
    BY <1>0, <1>1, <1>2, <1>4, <2>1
  <2>2. CASE ~(j < i)
    <3>1. (a \o b)[j] = b[j - (i - 1)]
      BY <1>0, <1>1, <1>2, <1>4, <2>2
    <3>2. j - (i - 1) \in 1..(Len(q) - i) /\ i + (j - (i - 1)) = j + 1
      BY <1>0, <2>2
    <3> QED
      BY <1>2, <2>2, <3>1, <3>2
  <2> QED
    BY <2>1, <2>2
<1> QED
  BY <1>0, <1>1, <1>2, <1>3, <1>4, <1>5

LEMMA WithEntry ==
    ASSUME NEW S, NEW q \in Seq(S), NEW i \in 1..Len(q), NEW d \in S
    PROVE  /\ With(q, i, d) \in Seq(S)
           /\ Len(With(q, i, d)) = Len(q) + 1
           /\ \A j \in 1..(Len(q) + 1) :
                 With(q, i, d)[j] = IF j < i THEN q[j] ELSE IF j = i THEN d ELSE q[j - 1]
<1> DEFINE a == SubSeq(q, 1, i - 1)
           b == SubSeq(q, i, Len(q))
           c == a \o <<d>>
<1>0. Len(q) \in Nat /\ i \in Nat /\ i >= 1 /\ i <= Len(q)
  BY LenProperties
<1>1. a \in Seq(S) /\ Len(a) = i - 1 /\ \A j \in 1..(i - 1) : a[j] = q[j]
  BY <1>0, SubSeqProperties
<1>2. b \in Seq(S) /\ Len(b) = Len(q) - i + 1 /\ \A j \in 1..(Len(q) - i + 1) : b[j] = q[i + j - 1]
  BY <1>0, SubSeqProperties
<1>3. With(q, i, d) = c \o b
  BY DEF With
<1> HIDE DEF a, b
<1>4. <<d>> \in Seq(S) /\ Len(<<d>>) = 1 /\ <<d>>[1] = d
  OBVIOUS
<1>5. /\ c \in Seq(S)
      /\ Len(c) = i
      /\ \A j \in 1..i : c[j] = IF j <= i - 1 THEN a[j] ELSE <<d>>[j - (i - 1)]
  BY <1>0, <1>1, <1>4, ConcatProperties
<1>6. \A j \in 1..i : c[j] = IF j < i THEN q[j] ELSE d
  BY <1>0, <1>1, <1>4, <1>5
<1> HIDE DEF c
<1>7. /\ c \o b \in Seq(S)
      /\ Len(c \o b) = Len(c) + Len(b)
      /\ \A j \in 1..Len(c) + Len(b) : (c \o b)[j] = IF j <= Len(c) THEN c[j] ELSE b[j - Len(c)]
  BY <1>2, <1>5, ConcatProperties
<1>8. ASSUME NEW j \in 1..(Len(q) + 1)
      PROVE  (c \o b)[j] = IF j < i THEN q[j] ELSE IF j = i THEN d ELSE q[j - 1]
  <2>1. CASE j <= i
    BY <1>0, <1>2, <1>5, <1>6, <1>7, <2>1
  <2>2. CASE ~(j <= i)
    <3>1. (c \o b)[j] = b[j - i]
      BY <1>0, <1>2, <1>5, <1>7, <2>2
    <3>2. j - i \in 1..(Len(q) - i + 1) /\ i + (j - i) - 1 = j - 1
      BY <1>0, <2>2
    <3> QED
      BY <1>0, <1>2, <2>2, <3>1, <3>2
  <2> QED
    BY <2>1, <2>2
<1> QED
  BY <1>0, <1>2, <1>3, <1>5, <1>7, <1>8

(* Taking out the entry at i takes it out of the set of entries. *)
LEMMA WithoutTakesOne ==
    ASSUME NEW S, NEW q \in Seq(S), NEW i \in 1..Len(q), Distinct(q)
    PROVE  /\ Distinct(Without(q, i))
           /\ Entries(Without(q, i)) = Entries(q) \ {q[i]}
<1> DEFINE p == Without(q, i)
<1>1. /\ Len(p) = Len(q) - 1
      /\ \A j \in 1..(Len(q) - 1) : p[j] = IF j < i THEN q[j] ELSE q[j + 1]
  BY WithoutEntry
<1>2. Len(q) \in Nat /\ i \in Nat /\ i >= 1 /\ i <= Len(q)
  BY LenProperties
<1> HIDE DEF p
<1>3. Distinct(p)
  <2> SUFFICES ASSUME NEW j \in 1..Len(p), NEW k \in 1..Len(p), p[j] = p[k] PROVE j = k
    BY DEF Distinct
  <2> DEFINE At(n) == IF n < i THEN n ELSE n + 1
  <2>1. At(j) \in 1..Len(q) /\ At(k) \in 1..Len(q) /\ q[At(j)] = q[At(k)]
    BY <1>1, <1>2
  <2>2. At(j) = At(k)
    BY <2>1 DEF Distinct
  <2> QED
    BY <1>1, <1>2, <2>2
<1>4. ASSUME NEW j \in 1..Len(p) PROVE p[j] \in Entries(q) \ {q[i]}
  <2> DEFINE n == IF j < i THEN j ELSE j + 1
  <2>1. n \in 1..Len(q) /\ n # i /\ p[j] = q[n]
    BY <1>1, <1>2
  <2> QED
    BY <2>1 DEF Distinct, Entries
<1>5. ASSUME NEW n \in 1..Len(q), q[n] # q[i] PROVE q[n] \in Entries(p)
  <2> DEFINE j == IF n < i THEN n ELSE n - 1
  <2>1. n # i
    BY <1>5
  <2>2. j \in 1..Len(p) /\ p[j] = q[n]
    BY <1>1, <1>2, <2>1
  <2> QED
    BY <2>2 DEF Entries
<1> QED
  BY <1>3, <1>4, <1>5 DEF Entries, p

(* Putting a new entry in, before another or last, adds it to the entries. *)
LEMMA WithAddsOne ==
    ASSUME NEW S, NEW q \in Seq(S), NEW i \in 1..Len(q), NEW d \in S,
           Distinct(q), d \notin Entries(q)
    PROVE  /\ Distinct(With(q, i, d))
           /\ Entries(With(q, i, d)) = Entries(q) \cup {d}
<1> DEFINE p == With(q, i, d)
<1>1. /\ p \in Seq(S)
      /\ Len(p) = Len(q) + 1
      /\ \A j \in 1..(Len(q) + 1) : p[j] = IF j < i THEN q[j] ELSE IF j = i THEN d ELSE q[j - 1]
  BY WithEntry
<1>2. Len(q) \in Nat /\ i \in Nat /\ i >= 1 /\ i <= Len(q)
  BY LenProperties
<1> HIDE DEF p
<1> DEFINE At(n) == IF n < i THEN n ELSE n - 1
<1>3. ASSUME NEW j \in 1..Len(p), j # i
      PROVE  At(j) \in 1..Len(q) /\ p[j] = q[At(j)]
  BY <1>1, <1>2, <1>3
<1>4. i \in 1..Len(p) /\ p[i] = d
  BY <1>1, <1>2
<1>5. Distinct(p)
  <2> SUFFICES ASSUME NEW j \in 1..Len(p), NEW k \in 1..Len(p), p[j] = p[k] PROVE j = k
    BY DEF Distinct
  <2>1. CASE j # i /\ k # i
    <3>1. At(j) = At(k)
      BY <1>3, <2>1 DEF Distinct
    <3> QED
      BY <1>1, <1>2, <2>1, <3>1
  <2>2. CASE j = i \/ k = i
    <3>1. \A n \in 1..Len(p) : n # i => p[n] \in Entries(q)
      BY <1>3 DEF Entries
    <3> QED
      BY <1>4, <2>2, <3>1
  <2> QED
    BY <2>1, <2>2
<1>6. ASSUME NEW j \in 1..Len(p) PROVE p[j] \in Entries(q) \cup {d}
  BY <1>3, <1>4 DEF Entries
<1>7. ASSUME NEW n \in 1..Len(q) PROVE q[n] \in Entries(p)
  <2> DEFINE j == IF n < i THEN n ELSE n + 1
  <2>1. j \in 1..Len(p) /\ p[j] = q[n]
    BY <1>1, <1>2
  <2> QED
    BY <2>1 DEF Entries
<1>8. d \in Entries(p)
  BY <1>4 DEF Entries
<1> QED
  BY <1>5, <1>6, <1>7, <1>8 DEF Entries, p

LEMMA AppendAddsOne ==
    ASSUME NEW S, NEW q \in Seq(S), NEW d \in S, Distinct(q), d \notin Entries(q)
    PROVE  /\ Distinct(Append(q, d))
           /\ Entries(Append(q, d)) = Entries(q) \cup {d}
<1> DEFINE p == Append(q, d)
<1>1. /\ Len(p) = Len(q) + 1
      /\ \A j \in 1..Len(q) : p[j] = q[j]
      /\ p[Len(q) + 1] = d
  BY AppendProperties
<1>2. Len(q) \in Nat
  BY LenProperties
<1> HIDE DEF p
<1>3. 1..Len(p) = 1..Len(q) \cup {Len(q) + 1}
  BY <1>1, <1>2
<1>4. Distinct(p)
  BY <1>1, <1>3 DEF Distinct, Entries
<1>5. Entries(p) = Entries(q) \cup {d}
  BY <1>1, <1>3 DEF Entries
<1> QED
  BY <1>4, <1>5 DEF p

(* Cutting the first n entries off takes them out of the set of entries. *)
LEMMA CutTakesTheFirst ==
    ASSUME NEW S, NEW q \in Seq(S), NEW n \in 0..Len(q), Distinct(q)
    PROVE  LET p == SubSeq(q, n + 1, Len(q)) IN
           /\ p \in Seq(S)
           /\ Len(p) = Len(q) - n
           /\ Distinct(p)
           /\ Entries(p) = Entries(q) \ {q[i] : i \in 1..n}
<1> DEFINE p == SubSeq(q, n + 1, Len(q))
<1>0. Len(q) \in Nat /\ n \in Nat /\ n <= Len(q)
  BY LenProperties
<1>1. /\ p \in Seq(S)
      /\ Len(p) = Len(q) - n
      /\ \A j \in 1..(Len(q) - n) : p[j] = q[n + j]
  BY <1>0, SubSeqProperties
<1> HIDE DEF p
<1>2. ASSUME NEW j \in 1..Len(p)
      PROVE  n + j \in 1..Len(q) /\ n + j \notin 1..n /\ p[j] = q[n + j]
  BY <1>0, <1>1
<1>3. Distinct(p)
  <2> SUFFICES ASSUME NEW j \in 1..Len(p), NEW k \in 1..Len(p), p[j] = p[k] PROVE j = k
    BY DEF Distinct
  <2>1. n + j = n + k
    BY <1>2 DEF Distinct
  <2> QED
    BY <1>0, <2>1
<1>4. ASSUME NEW j \in 1..Len(p) PROVE p[j] \in Entries(q) \ {q[i] : i \in 1..n}
  <2>1. ASSUME NEW i \in 1..n PROVE p[j] # q[i]
    <3>1. i \in 1..Len(q)
      BY <1>0
    <3> QED
      BY <1>2, <3>1 DEF Distinct
  <2> QED
    BY <1>2, <2>1 DEF Entries
<1>5. ASSUME NEW k \in 1..Len(q), q[k] \notin {q[i] : i \in 1..n} PROVE q[k] \in Entries(p)
  <2>1. k > n
    BY <1>0, <1>5
  <2>2. k - n \in 1..Len(p) /\ p[k - n] = q[n + (k - n)] /\ n + (k - n) = k
    BY <1>0, <1>1, <2>1
  <2> QED
    BY <2>2 DEF Entries
<1> QED
  BY <1>1, <1>3, <1>4, <1>5 DEF Entries, p

-----------------------------------------------------------------------------
(* The inductive invariant                                                  *)

(* Steps that neither move an entry nor settle a dead delivery. *)
LEMMA NothingMoves ==
    ASSUME Held, RoomForHands, dlq' = dlq, hand' = hand,
           \A r \in Replayers : place'[r].index = place[r].index,
           \A d \in Deliveries : delivery'[d] = "dead" <=> delivery[d] = "dead"
    PROVE  Held' /\ RoomForHands'
<1>1. Held'
  BY DEF Held, Distinct, Entries
<1>2. RoomForHands'
  BY DEF RoomForHands, Full
<1> QED
  BY <1>1, <1>2

(* The hands are finitely many, and so are those that hold an entry. *)
LEMMA HandsAreFew ==
    /\ IsFiniteSet(Full) /\ Cardinality(Full) \in Nat
    /\ Cardinality(Replayers) \in Nat
    /\ Cardinality(Full) <= Cardinality(Replayers)
<1>1. Full \subseteq Replayers
  BY DEF Full
<1> QED
  BY <1>1, WebhookAssumption, FS_Subset, FS_CardinalityType

LEMMA HandFills ==
    ASSUME NEW r \in Replayers, hand \in [Replayers -> SUBSET Deliveries], hand[r] = {},
           NEW d, hand' = [hand EXCEPT ![r] = {d}]
    PROVE  Cardinality(Full') = Cardinality(Full) + 1
<1>1. Full' = Full \cup {r} /\ r \notin Full
  BY DEF Full
<1> QED
  BY <1>1, HandsAreFew, FS_AddElement

LEMMA HandEmpties ==
    ASSUME NEW r \in Replayers, hand \in [Replayers -> SUBSET Deliveries], hand[r] # {},
           hand' = [hand EXCEPT ![r] = {}]
    PROVE  Cardinality(Full') = Cardinality(Full) - 1
<1>1. Full' = Full \ {r} /\ r \in Full
  BY DEF Full
<1> QED
  BY <1>1, HandsAreFew, FS_RemoveElement

LEMMA InvInit == WebhookInit => WebhookInv
<1> SUFFICES ASSUME WebhookInit PROVE WebhookInv
  OBVIOUS
<1>1. WebhookTypeOK
  BY WebhookAssumption DEF WebhookInit, WebhookTypeOK, Statuses, Places, NoPlace
<1>2. UnpublishedIsNone
  BY DEF WebhookInit, UnpublishedIsNone
<1>3. Len(dlq) = 0 /\ Entries(dlq) = {} /\ Full = {}
  BY DEF WebhookInit, Entries, Full
<1>4. Held
  BY <1>3 DEF WebhookInit, Held, Distinct
<1>5. RoomForHands
  BY <1>3, WebhookAssumption, HandsAreFew, FS_EmptySet DEF RoomForHands
<1> QED
  BY <1>1, <1>2, <1>4, <1>5 DEF WebhookInv

LEMMA SubscribingKeepsInv ==
    ASSUME WebhookInv, NEW s \in Subscriptions, Subscribe(s) \/ Unsubscribe(s)
    PROVE  WebhookInv'
<1>1. UNCHANGED <<publishing, delivery, attempts, dlq, hand, place>>
  BY DEF Subscribe, Unsubscribe
<1>2. WebhookTypeOK'
  BY <1>1 DEF WebhookInv, WebhookTypeOK, Subscribe, Unsubscribe
<1>3. UnpublishedIsNone'
  BY <1>1 DEF WebhookInv, UnpublishedIsNone
<1>4. Held' /\ RoomForHands'
  BY <1>1, NothingMoves DEF WebhookInv
<1> QED
  BY <1>2, <1>3, <1>4 DEF WebhookInv

LEMMA PublishKeepsInv ==
    ASSUME WebhookInv, NEW e \in Events, Publish(e)
    PROVE  WebhookInv'
<1>1. WebhookTypeOK'
  BY DEF WebhookInv, WebhookTypeOK, Publish, Statuses
<1>2. UnpublishedIsNone'
  <2> SUFFICES ASSUME NEW d \in Deliveries, publishing'[d[1]] = "none" PROVE delivery'[d] = "none"
    BY DEF UnpublishedIsNone
  <2>1. d[1] \in Events
    BY DEF Deliveries
  <2>2. d[1] # e
    BY <2>1 DEF WebhookInv, WebhookTypeOK, Publish
  <2>3. publishing[d[1]] = "none"
    BY <2>1, <2>2 DEF WebhookInv, WebhookTypeOK, Publish
  <2> QED
    BY <2>2, <2>3 DEF WebhookInv, UnpublishedIsNone, Publish
<1>3. \A d \in Deliveries : delivery'[d] = "dead" <=> delivery[d] = "dead"
  BY DEF WebhookInv, UnpublishedIsNone, Publish
<1>4. Held' /\ RoomForHands'
  BY <1>3, NothingMoves DEF WebhookInv, Publish
<1> QED
  BY <1>1, <1>2, <1>4 DEF WebhookInv

LEMMA ReturnKeepsInv ==
    ASSUME WebhookInv, NEW e \in Events, Return(e)
    PROVE  WebhookInv'
<1>1. WebhookTypeOK'
  BY DEF WebhookInv, WebhookTypeOK, Return, Statuses
<1>2. UnpublishedIsNone'
  <2> SUFFICES ASSUME NEW d \in Deliveries, publishing'[d[1]] = "none" PROVE delivery'[d] = "none"
    BY DEF UnpublishedIsNone
  <2>1. d[1] \in Events
    BY DEF Deliveries
  <2>2. publishing[d[1]] = "none"
    BY <2>1 DEF WebhookInv, WebhookTypeOK, Return
  <2> QED
    BY <2>2 DEF WebhookInv, UnpublishedIsNone, Return
<1>3. \A d \in Deliveries : delivery'[d] = "dead" <=> delivery[d] = "dead"
  BY DEF Return
<1>4. Held' /\ RoomForHands'
  BY <1>3, NothingMoves DEF WebhookInv, Return
<1> QED
  BY <1>1, <1>2, <1>4 DEF WebhookInv

LEMMA TryingKeepsInv ==
    ASSUME WebhookInv, NEW d \in Deliveries, Begin(d) \/ Attempt(d)
    PROVE  WebhookInv'
<1>1. WebhookTypeOK'
  <2>1. CASE Begin(d)
    BY <2>1 DEF WebhookInv, WebhookTypeOK, Begin, Statuses
  <2>2. CASE Attempt(d)
    <3>1. attempts[d] + 1 \in 0..MaxRetries
      BY <2>2, WebhookAssumption DEF WebhookInv, WebhookTypeOK, Attempt
    <3> QED
      BY <2>2, <3>1 DEF WebhookInv, WebhookTypeOK, Attempt, Statuses
  <2> QED
    BY <2>1, <2>2
<1>2. /\ publishing' = publishing
      /\ dlq' = dlq /\ hand' = hand /\ place' = place
      /\ delivery[d] \in {"queued", "trying"}
      /\ \E status \in {"trying", "delivered", "unsent"} : delivery' = [delivery EXCEPT ![d] = status]
  BY DEF Begin, Attempt
<1>3. UnpublishedIsNone'
  <2> SUFFICES ASSUME NEW x \in Deliveries, publishing[x[1]] = "none" PROVE delivery'[x] = "none"
    BY <1>2 DEF UnpublishedIsNone
  <2>1. delivery[x] = "none" /\ x # d
    BY <1>2 DEF WebhookInv, UnpublishedIsNone
  <2> QED
    BY <1>2, <2>1 DEF WebhookInv, WebhookTypeOK
<1>4. \A x \in Deliveries : delivery'[x] = "dead" <=> delivery[x] = "dead"
  BY <1>2 DEF WebhookInv, WebhookTypeOK
<1>5. Held' /\ RoomForHands'
  BY <1>2, <1>4, NothingMoves DEF WebhookInv
<1> QED
  BY <1>1, <1>3, <1>5 DEF WebhookInv

LEMMA DeadLetterKeepsInv ==
    ASSUME WebhookInv, NEW d \in Deliveries, DeadLetter(d)
    PROVE  WebhookInv'
<1> DEFINE q == Append(dlq, d)
           n == Excess(q)
           dropped == {q[i] : i \in 1..n}
<1>1. dlq \in Seq(Deliveries) /\ Len(dlq) \in Nat /\ Distinct(dlq)
  BY LenProperties DEF WebhookInv, WebhookTypeOK, Held
<1>2. d \notin Entries(dlq) /\ \A r \in Replayers : d \notin hand[r]
  BY DEF WebhookInv, Held, DeadLetter
<1>3. q \in Seq(Deliveries) /\ Len(q) = Len(dlq) + 1
  BY <1>1, AppendProperties
<1>4. Distinct(q) /\ Entries(q) = Entries(dlq) \cup {d}
  BY <1>1, <1>2, AppendAddsOne
<1>5. n \in 0..Len(q) /\ (DlqMaxSize # 0 => Len(q) - n <= DlqMaxSize)
  <2> HIDE DEF q
  <2> QED
    BY <1>1, <1>3, WebhookAssumption DEF Excess
<1>6. /\ dlq' = SubSeq(q, n + 1, Len(q))
      /\ delivery' = [x \in Deliveries |->
                         IF x \in dropped THEN "evicted"
                         ELSE IF x = d THEN "dead" ELSE delivery[x]]
      /\ UNCHANGED <<subscribed, publishing, attempts, hand, place>>
  BY DEF DeadLetter
<1> HIDE DEF q, n
<1>7. /\ dlq' \in Seq(Deliveries)
      /\ Len(dlq') = Len(q) - n
      /\ Distinct(dlq')
      /\ Entries(dlq') = (Entries(dlq) \cup {d}) \ dropped
  BY <1>3, <1>4, <1>5, <1>6, CutTakesTheFirst
<1>8. dropped \subseteq Entries(dlq) \cup {d}
  <2>1. \A i \in 1..n : i \in 1..Len(q)
    BY <1>1, <1>3, <1>5
  <2> QED
    BY <1>4, <2>1 DEF Entries
<1> HIDE DEF dropped
<1>9. WebhookTypeOK'
  <2>1. delivery' \in [Deliveries -> Statuses]
    BY <1>6 DEF WebhookInv, WebhookTypeOK, Statuses
  <2> QED
    BY <1>6, <1>7, <2>1 DEF WebhookInv, WebhookTypeOK
<1>10. UnpublishedIsNone'
  <2> SUFFICES ASSUME NEW x \in Deliveries, publishing[x[1]] = "none" PROVE delivery'[x] = "none"
    BY <1>6 DEF UnpublishedIsNone
  <2>1. delivery[x] = "none"
    BY DEF WebhookInv, UnpublishedIsNone
  <2>2. x # d /\ x \notin Entries(dlq)
    BY <2>1 DEF WebhookInv, Held, DeadLetter
  <2> QED
    BY <1>6, <1>8, <2>1, <2>2
<1>11. Held'
  <2>1. \A x \in Deliveries :
           delivery'[x] = "dead" <=> x \in Entries(dlq') \/ \E r \in Replayers : x \in hand[r]
    <3> SUFFICES ASSUME NEW x \in Deliveries
                 PROVE  delivery'[x] = "dead" <=> x \in Entries(dlq') \/ \E r \in Replayers : x \in hand[r]
      OBVIOUS
    <3>1. delivery[x] = "dead" <=> x \in Entries(dlq) \/ \E r \in Replayers : x \in hand[r]
      BY DEF WebhookInv, Held
    <3>2. x \in dropped => \A r \in Replayers : x \notin hand[r]
      BY <1>2, <1>8 DEF WebhookInv, Held
    <3>3. delivery'[x] = IF x \in dropped THEN "evicted" ELSE IF x = d THEN "dead" ELSE delivery[x]
      BY <1>6
    <3> QED
      BY <1>2, <1>7, <3>1, <3>2, <3>3
  <2>2. \A r \in Replayers : hand[r] \cap Entries(dlq') = {}
    BY <1>2, <1>7 DEF WebhookInv, Held
  <2> QED
    BY <1>6, <1>7, <2>1, <2>2 DEF WebhookInv, Held, Entries
<1>12. RoomForHands'
  <2>1. Full' = Full
    BY <1>6 DEF Full
  <2>2. DlqMaxSize # 0 => Len(dlq') <= DlqMaxSize
    BY <1>5, <1>7
  <2>3. Len(dlq') \in Nat
    BY <1>7, LenProperties
  <2> QED
    BY <2>1, <2>2, <2>3, HandsAreFew, WebhookAssumption DEF RoomForHands
<1> QED
  BY <1>9, <1>10, <1>11, <1>12 DEF WebhookInv

LEMMA TakeOutKeepsInv ==
    ASSUME WebhookInv, NEW r \in Replayers, NEW i \in DOMAIN dlq, TakeOut(r, i)
    PROVE  WebhookInv'
<1>1. dlq \in Seq(Deliveries) /\ Len(dlq) \in Nat /\ Distinct(dlq) /\ i \in 1..Len(dlq)
  BY LenProperties DEF WebhookInv, WebhookTypeOK, Held
<1>2. dlq[i] \in Deliveries /\ dlq[i] \in Entries(dlq)
  BY <1>1, ElementOfSeq DEF Entries
<1>3. /\ dlq' = Without(dlq, i)
      /\ hand[r] = {} /\ hand' = [hand EXCEPT ![r] = {dlq[i]}]
      /\ place' = [place EXCEPT ![r] = [index |-> i, found |-> FALSE]]
      /\ UNCHANGED <<subscribed, publishing, delivery, attempts>>
  BY DEF TakeOut
<1>4. /\ dlq' \in Seq(Deliveries) /\ Len(dlq') = Len(dlq) - 1
      /\ Distinct(dlq') /\ Entries(dlq') = Entries(dlq) \ {dlq[i]}
  BY <1>1, <1>3, WithoutEntry, WithoutTakesOne
<1>5. hand \in [Replayers -> SUBSET Deliveries] /\ place \in [Replayers -> Places]
  BY DEF WebhookInv, WebhookTypeOK
<1>6. WebhookTypeOK'
  <2>1. hand' \in [Replayers -> SUBSET Deliveries]
    BY <1>2, <1>3, <1>5
  <2>2. [index |-> i, found |-> FALSE] \in Places
    BY <1>1 DEF Places
  <2>3. place' \in [Replayers -> Places]
    BY <1>3, <1>5, <2>2
  <2> QED
    BY <1>3, <1>4, <2>1, <2>3 DEF WebhookInv, WebhookTypeOK
<1>7. UnpublishedIsNone'
  BY <1>3 DEF WebhookInv, UnpublishedIsNone
<1>8. Held'
  <2>1. /\ hand'[r] = {dlq[i]} /\ place'[r].index = i
        /\ \A s \in Replayers \ {r} : hand'[s] = hand[s] /\ place'[s] = place[s]
    BY <1>3, <1>5
  <2>2. \A s \in Replayers : dlq[i] \notin hand[s]
    BY <1>2 DEF WebhookInv, Held
  <2>3. \A s \in Replayers : \A d, e \in hand'[s] : d = e
    BY <2>1 DEF WebhookInv, Held
  <2>4. \A s \in Replayers : hand'[s] # {} => place'[s].index >= 1
    BY <1>1, <2>1 DEF WebhookInv, Held
  <2>5. \A s \in Replayers : hand'[s] \cap Entries(dlq') = {}
    BY <1>4, <2>1 DEF WebhookInv, Held
  <2>6. \A s, t \in Replayers : s # t => hand'[s] \cap hand'[t] = {}
    BY <2>1, <2>2 DEF WebhookInv, Held
  <2>7. \A d \in Deliveries :
           delivery[d] = "dead" <=> d \in Entries(dlq') \/ \E s \in Replayers : d \in hand'[s]
    <3> SUFFICES ASSUME NEW d \in Deliveries
                 PROVE  delivery[d] = "dead" <=> d \in Entries(dlq') \/ \E s \in Replayers : d \in hand'[s]
      OBVIOUS
    <3>1. delivery[d] = "dead" <=> d \in Entries(dlq) \/ \E s \in Replayers : d \in hand[s]
      BY DEF WebhookInv, Held
    <3>2. (\E s \in Replayers : d \in hand'[s]) <=> d = dlq[i] \/ \E s \in Replayers : d \in hand[s]
      BY <1>3, <2>1
    <3> QED
      BY <1>2, <1>4, <3>1, <3>2
  <2> QED
    BY <1>3, <1>4, <2>3, <2>4, <2>5, <2>6, <2>7 DEF Held, Entries
<1>9. RoomForHands'
  <2>1. Cardinality(Full') = Cardinality(Full) + 1
    BY <1>3, <1>5, HandFills
  <2> QED
    BY <1>1, <1>4, <2>1, HandsAreFew, WebhookAssumption DEF WebhookInv, RoomForHands
<1> QED
  BY <1>6, <1>7, <1>8, <1>9 DEF WebhookInv

LEMMA FindSubscriptionKeepsInv ==
    ASSUME WebhookInv, NEW r \in Replayers, FindSubscription(r)
    PROVE  WebhookInv'
<1>1. /\ place' = [place EXCEPT ![r].found = TRUE]
      /\ UNCHANGED <<subscribed, publishing, delivery, attempts, dlq, hand>>
  BY DEF FindSubscription
<1>2. place' \in [Replayers -> Places] /\ \A s \in Replayers : place'[s].index = place[s].index
  BY <1>1 DEF WebhookInv, WebhookTypeOK, Places
<1>3. WebhookTypeOK'
  BY <1>1, <1>2 DEF WebhookInv, WebhookTypeOK
<1>4. UnpublishedIsNone'
  BY <1>1 DEF WebhookInv, UnpublishedIsNone
<1>5. Held' /\ RoomForHands'
  BY <1>1, <1>2, NothingMoves DEF WebhookInv
<1> QED
  BY <1>3, <1>4, <1>5 DEF WebhookInv

(* The hand that lets go is empty, the others hold what they held. *)
LEMMA LetGoEmptiesOne ==
    ASSUME WebhookTypeOK, NEW r \in Replayers, LetGo(r)
    PROVE  /\ hand' \in [Replayers -> SUBSET Deliveries]
           /\ place' \in [Replayers -> Places]
           /\ hand'[r] = {}
           /\ \A s \in Replayers \ {r} : hand'[s] = hand[s] /\ place'[s] = place[s]
BY DEF WebhookTypeOK, LetGo, Places, NoPlace

LEMMA RedeliverKeepsInv ==
    ASSUME WebhookInv, NEW r \in Replayers, Redeliver(r)
    PROVE  WebhookInv'
<1>1. PICK d \in hand[r] : delivery' = [delivery EXCEPT ![d] = "delivered"]
  BY DEF Redeliver
<1>2. /\ LetGo(r)
      /\ UNCHANGED <<subscribed, publishing, attempts, dlq>>
  BY DEF Redeliver
<1>3. d \in Deliveries /\ delivery[d] = "dead"
  BY DEF WebhookInv, WebhookTypeOK, Held
<1>4. /\ hand' \in [Replayers -> SUBSET Deliveries]
      /\ place' \in [Replayers -> Places]
      /\ hand'[r] = {}
      /\ \A s \in Replayers \ {r} : hand'[s] = hand[s] /\ place'[s] = place[s]
  BY <1>2, LetGoEmptiesOne DEF WebhookInv
<1>5. WebhookTypeOK'
  <2>1. delivery' \in [Deliveries -> Statuses]
    BY <1>1, <1>3 DEF WebhookInv, WebhookTypeOK, Statuses
  <2> QED
    BY <1>2, <1>4, <2>1 DEF WebhookInv, WebhookTypeOK
<1>6. UnpublishedIsNone'
  <2> SUFFICES ASSUME NEW x \in Deliveries, publishing[x[1]] = "none" PROVE delivery'[x] = "none"
    BY <1>2 DEF UnpublishedIsNone
  <2>1. delivery[x] = "none" /\ x # d
    BY <1>3 DEF WebhookInv, UnpublishedIsNone
  <2> QED
    BY <1>1, <2>1 DEF WebhookInv, WebhookTypeOK
<1>7. Held'
  <2>1. /\ hand[r] = {d}
        /\ d \notin Entries(dlq)
        /\ \A s \in Replayers : s # r => d \notin hand[s]
    BY DEF WebhookInv, Held
  <2>2. \A s \in Replayers : hand'[s] # {} => s # r
    BY <1>4
  <2>3. \A s \in Replayers : \A x, y \in hand'[s] : x = y
    BY <1>4, <2>2 DEF WebhookInv, Held
  <2>4. \A s \in Replayers : hand'[s] # {} => place'[s].index >= 1
    BY <1>4, <2>2 DEF WebhookInv, Held
  <2>5. \A s \in Replayers : hand'[s] \cap Entries(dlq) = {}
    BY <1>4, <2>2 DEF WebhookInv, Held
  <2>6. \A s, t \in Replayers : s # t => hand'[s] \cap hand'[t] = {}
    BY <1>4 DEF WebhookInv, Held
  <2>7. \A x \in Deliveries :
           delivery'[x] = "dead" <=> x \in Entries(dlq) \/ \E s \in Replayers : x \in hand'[s]
    <3> SUFFICES ASSUME NEW x \in Deliveries
                 PROVE  delivery'[x] = "dead" <=> x \in Entries(dlq) \/ \E s \in Replayers : x \in hand'[s]
      OBVIOUS
    <3>1. delivery[x] = "dead" <=> x \in Entries(dlq) \/ \E s \in Replayers : x \in hand[s]
      BY DEF WebhookInv, Held
    <3>2. (\E s \in Replayers : x \in hand'[s]) <=> x # d /\ \E s \in Replayers : x \in hand[s]
      BY <1>4, <2>1
    <3>3. delivery'[x] = IF x = d THEN "delivered" ELSE delivery[x]
      BY <1>1, <1>3 DEF WebhookInv, WebhookTypeOK
    <3> QED
      BY <2>1, <3>1, <3>2, <3>3
  <2> QED
    BY <1>2, <2>3, <2>4, <2>5, <2>6, <2>7 DEF WebhookInv, Held, Entries
<1>8. RoomForHands'
  <2>1. Cardinality(Full') = Cardinality(Full) - 1
    BY <1>2, HandEmpties DEF WebhookInv, WebhookTypeOK, LetGo
  <2>2. Len(dlq) \in Nat
    BY LenProperties DEF WebhookInv, WebhookTypeOK
  <2> QED
    BY <1>2, <2>1, <2>2, HandsAreFew, WebhookAssumption DEF WebhookInv, RoomForHands
<1> QED
  BY <1>5, <1>6, <1>7, <1>8 DEF WebhookInv

LEMMA PutBackKeepsInv ==
    ASSUME WebhookInv, NEW r \in Replayers, PutBack(r)
    PROVE  WebhookInv'
<1>1. PICK d \in hand[r] :
         dlq' = IF place[r].index <= Len(dlq) THEN With(dlq, place[r].index, d) ELSE Append(dlq, d)
  BY DEF PutBack
<1>2. /\ LetGo(r)
      /\ UNCHANGED <<subscribed, publishing, delivery, attempts>>
  BY DEF PutBack
<1>3. /\ dlq \in Seq(Deliveries) /\ Len(dlq) \in Nat /\ Distinct(dlq)
      /\ d \in Deliveries /\ d \notin Entries(dlq)
      /\ place[r].index \in Nat /\ place[r].index >= 1
  BY LenProperties DEF WebhookInv, WebhookTypeOK, Held, Places
<1>4. /\ dlq' \in Seq(Deliveries) /\ Len(dlq') = Len(dlq) + 1
      /\ Distinct(dlq') /\ Entries(dlq') = Entries(dlq) \cup {d}
  <2>1. CASE place[r].index <= Len(dlq)
    <3>1. place[r].index \in 1..Len(dlq)
      BY <1>3, <2>1
    <3> QED
      BY <1>1, <1>3, <2>1, <3>1, WithEntry, WithAddsOne
  <2>2. CASE ~(place[r].index <= Len(dlq))
    BY <1>1, <1>3, <2>2, AppendProperties, AppendAddsOne
  <2> QED
    BY <2>1, <2>2
<1>5. /\ hand' \in [Replayers -> SUBSET Deliveries]
      /\ place' \in [Replayers -> Places]
      /\ hand'[r] = {}
      /\ \A s \in Replayers \ {r} : hand'[s] = hand[s] /\ place'[s] = place[s]
  BY <1>2, LetGoEmptiesOne DEF WebhookInv
<1>6. WebhookTypeOK'
  BY <1>2, <1>4, <1>5 DEF WebhookInv, WebhookTypeOK
<1>7. UnpublishedIsNone'
  BY <1>2 DEF WebhookInv, UnpublishedIsNone
<1>8. Held'
  <2>1. hand[r] = {d} /\ \A s \in Replayers : s # r => d \notin hand[s]
    BY DEF WebhookInv, Held
  <2>2. \A s \in Replayers : hand'[s] # {} => s # r
    BY <1>5
  <2>3. \A s \in Replayers : \A x, y \in hand'[s] : x = y
    BY <1>5, <2>2 DEF WebhookInv, Held
  <2>4. \A s \in Replayers : hand'[s] # {} => place'[s].index >= 1
    BY <1>5, <2>2 DEF WebhookInv, Held
  <2>5. \A s \in Replayers : hand'[s] \cap Entries(dlq') = {}
    BY <1>4, <1>5, <2>1, <2>2 DEF WebhookInv, Held
  <2>6. \A s, t \in Replayers : s # t => hand'[s] \cap hand'[t] = {}
    BY <1>5 DEF WebhookInv, Held
  <2>7. \A x \in Deliveries :
           delivery[x] = "dead" <=> x \in Entries(dlq') \/ \E s \in Replayers : x \in hand'[s]
    <3> SUFFICES ASSUME NEW x \in Deliveries
                 PROVE  delivery[x] = "dead" <=> x \in Entries(dlq') \/ \E s \in Replayers : x \in hand'[s]
      OBVIOUS
    <3>1. delivery[x] = "dead" <=> x \in Entries(dlq) \/ \E s \in Replayers : x \in hand[s]
      BY DEF WebhookInv, Held
    <3>2. (\E s \in Replayers : x \in hand'[s]) <=> x # d /\ \E s \in Replayers : x \in hand[s]
      BY <1>5, <2>1
    <3> QED
      BY <1>4, <2>1, <3>1, <3>2
  <2> QED
    BY <1>2, <1>4, <2>3, <2>4, <2>5, <2>6, <2>7 DEF Held, Entries
<1>9. RoomForHands'
  <2>1. Cardinality(Full') = Cardinality(Full) - 1
    BY <1>2, HandEmpties DEF WebhookInv, WebhookTypeOK, LetGo
  <2> QED
    BY <1>3, <1>4, <2>1, HandsAreFew, WebhookAssumption DEF WebhookInv, RoomForHands
<1> QED
  BY <1>6, <1>7, <1>8, <1>9 DEF WebhookInv

LEMMA ClearDlqKeepsInv ==
    ASSUME WebhookInv, ClearDlq
    PROVE  WebhookInv'
<1>1. /\ dlq' = <<>>
      /\ delivery' = [d \in Deliveries |-> IF d \in Entries(dlq) THEN "cleared" ELSE delivery[d]]
      /\ UNCHANGED <<subscribed, publishing, attempts, hand, place>>
  <2>1. \A d : d \in Entries(dlq) <=> \E i \in DOMAIN dlq : dlq[i] = d
    BY LenProperties DEF WebhookInv, WebhookTypeOK, Entries
  <2> QED
    BY <2>1 DEF ClearDlq
<1>2. dlq' \in Seq(Deliveries) /\ Len(dlq') = 0 /\ Entries(dlq') = {} /\ Distinct(dlq')
  BY <1>1 DEF Entries, Distinct
<1>3. WebhookTypeOK'
  <2>1. delivery' \in [Deliveries -> Statuses]
    BY <1>1 DEF WebhookInv, WebhookTypeOK, Statuses
  <2> QED
    BY <1>1, <1>2, <2>1 DEF WebhookInv, WebhookTypeOK
<1>4. UnpublishedIsNone'
  <2> SUFFICES ASSUME NEW x \in Deliveries, publishing[x[1]] = "none" PROVE delivery'[x] = "none"
    BY <1>1 DEF UnpublishedIsNone
  <2>1. delivery[x] = "none" /\ x \notin Entries(dlq)
    BY DEF WebhookInv, UnpublishedIsNone, Held
  <2> QED
    BY <1>1, <2>1
<1>5. Held'
  <2>1. \A x \in Deliveries : delivery'[x] = "dead" <=> \E r \in Replayers : x \in hand[r]
    BY <1>1 DEF WebhookInv, Held
  <2> QED
    BY <1>1, <1>2, <2>1 DEF WebhookInv, Held, Entries
<1>6. RoomForHands'
  <2>1. Full' = Full
    BY <1>1 DEF Full
  <2> QED
    BY <1>2, <2>1, HandsAreFew, WebhookAssumption DEF RoomForHands
<1> QED
  BY <1>3, <1>4, <1>5, <1>6 DEF WebhookInv

LEMMA InvStep == WebhookInv /\ [WebhookNext]_webhookVars => WebhookInv'
<1> SUFFICES ASSUME WebhookInv, [WebhookNext]_webhookVars PROVE WebhookInv'
  OBVIOUS
<1>1. CASE Subscribing
  BY <1>1, SubscribingKeepsInv DEF Subscribing
<1>2. CASE Publishing
  BY <1>2, PublishKeepsInv, ReturnKeepsInv DEF Publishing
<1>3. CASE Threads
  BY <1>3, TryingKeepsInv, DeadLetterKeepsInv DEF Threads
<1>4. CASE Replaying
  BY <1>4, TakeOutKeepsInv, FindSubscriptionKeepsInv, RedeliverKeepsInv, PutBackKeepsInv DEF Replaying
<1>5. CASE ClearDlq
  BY <1>5, ClearDlqKeepsInv
<1>6. CASE UNCHANGED webhookVars
  BY <1>6 DEF WebhookInv, WebhookTypeOK, UnpublishedIsNone, Held, RoomForHands, Full, Entries,
              Distinct, webhookVars
<1> QED
  BY <1>1, <1>2, <1>3, <1>4, <1>5, <1>6 DEF WebhookNext

LEMMA InvHolds == WebhookSpec => []WebhookInv
BY InvInit, InvStep, PTL DEF WebhookSpec

-----------------------------------------------------------------------------
(* Every variable of the service keeps its type, for any events,            *)
(* subscriptions, replayers and limits.                                     *)
THEOREM TypeCorrect == WebhookSpec => []WebhookTypeOK
BY InvHolds, PTL DEF WebhookInv

(* A dead delivery is at one place of _dlq or in the hands of one caller of  *)
(* replay_dead_letter, and no other delivery is, however replays, evictions, *)
(* clearings and new dead letters interleave.                                *)
THEOREM OnePlace == WebhookSpec => []DeadLetterHasOnePlace
<1>1. WebhookInv => DeadLetterHasOnePlace
  <2> SUFFICES ASSUME WebhookInv, NEW d \in Deliveries
               PROVE  LET inQueue == {i \in DOMAIN dlq : dlq[i] = d}
                          inHands == {r \in Replayers : d \in hand[r]} IN
                      IF delivery[d] = "dead"
                      THEN \/ inHands = {} /\ \E i \in DOMAIN dlq : inQueue = {i}
                           \/ inQueue = {} /\ \E r \in Replayers : inHands = {r}
                      ELSE inQueue = {} /\ inHands = {}
    BY DEF DeadLetterHasOnePlace
  <2> DEFINE inQueue == {i \in DOMAIN dlq : dlq[i] = d}
             inHands == {r \in Replayers : d \in hand[r]}
  <2>1. DOMAIN dlq = 1..Len(dlq)
    BY LenProperties DEF WebhookInv, WebhookTypeOK
  <2>2. delivery[d] = "dead" <=> inQueue # {} \/ inHands # {}
    BY <2>1 DEF WebhookInv, Held, Entries
  <2>3. \A i, j \in inQueue : i = j
    BY <2>1 DEF WebhookInv, Held, Distinct
  <2>4. \A r, s \in inHands : r = s
    BY DEF WebhookInv, Held
  <2>5. inQueue = {} \/ inHands = {}
    BY <2>1 DEF WebhookInv, Held, Entries
  <2>6. inQueue # {} => \E i \in DOMAIN dlq : inQueue = {i}
    BY <2>3
  <2>7. inHands # {} => \E r \in Replayers : inHands = {r}
    BY <2>4
  <2> HIDE DEF inQueue, inHands
  <2> QED
    BY <2>2, <2>5, <2>6, <2>7 DEF inQueue, inHands
<1> QED
  BY <1>1, InvHolds, PTL

(* Replays that fail put entries back into a queue that is full, but never   *)
(* more than one for each caller of replay_dead_letter.                      *)
THEOREM OneEntryPerReplay == WebhookSpec => []DlqOutgrowsByReplays
<1>1. WebhookInv => DlqOutgrowsByReplays
  <2> SUFFICES ASSUME WebhookInv PROVE DlqOutgrowsByReplays
    OBVIOUS
  <2>1. Len(dlq) \in Nat
    BY LenProperties DEF WebhookInv, WebhookTypeOK
  <2> QED
    BY <2>1, HandsAreFew, WebhookAssumption DEF WebhookInv, RoomForHands, DlqOutgrowsByReplays
<1> QED
  BY <1>1, InvHolds, PTL

(* No thread of a pool, replay, eviction or clearing touches a delivery that *)
(* has been delivered, cancelled, evicted or cleared, or is unsent.           *)
THEOREM SettledStaysSettled == WebhookSpec => SettledIsForGood
<1> DEFINE Kept == \A d \in Deliveries : delivery[d] \in Settled => delivery'[d] = delivery[d]
<1>1. WebhookInv /\ [WebhookNext]_webhookVars => [Kept]_webhookVars
  <2> SUFFICES ASSUME WebhookInv, WebhookNext, NEW d \in Deliveries, delivery[d] \in Settled
               PROVE  delivery'[d] = delivery[d]
    OBVIOUS
  <2>0. delivery \in [Deliveries -> Statuses] /\ delivery[d] \notin {"none", "queued", "trying", "dead"}
    BY DEF WebhookInv, WebhookTypeOK, Settled
  <2>1. CASE Subscribing
    BY <2>1 DEF Subscribing, Subscribe, Unsubscribe
  <2>2. CASE Publishing
    BY <2>0, <2>2 DEF Publishing, Publish, Return, WebhookInv, UnpublishedIsNone
  <2>3. ASSUME NEW x \in Deliveries, Begin(x) \/ Attempt(x) PROVE delivery'[d] = delivery[d]
    BY <2>0, <2>3 DEF Begin, Attempt
  <2>4. ASSUME NEW x \in Deliveries, DeadLetter(x) PROVE delivery'[d] = delivery[d]
    <3>1. dlq \in Seq(Deliveries) /\ Len(dlq) \in Nat
      BY LenProperties DEF WebhookInv, WebhookTypeOK
    <3>2. d # x /\ d \notin Entries(dlq)
      BY <2>0, <2>4 DEF WebhookInv, Held, DeadLetter
    <3>3. Excess(Append(dlq, x)) \in 0..Len(dlq) + 1
      BY <3>1, AppendProperties, WebhookAssumption DEF Excess
    <3>4. \A i \in 1..Excess(Append(dlq, x)) : Append(dlq, x)[i] # d
      BY <3>1, <3>2, <3>3, AppendProperties DEF Entries
    <3> QED
      BY <2>4, <3>2, <3>4 DEF DeadLetter
  <2>5. CASE Replaying
    BY <2>0, <2>5 DEF Replaying, TakeOut, FindSubscription, Redeliver, PutBack, WebhookInv, Held
  <2>6. CASE ClearDlq
    BY <2>0, <2>6, LenProperties DEF ClearDlq, WebhookInv, WebhookTypeOK, Held, Entries
  <2> QED
    BY <2>1, <2>2, <2>3, <2>4, <2>5, <2>6 DEF WebhookNext, Threads
<1> QED
  BY <1>1, InvHolds, PTL DEF WebhookSpec, SettledIsForGood
-----------------------------------------------------------------------------
(* A delivery has one of the lives of DeliveryLives.                        *)

LEMMA LivesStart == WebhookInit => DeliveryLife!LivesInit
BY DEF WebhookInit, DeliveryLife!LivesInit, LifeOf, Deliveries, DeliveryLife!Deliveries

(* A delivery that cannot be encoded is neither tried nor dead-lettered.     *)
NeverTried ==
    \A d \in Deliveries : d[1] \in Unencodable => delivery[d] \notin {"trying", "dead"}

LEMMA NeverTriedStep ==
    ASSUME WebhookInv, NeverTried, [WebhookNext]_webhookVars
    PROVE  NeverTried'
<1> SUFFICES ASSUME NEW d \in Deliveries, d[1] \in Unencodable
             PROVE  delivery'[d] \notin {"trying", "dead"}
  BY DEF NeverTried
<1>0. delivery \in [Deliveries -> Statuses] /\ delivery[d] \notin {"trying", "dead"}
  BY DEF WebhookInv, WebhookTypeOK, NeverTried
<1>1. CASE UNCHANGED delivery
  BY <1>0, <1>1
<1>2. CASE Subscribing \/ UNCHANGED webhookVars
  BY <1>1, <1>2 DEF Subscribing, Subscribe, Unsubscribe, webhookVars
<1>3. CASE Publishing
  BY <1>0, <1>3 DEF Publishing, Publish, Return
<1>4. ASSUME NEW x \in Deliveries, Begin(x) \/ Attempt(x) \/ DeadLetter(x)
      PROVE  delivery'[d] \notin {"trying", "dead"}
  <2>1. CASE Begin(x)
    BY <1>0, <2>1 DEF Begin
  <2>2. CASE Attempt(x)
    BY <1>0, <2>2 DEF Attempt
  <2>3. CASE DeadLetter(x)
    BY <1>0, <2>3 DEF DeadLetter
  <2> QED
    BY <1>4, <2>1, <2>2, <2>3
<1>5. CASE Replaying
  BY <1>0, <1>5 DEF Replaying, TakeOut, FindSubscription, Redeliver, PutBack
<1>6. CASE ClearDlq
  BY <1>0, <1>6 DEF ClearDlq
<1> QED
  BY <1>2, <1>3, <1>4, <1>5, <1>6 DEF WebhookNext, Threads

(* The abstract names stand for what they should. *)
LEMMA SameNames ==
    /\ DeliveryLife!Deliveries = Deliveries
    /\ DeliveryLife!Dead = {d \in Deliveries : delivery[d] = "dead"}
    /\ \A d \in Deliveries : /\ LifeOf[d] = "pending" <=> delivery[d] \in {"queued", "trying", "pending"}
                              /\ delivery[d] \notin {"queued", "trying"} => LifeOf[d] = delivery[d]
BY DEF DeliveryLife!Deliveries, Deliveries, DeliveryLife!Dead, LifeOf

(* A step that takes the deliveries of S to one status, and no other anywhere. *)
LEMMA GoesOneWay ==
    ASSUME NEW S, NEW status \in Statuses \ {"queued", "trying"},
           \A d \in Deliveries : IF d \in S THEN delivery'[d] = status
                                 ELSE delivery'[d] = delivery[d]
    PROVE  DeliveryLife!Become(S, status)
<1>1. LifeOf' = [d \in Deliveries |-> IF delivery'[d] \in {"queued", "trying"} THEN "pending"
                                      ELSE delivery'[d]]
  BY DEF LifeOf
<1>2. \A d \in Deliveries : LifeOf'[d] = IF d \in S THEN status ELSE LifeOf[d]
  BY <1>1 DEF LifeOf
<1> QED
  BY <1>1, <1>2, SameNames DEF DeliveryLife!Become

LEMMA LifeGoesOn ==
    ASSUME \A d \in Deliveries :
               \/ delivery'[d] = delivery[d]
               \/ {delivery[d], delivery'[d]} \subseteq {"queued", "trying"}
    PROVE  LifeOf' = LifeOf
<1>1. ASSUME NEW d \in Deliveries
      PROVE  (IF delivery'[d] \in {"queued", "trying"} THEN "pending" ELSE delivery'[d])
               = (IF delivery[d] \in {"queued", "trying"} THEN "pending" ELSE delivery[d])
  OBVIOUS
<1> QED
  BY <1>1 DEF LifeOf

(* The dead letters are finitely many, for the queue and the hands are. *)
LEMMA DeadAreFew ==
    ASSUME WebhookInv
    PROVE  IsFiniteSet({d \in Deliveries : delivery[d] = "dead"})
<1> DEFINE Hands == {hand[r] : r \in Replayers}
<1>1. IsFiniteSet(Entries(dlq))
  <2>1. dlq \in Surjection(1..Len(dlq), Entries(dlq)) /\ Len(dlq) \in Nat
    BY LenProperties, ElementOfSeq DEF WebhookInv, WebhookTypeOK, Entries, Surjection
  <2>2. IsFiniteSet(1..Len(dlq))
    BY <2>1, FS_Interval
  <2> QED
    BY <2>1, <2>2, FS_Surjection
<1>2. IsFiniteSet(Hands)
  <2>1. hand \in Surjection(Replayers, Hands)
    BY DEF WebhookInv, WebhookTypeOK, Surjection
  <2> QED
    BY <2>1, WebhookAssumption, FS_Surjection
<1>3. \A H \in Hands : IsFiniteSet(H)
  <2> SUFFICES ASSUME NEW r \in Replayers PROVE IsFiniteSet(hand[r])
    OBVIOUS
  <2>1. hand[r] = {} \/ \E d : hand[r] = {d}
    BY DEF WebhookInv, Held
  <2> QED
    BY <2>1, FS_EmptySet, FS_Singleton
<1>4. IsFiniteSet(UNION Hands)
  BY <1>2, <1>3, FS_UNION
<1>5. {d \in Deliveries : delivery[d] = "dead"} \subseteq Entries(dlq) \cup UNION Hands
  BY DEF WebhookInv, Held
<1> QED
  BY <1>1, <1>4, <1>5, FS_Union, FS_Subset

(* What a new dead letter pushes out leaves the queue full. *)
LEMMA EvictionLeavesFull ==
    ASSUME WebhookInv, WebhookInv', NEW d \in Deliveries, DeadLetter(d)
    PROVE  \E evicted \in SUBSET {x \in Deliveries : delivery[x] = "dead"} :
              /\ \A x \in Deliveries :
                    delivery'[x] = IF x \in evicted THEN "evicted"
                                   ELSE IF x = d THEN "dead" ELSE delivery[x]
              /\ evicted # {} =>
                    Cardinality(({x \in Deliveries : delivery[x] = "dead"} \cup {d}) \ evicted) >= DlqMaxSize
<1> DEFINE q == Append(dlq, d)
           n == Excess(q)
           dropped == {q[i] : i \in 1..n}
           dead == {x \in Deliveries : delivery[x] = "dead"}
<1>1. dlq \in Seq(Deliveries) /\ Len(dlq) \in Nat /\ Distinct(dlq)
  BY LenProperties DEF WebhookInv, WebhookTypeOK, Held
<1>2. /\ q \in Seq(Deliveries) /\ Len(q) = Len(dlq) + 1
      /\ \A i \in 1..Len(dlq) : q[i] = dlq[i]
  BY <1>1, AppendProperties
<1>3. /\ n \in 0..Len(dlq)
      /\ n # 0 => Len(q) - n = DlqMaxSize
  <2> HIDE DEF q
  <2> QED
    BY <1>1, <1>2, WebhookAssumption DEF Excess
<1>4. /\ dlq' = SubSeq(q, n + 1, Len(q))
      /\ delivery' = [x \in Deliveries |-> IF x \in dropped THEN "evicted"
                                           ELSE IF x = d THEN "dead" ELSE delivery[x]]
  BY DEF DeadLetter
<1> HIDE DEF q, n
<1>5. dropped \subseteq Entries(dlq)
  BY <1>1, <1>2, <1>3 DEF Entries
<1>6. Entries(dlq) \subseteq dead
  BY <1>1, ElementOfSeq DEF Entries, WebhookInv, Held
<1>7. ASSUME dropped # {} PROVE Cardinality((dead \cup {d}) \ dropped) >= DlqMaxSize
  <2>1. n # 0
    BY <1>3, <1>7
  <2>2. Len(dlq') = DlqMaxSize /\ dlq' \in Seq(Deliveries) /\ Distinct(dlq')
    <3>1. dlq' \in Seq(Deliveries) /\ Distinct(dlq')
      BY DEF WebhookInv, WebhookTypeOK, Held
    <3>2. Len(dlq') = Len(q) - n
      BY <1>1, <1>2, <1>3, <1>4, SubSeqProperties
    <3> QED
      BY <1>3, <2>1, <3>1, <3>2
  <2>3. Entries(dlq') \subseteq {x \in Deliveries : delivery'[x] = "dead"}
    BY <2>2, ElementOfSeq DEF Entries, WebhookInv, Held
  <2>4. {x \in Deliveries : delivery'[x] = "dead"} = (dead \cup {d}) \ dropped
    BY <1>4
  <2>5. IsFiniteSet((dead \cup {d}) \ dropped)
    <3>1. IsFiniteSet(dead \cup {d})
      BY DeadAreFew, FS_AddElement
    <3> QED
      BY <3>1, FS_Subset
  <2>6. Cardinality(Entries(dlq')) = DlqMaxSize
    <3>1. dlq' \in Bijection(1..DlqMaxSize, Entries(dlq'))
      BY <2>2, LenProperties, ElementOfSeq DEF Entries, Distinct, Bijection, Injection, Surjection, IsInjective
    <3>2. IsFiniteSet(1..DlqMaxSize) /\ Cardinality(1..DlqMaxSize) = DlqMaxSize
      BY WebhookAssumption, FS_Interval
    <3> QED
      BY <3>1, <3>2, FS_Bijection DEF ExistsBijection
  <2>7. Cardinality(Entries(dlq')) <= Cardinality((dead \cup {d}) \ dropped)
    BY <2>3, <2>4, <2>5, FS_Subset
  <2>8. Cardinality((dead \cup {d}) \ dropped) \in Nat
    BY <2>5, FS_CardinalityType
  <2> HIDE DEF dropped, dead
  <2> QED
    BY <2>6, <2>7, <2>8, WebhookAssumption
<1> QED
  <2>1. dropped \in SUBSET dead
    BY <1>5, <1>6
  <2>2. \A x \in Deliveries : delivery'[x] = IF x \in dropped THEN "evicted"
                                             ELSE IF x = d THEN "dead" ELSE delivery[x]
    BY <1>4
  <2> HIDE DEF dropped
  <2> QED
    BY <1>7, <2>1, <2>2

(* Each step of the service is a step of the abstract lives, or none. *)
LEMMA LivesFollow ==
    ASSUME WebhookInv, WebhookInv', NeverTried, [WebhookNext]_webhookVars
    PROVE  [DeliveryLife!LivesNext]_LifeOf
<1>0. delivery \in [Deliveries -> Statuses] /\ delivery' \in [Deliveries -> Statuses]
  BY DEF WebhookInv, WebhookTypeOK
<1>1. CASE delivery' = delivery
  BY <1>1 DEF LifeOf
<1>2. ASSUME NEW e \in Events, Publish(e) PROVE DeliveryLife!Publish(e)
  <2>1. \A s \in Subscriptions : delivery[<<e, s>>] = "none"
    BY <1>2 DEF Publish, WebhookInv, UnpublishedIsNone, Deliveries
  <2>2. \A s \in Subscriptions : LifeOf[<<e, s>>] = "none"
    BY <2>1 DEF LifeOf, Deliveries
  <2>3. subscribed \in SUBSET Subscriptions
    BY DEF WebhookInv, WebhookTypeOK
  <2>4. \A d \in Deliveries : delivery'[d] = IF d \in {e} \X subscribed THEN "queued" ELSE delivery[d]
    BY <1>2, <2>3 DEF Publish, Deliveries
  <2>5. \A d \in Deliveries : LifeOf'[d] = IF d \in {e} \X subscribed THEN "pending" ELSE LifeOf[d]
    BY <2>4 DEF LifeOf
  <2>6. LifeOf' = [d \in Deliveries |-> IF d \in {e} \X subscribed THEN "pending" ELSE LifeOf[d]]
    BY <2>5 DEF LifeOf
  <2> QED
    BY <2>2, <2>3, <2>6, SameNames DEF DeliveryLife!Publish, DeliveryLife!Become
<1>3. ASSUME NEW e \in Events, Return(e) PROVE DeliveryLife!Cancel(e)
  <2> DEFINE idle == {s \in Subscriptions : delivery[<<e, s>>] = "queued"}
  <2>1. \A s \in idle : LifeOf[<<e, s>>] = "pending"
    BY DEF LifeOf, Deliveries
  <2>2. \A d \in Deliveries : IF d \in {e} \X idle THEN delivery'[d] = "cancelled"
                              ELSE delivery'[d] = delivery[d]
    BY <1>3 DEF Return, Deliveries
  <2>3. DeliveryLife!Become({e} \X idle, "cancelled")
    BY <2>2, GoesOneWay DEF Statuses
  <2> QED
    BY <2>1, <2>3 DEF DeliveryLife!Cancel
<1>4. ASSUME NEW d \in Deliveries, Begin(d) \/ Attempt(d), delivery'[d] = "trying"
      PROVE  LifeOf' = LifeOf
  BY <1>0, <1>4, LifeGoesOn DEF Begin, Attempt
<1>5. ASSUME NEW d \in Deliveries, delivery[d] \in {"trying", "dead"},
             delivery' = [delivery EXCEPT ![d] = "delivered"]
      PROVE  DeliveryLife!Deliver(d)
  <2>1. DeliveryLife!Become({d}, "delivered")
    BY <1>0, <1>5, GoesOneWay DEF Statuses
  <2>2. LifeOf[d] \in {"pending", "dead"} /\ d[1] \notin Unencodable
    BY <1>5 DEF LifeOf, NeverTried
  <2> QED
    BY <2>1, <2>2 DEF DeliveryLife!Deliver
<1>6. ASSUME NEW d \in Deliveries, DeadLetter(d) PROVE DeliveryLife!Die(d)
  <2>1. PICK evicted \in SUBSET {x \in Deliveries : delivery[x] = "dead"} :
               /\ \A x \in Deliveries :
                     delivery'[x] = IF x \in evicted THEN "evicted"
                                    ELSE IF x = d THEN "dead" ELSE delivery[x]
               /\ evicted # {} =>
                     Cardinality(({x \in Deliveries : delivery[x] = "dead"} \cup {d}) \ evicted) >= DlqMaxSize
    BY <1>6, EvictionLeavesFull
  <2>2. LifeOf[d] = "pending" /\ d[1] \notin Unencodable
    BY <1>6 DEF DeadLetter, LifeOf, NeverTried
  <2>3. \A x \in Deliveries : LifeOf'[x] = IF x \in evicted THEN "evicted"
                                           ELSE IF x = d THEN "dead" ELSE LifeOf[x]
    BY <2>1 DEF LifeOf
  <2>4. LifeOf' = [x \in Deliveries |-> IF x \in evicted THEN "evicted"
                                        ELSE IF x = d THEN "dead" ELSE LifeOf[x]]
    BY <2>3 DEF LifeOf
  <2>5. \A S : DeliveryLife!Cardinality(S) = Cardinality(S)
    BY DEF DeliveryLife!Cardinality, Cardinality
  <2> QED
    BY <2>1, <2>2, <2>4, <2>5, SameNames DEF DeliveryLife!Die
<1>7. CASE ClearDlq
  <2>1. Entries(dlq) = {dlq[i] : i \in DOMAIN dlq}
    BY LenProperties DEF WebhookInv, WebhookTypeOK, Entries
  <2>2. \A d \in Deliveries : IF d \in Entries(dlq) THEN delivery'[d] = "cleared"
                              ELSE delivery'[d] = delivery[d]
    BY <1>7, <2>1 DEF ClearDlq
  <2>3. DeliveryLife!Become(Entries(dlq), "cleared")
    BY <2>2, GoesOneWay DEF Statuses
  <2>4. Entries(dlq) \in SUBSET DeliveryLife!Dead
    BY SameNames, LenProperties, ElementOfSeq DEF Entries, WebhookInv, WebhookTypeOK, Held
  <2> QED
    BY <2>3, <2>4 DEF DeliveryLife!Clear, DeliveryLife!LivesNext
<1>8. CASE Subscribing
  BY <1>1, <1>8 DEF Subscribing, Subscribe, Unsubscribe
<1>9. CASE Publishing
  BY <1>2, <1>3, <1>9 DEF Publishing, DeliveryLife!LivesNext
<1>10. CASE Threads
  <2>1. PICK d \in Deliveries : Begin(d) \/ Attempt(d) \/ DeadLetter(d)
    BY <1>10 DEF Threads
  <2>2. CASE (Begin(d) \/ Attempt(d)) /\ delivery'[d] = "trying"
    BY <1>4, <2>2
  <2>3. CASE Attempt(d) /\ delivery'[d] # "trying"
    <3>1. delivery[d] = "trying" /\ delivery' = [delivery EXCEPT ![d] = "delivered"]
      BY <1>0, <2>3 DEF Attempt
    <3> QED
      BY <1>5, <3>1, SameNames DEF DeliveryLife!LivesNext
  <2>4. CASE Begin(d) /\ delivery'[d] # "trying"
    <3>1. delivery[d] = "queued" /\ d[1] \in Unencodable
          /\ delivery' = [delivery EXCEPT ![d] = "unsent"]
      BY <1>0, <2>4 DEF Begin
    <3>2. DeliveryLife!Become({d}, "unsent")
      BY <1>0, <3>1, GoesOneWay DEF Statuses
    <3>3. LifeOf[d] = "pending"
      BY <3>1 DEF LifeOf
    <3>4. DeliveryLife!Drop(d)
      BY <3>1, <3>2, <3>3 DEF DeliveryLife!Drop
    <3> QED
      BY <3>4, SameNames DEF DeliveryLife!LivesNext
  <2>5. CASE DeadLetter(d)
    BY <1>6, <2>5, SameNames DEF DeliveryLife!LivesNext
  <2> QED
    BY <2>1, <2>2, <2>3, <2>4, <2>5
<1>11. CASE Replaying
  <2>1. PICK r \in Replayers :
               \/ \E i \in DOMAIN dlq : TakeOut(r, i)
               \/ FindSubscription(r) \/ Redeliver(r) \/ PutBack(r)
    BY <1>11 DEF Replaying
  <2>2. CASE ~Redeliver(r)
    BY <1>1, <2>1, <2>2 DEF TakeOut, FindSubscription, PutBack
  <2>3. CASE Redeliver(r)
    <3>1. PICK d \in hand[r] : delivery' = [delivery EXCEPT ![d] = "delivered"]
      BY <2>3 DEF Redeliver
    <3>2. d \in Deliveries /\ delivery[d] = "dead"
      BY DEF WebhookInv, WebhookTypeOK, Held
    <3> QED
      BY <1>5, <3>1, <3>2, SameNames DEF DeliveryLife!LivesNext
  <2> QED
    BY <2>2, <2>3
<1> QED
  BY <1>1, <1>7, <1>8, <1>9, <1>10, <1>11 DEF WebhookNext, webhookVars

(* However the threads, replays, evictions and clearings of the service     *)
(* interleave, each delivery has one of the lives of DeliveryLives.         *)
THEOREM WebhookImplementsLives == WebhookSpec => LivesSpec
<1>1. WebhookInv /\ WebhookInv' /\ NeverTried /\ [WebhookNext]_webhookVars
        => [DeliveryLife!LivesNext]_LifeOf
  BY LivesFollow
<1>2. WebhookInit => NeverTried
  BY DEF WebhookInit, NeverTried
<1>3. WebhookInv /\ NeverTried /\ [WebhookNext]_webhookVars => NeverTried'
  BY NeverTriedStep
<1> QED
  BY <1>1, <1>2, <1>3, LivesStart, InvHolds, PTL DEF WebhookSpec, LivesSpec, DeliveryLife!LivesSpec

=============================================================================
