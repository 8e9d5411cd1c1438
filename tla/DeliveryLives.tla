--------------------------- MODULE DeliveryLives ---------------------------
(***************************************************************************)
(* What a publisher may rely on: a delivery is pending until it is         *)
(* delivered, cancelled before it began, dropped because its event cannot  *)
(* be encoded, or dead; and a dead letter stays until a replay delivers    *)
(* it, somebody clears the dead letters, or newer ones leave no room for   *)
(* it.  Nothing else becomes of it, and nothing after that.                *)
(* WebhookDelivery implements this module, which knows no attempts,        *)
(* threads, queue positions or hands.                                      *)
(***************************************************************************)
EXTENDS Naturals, FiniteSets

CONSTANTS Events, Unencodable, Subscriptions, DlqMaxSize

VARIABLE life   \* of a delivery

Deliveries == Events \X Subscriptions

LivesInit == life = [d \in Deliveries |-> "none"]

Dead == {d \in Deliveries : life[d] = "dead"}

\* All of S go one way.
Become(S, fate) == life' = [d \in Deliveries |-> IF d \in S THEN fate ELSE life[d]]

Publish(e) ==
    /\ \A s \in Subscriptions : life[<<e, s>>] = "none"
    /\ \E S \in SUBSET Subscriptions : Become({e} \X S, "pending")

Cancel(e) ==
    \E S \in SUBSET Subscriptions :
        /\ \A s \in S : life[<<e, s>>] = "pending"
        /\ Become({e} \X S, "cancelled")

\* Only what can be encoded is ever delivered or dead.
Drop(d) ==
    /\ life[d] = "pending" /\ d[1] \in Unencodable
    /\ Become({d}, "unsent")

Deliver(d) ==
    /\ d[1] \notin Unencodable
    /\ life[d] \in {"pending", "dead"}
    /\ Become({d}, "delivered")

\* A new dead letter may push older ones out, but as many stay as there is room for.
Die(d) ==
    /\ life[d] = "pending" /\ d[1] \notin Unencodable
    /\ \E evicted \in SUBSET Dead :
          /\ evicted # {} => Cardinality((Dead \union {d}) \ evicted) >= DlqMaxSize
          /\ life' = [x \in Deliveries |-> IF x \in evicted THEN "evicted"
                                           ELSE IF x = d THEN "dead" ELSE life[x]]

\* Dead letters that are being replayed are not cleared.
Clear == \E S \in SUBSET Dead : Become(S, "cleared")

LivesNext ==
    \/ \E e \in Events : Publish(e) \/ Cancel(e)
    \/ \E d \in Deliveries : Drop(d) \/ Deliver(d) \/ Die(d)
    \/ Clear

LivesSpec == LivesInit /\ [][LivesNext]_life
=============================================================================
