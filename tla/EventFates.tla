----------------------------- MODULE EventFates -----------------------------
(***************************************************************************)
(* What becomes of an event that is given to the event processor of        *)
(* facp_distributed: it waits or is worked on for some time, and then it   *)
(* is delivered to the output, reported dead or lost, once and for all.    *)
(***************************************************************************)
CONSTANT Events

VARIABLE fate

FatesInit == fate = [e \in Events |-> "new"]

Accept(e) ==
    /\ fate[e] = "new"
    /\ fate' = [fate EXCEPT ![e] = "pending"]

Settle(e, how) ==
    /\ fate[e] = "pending"
    /\ fate' = [fate EXCEPT ![e] = how]

FatesNext == \E e \in Events :
    Accept(e) \/ \E how \in {"delivered", "dead", "lost"} : Settle(e, how)

FatesSpec == FatesInit /\ [][FatesNext]_fate
=============================================================================
