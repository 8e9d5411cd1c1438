-------------------------- MODULE MCEventProcessor --------------------------
(* EventProcessor with queues small enough to be full, and to jam.           *)
EXTENDS EventProcessor

MCCapacity == [q \in Queues |-> IF q \in {"input", "retry"} THEN 2 ELSE 1]
=============================================================================
