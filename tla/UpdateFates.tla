---------------------------- MODULE UpdateFates ----------------------------
(***************************************************************************)
(* What a client of the Revit server may rely on: updates are accepted     *)
(* into one line, reach Revit in its order or not at all, are executed     *)
(* once, oldest first, or lost together when Revit ends; and what is told  *)
(* of them is so, but for a batch that finds no room for its last updates: *)
(* it is refused as a whole, and its first updates are accepted.  The      *)
(* module knows neither the pipe nor the circuit nor the second queue:     *)
(* RevitBridge implements it.                                              *)
(***************************************************************************)
EXTENDS Naturals, Sequences

CONSTANTS Updates, BimParameters, Batches, Malformed, LocalCapacity

VARIABLES line,    \* the updates accepted, in order
          answer,  \* what the client was told of an update
          fate     \* what became of it in Revit

fateVars == <<line, answer, fate>>

FatesInit ==
    /\ line = <<>>
    /\ answer = [u \in Updates |-> "none"]
    /\ fate = [u \in Updates |-> "none"]

Accepted(u) == \E i \in DOMAIN line : line[i] = u

Tell(u, text) == answer' = [answer EXCEPT ![u] = text]

TellAll(b, text) ==
    answer' = [u \in Updates |-> IF \E i \in DOMAIN b : b[i] = u THEN text ELSE answer[u]]

Refuse(u) ==
    /\ u \in BimParameters /\ answer[u] = "none" /\ ~Accepted(u)
    /\ u \in Malformed \/ Len(line) = LocalCapacity
    /\ Tell(u, "refused")
    /\ UNCHANGED <<line, fate>>

Accept(u) ==
    /\ u \in BimParameters \ Malformed /\ answer[u] = "none" /\ ~Accepted(u)
    /\ Len(line) < LocalCapacity
    /\ line' = Append(line, u)
    /\ UNCHANGED <<answer, fate>>

\* The first n updates of a batch are accepted.  If these are all of it, the client is
\* told that they are queued, and that is all; if there is no room for the next, or
\* it is malformed, the client is told that the batch is refused.
AcceptBatch(b) ==
    /\ \A i \in DOMAIN b : answer[b[i]] = "none" /\ ~Accepted(b[i])
    /\ \E n \in 0..Len(b) :
          /\ line' = line \o SubSeq(b, 1, n)
          /\ Len(line') <= LocalCapacity
          /\ \A i \in 1..n : b[i] \notin Malformed
          /\ IF n = Len(b) THEN TellAll(b, "queued")
             ELSE /\ Len(line') = LocalCapacity \/ b[n + 1] \in Malformed
                  /\ TellAll(b, "refused")
    /\ UNCHANGED fate

\* Only the newest update is on its way to Revit.
Reach(u) ==
    /\ u \in BimParameters /\ answer[u] = "none" /\ fate[u] = "none"
    /\ line # <<>> /\ line[Len(line)] = u
    /\ fate' = [fate EXCEPT ![u] = "waiting"]
    /\ UNCHANGED <<line, answer>>

\* An error says nothing: the update may have reached Revit or not.
Report(u) ==
    /\ answer[u] = "none" /\ Accepted(u)
    /\ \/ Tell(u, "pipe_error")
       \/ fate[u] # "none" /\ Tell(u, "forwarded")
    /\ UNCHANGED <<line, fate>>

Execute(i) ==
    /\ fate[line[i]] = "waiting"
    /\ \A h \in DOMAIN line : h < i => fate[line[h]] # "waiting"
    /\ \E end \in {"committed", "rolled_back"} : fate' = [fate EXCEPT ![line[i]] = end]
    /\ UNCHANGED <<line, answer>>

Lose ==
    /\ fate' = [u \in Updates |-> IF fate[u] = "waiting" THEN "lost" ELSE fate[u]]
    /\ UNCHANGED <<line, answer>>

FatesNext ==
    \/ \E u \in Updates : Refuse(u) \/ Accept(u) \/ Reach(u) \/ Report(u)
    \/ \E b \in Batches : AcceptBatch(b)
    \/ \E i \in DOMAIN line : Execute(i)
    \/ Lose

UpdateFatesSpec == FatesInit /\ [][FatesNext]_fateVars
=============================================================================
