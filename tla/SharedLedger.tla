---------------------------- MODULE SharedLedger ----------------------------
(***************************************************************************)
(* What a client of the command bus can count on while manual edits,       *)
(* imports, deletions and the commits of other clients write the same      *)
(* project: nothing about the revision it will find, but each of its       *)
(* commands is committed once at most, on top of the very revision that    *)
(* the project has, and what is committed stays.                           *)
(***************************************************************************)
EXTENDS Naturals

CONSTANTS Commands     \* the commands of this client

VARIABLES revision,    \* the revision of the project; 0: no row
          committed    \* records [id, rev] of the client's committed commands

vars == <<revision, committed>>

Init ==
    /\ revision \in Nat
    /\ committed = {}

Commit(ids) ==
    /\ revision # 0
    /\ \A e \in committed : e.id \notin ids
    /\ revision' = revision + 1
    /\ committed' = committed \cup {[id |-> i, rev |-> revision + 1] : i \in ids}

\* Any other writer, or another client.
Disturb ==
    /\ revision' \in Nat
    /\ UNCHANGED committed

Next ==
    \/ Disturb
    \/ \E ids \in (SUBSET Commands) \ {{}} : Commit(ids)

Spec == Init /\ [][Next]_vars
=============================================================================
