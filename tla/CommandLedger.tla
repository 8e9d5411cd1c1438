--------------------------- MODULE CommandLedger ---------------------------
(***************************************************************************)
(* What the command bus promises its callers: a project's revision counts  *)
(* the commits made to it, one commit at a time, until it is deleted, and  *)
(* a command is committed at most once however many workers run it.        *)
(***************************************************************************)
EXTENDS Naturals

CONSTANTS Projects, CommandIds

VARIABLES revision,    \* revision[p]: the canonical revision; Missing: no row
          committed    \* records [id, project, rev] of committed commands

vars == <<revision, committed>>

\* A project without a row in project_revisions.
Missing == 0
FirstRevision == 1

Init ==
    /\ revision \in [Projects -> {Missing, FirstRevision}]
    /\ committed = {}

\* All the commands of one commit take the same, new, revision.
Commit(p, ids) ==
    /\ revision[p] # Missing
    /\ \A e \in committed : e.id \notin ids
    /\ revision' = [revision EXCEPT ![p] = @ + 1]
    /\ committed' = committed \cup
           {[id |-> i, project |-> p, rev |-> revision[p] + 1] : i \in ids}

\* A deleted project is not created again, and what was committed to it stays.
Delete(p) ==
    /\ revision[p] # Missing
    /\ revision' = [revision EXCEPT ![p] = Missing]
    /\ UNCHANGED committed

Next == \E p \in Projects :
    \/ \E ids \in (SUBSET CommandIds) \ {{}} : Commit(p, ids)
    \/ Delete(p)

Spec == Init /\ [][Next]_vars
=============================================================================
