-------------------------- MODULE CanonicalWriters --------------------------
(***************************************************************************)
(* The command bus is not the only writer of project_revisions.  A manual  *)
(* edit (handle_user_mutation in backend/routers/agent_ws.py) and a direct *)
(* import (execute_import in backend/core/import_orchestrator.py) read the *)
(* revision in one transaction and write it in others.  Both run on the    *)
(* event loop, which serialises them until an await, while the bus commits *)
(* in worker threads.                                                      *)
(***************************************************************************)
EXTENDS CommandBus

CONSTANTS Editors,      \* websocket handlers of manual edits
          Importers,    \* request handlers of POST /import/execute
          Nobody,       \* the event loop is free
          MaxRevision   \* bound: no edit or import starts at or above it

ASSUME WritersAssumption ==
    /\ MaxRevision \in Nat
    /\ Nobody \notin Editors \cup Importers
    /\ Editors \cap Importers = {}

VARIABLES loop,     \* the handler that holds the event loop
          wpc,      \* where each handler is
          target,   \* the project it writes
          base      \* the revision it has read

writerVars == <<loop, wpc, target, base>>
allVars == <<vars, writerVars>>

Handlers == Editors \cup Importers

WritersTypeOK ==
    /\ loop \in Handlers \cup {Nobody}
    /\ wpc \in [Handlers -> {"idle", "set", "save", "write"}]
    /\ target \in [Handlers -> Projects]
    /\ base \in [Handlers -> Nat]

WritersInit ==
    /\ Init
    /\ loop = Nobody
    /\ wpc = [h \in Handlers |-> "idle"]
    /\ target = [h \in Handlers |-> CHOOSE p \in Projects : TRUE]
    /\ base = [h \in Handlers |-> 0]

Goto(h, where) == wpc' = [wpc EXCEPT ![h] = where]

\* The row is inserted if there is none.
Upsert(h) ==
    /\ revision' = [revision EXCEPT ![target[h]] = base[h] + 1]
    /\ UNCHANGED <<executions, events, pc, cmd, result>>

\* A handler takes the event loop and reads the revision of its project.
ReadRevision(h, p, where) ==
    /\ wpc[h] = "idle" /\ loop = Nobody
    /\ revision[p] \in 1..(MaxRevision - 1)
    /\ loop' = h
    /\ base' = [base EXCEPT ![h] = revision[p]]
    /\ target' = [target EXCEPT ![h] = p]
    /\ Goto(h, where)
    /\ UNCHANGED vars

\* handle_user_mutation: an edit of a project without a revision fails on
\* None + 1 before any write, and is no step.
EditRead(e) == \E p \in Projects : ReadRevision(e, p, "set")

\* set_project_revision, still on the event loop ...
EditSet(e) ==
    /\ wpc[e] = "set"
    /\ Upsert(e)
    /\ Goto(e, "save")
    /\ loop' = Nobody
    /\ UNCHANGED <<target, base>>

\* ... and save_canonical_state, awaited in a thread.
EditSave(e) ==
    /\ wpc[e] = "save"
    /\ Upsert(e)
    /\ Goto(e, "idle")
    /\ UNCHANGED <<loop, target, base>>

\* execute_import compares the revision with the caller's; one that differs
\* is refused with no write, so the revision read is the expected one.
ImportRead(i) == \E p \in Projects : ReadRevision(i, p, "write")

\* The staged file is parsed, which may fail, and then written whatever the
\* revision has become.
ImportWrite(i) ==
    /\ wpc[i] = "write"
    /\ \/ Upsert(i)
       \/ UNCHANGED vars
    /\ Goto(i, "idle")
    /\ loop' = Nobody
    /\ UNCHANGED <<target, base>>

BusStep ==
    /\ \E w \in Workers : WorkerStep(w)
    /\ UNCHANGED writerVars

\* The handler of DELETE /projects/{id} does not await either.
Delete ==
    /\ loop = Nobody
    /\ \E p \in Projects : DeleteProject(p)
    /\ UNCHANGED writerVars

WritersNext ==
    \/ BusStep
    \/ Delete
    \/ \E e \in Editors : EditRead(e) \/ EditSet(e) \/ EditSave(e)
    \/ \E i \in Importers : ImportRead(i) \/ ImportWrite(i)

WritersSpec == WritersInit /\ [][WritersNext]_allVars

-----------------------------------------------------------------------------
\* Whatever the other writers do to the revision, a commandId is executed at
\* most once: where the revision check lets a duplicate delivery through
\* because the revision was set back, the primary key of the ledger stops it.
AtMostOnce ==
    \A d, e \in executions : d.id = e.id => d = e

\* execute_import "Enforces: Optimistic Concurrency Control (OCC) revision
\* verification" (import_orchestrator.py 590): what it writes replaces the
\* state it was checked against, never a commit made since.
ImportReplacesCheckedRevision ==
    [][\A i \in Importers :
          wpc[i] = "write" /\ wpc'[i] = "idle" /\ revision' # revision
              => revision[target[i]] = base[i]]_allVars

\* What the client with the given commands sees of a project and of the ledger.
ClientCommits(p, commands) ==
    {[id |-> x.id, rev |-> x.rev] :
        x \in {y \in executions : y.project = p /\ y.id \in commands}}

View(p, commands) == INSTANCE SharedLedger
    WITH Commands <- commands, revision <- revision[p],
         committed <- ClientCommits(p, commands)

\* Edits, imports, deletions and the commands of others disturb a client in its
\* revision only: of what the bus promises it, they break nothing.  This is
\* View(p, own)!Spec for every p and own, in a form that can be checked.
ClientsAreServed ==
    /\ \A p \in Projects, own \in SUBSET CommandIds : View(p, own)!Init
    /\ [][\A p \in Projects, own \in SUBSET CommandIds :
             [View(p, own)!Next]_(View(p, own)!vars)]_allVars
=============================================================================
