----------------------------- MODULE CommandBus -----------------------------
(***************************************************************************)
(* backend/core/command_bus.py, the transactions of                        *)
(* backend/core/state_store.py and the executor of                         *)
(* backend/core/workflow_engine.py, run by several worker threads.         *)
(*                                                                         *)
(* Every store method is one database transaction, and one action here.    *)
(* What happens between two of them is local to the worker, so it is       *)
(* merged with the transaction before it.  A crash loses the worker's      *)
(* local state only.  A capability handler writes to none of the tables    *)
(* modelled; it may fail, and its result is abstracted away.               *)
(***************************************************************************)
EXTENDS Naturals, FiniteSets

CONSTANTS Workers,      \* threads that run CommandBus.execute
          CommandIds,   \* commandId values, chosen by the clients
          Projects,
          Payloads,     \* a payload stands for its hash
          Requests      \* the requests clients may send

\* A request: a single command has ids = {first}; a composite workflow
\* carries one command per step, and its event is filed under the first.
Request == [first     : CommandIds,
            ids       : SUBSET CommandIds,
            project   : Projects,
            payload   : Payloads,
            expected  : Nat,
            composite : BOOLEAN,
            dryRun    : BOOLEAN]

ASSUME RequestsAssumption ==
    /\ Requests # {}
    /\ Requests \subseteq Request
    /\ \A r \in Requests : /\ r.first \in r.ids
                           /\ ~r.composite => r.ids = {r.first}

VARIABLES revision,     \* project_revisions
          executions,   \* command_executions
          events,       \* domain_events
          pc,           \* where each worker is
          cmd,          \* the request each worker runs, or ran last
          result        \* the answer to it, with the revision of a success

storeVars == <<revision, executions, events>>
vars == <<revision, executions, events, pc, cmd, result>>

\* A project without a row in project_revisions, and one just created.
Missing == 0
FirstRevision == 1

Execution == [id : CommandIds, project : Projects, payload : Payloads, rev : Nat]
Event == [id : CommandIds, project : Projects, rev : Nat]

Codes == {"NONE", "OK", "REPLAYED", "REJECTED", "IDEMPOTENCY_KEY_REUSE_CONFLICT",
          "CONCURRENCY_CONFLICT", "HANDLER_EXECUTION_FAILED", "EXCEPTION", "LOST"}

TypeOK ==
    /\ revision \in [Projects -> Nat]
    /\ executions \subseteq Execution
    /\ events \subseteq Event
    /\ pc \in [Workers -> {"idle", "lookup", "precheck", "commit"}]
    /\ cmd \in [Workers -> Requests]
    /\ result \in [Workers -> [code : Codes, rev : Nat]]

NoResult == [code |-> "NONE", rev |-> 0]

Init ==
    /\ revision \in [Projects -> {Missing, FirstRevision}]
    /\ executions = {}
    /\ events = {}
    /\ pc = [w \in Workers |-> "idle"]
    /\ cmd = [w \in Workers |-> CHOOSE r \in Requests : TRUE]
    /\ result = [w \in Workers |-> NoResult]

\* Mutant: a place no handler knows.
FinishNowhere(w, code, rev) ==
    /\ pc' = [pc EXCEPT ![w] = "done"]
    /\ result' = [result EXCEPT ![w] = [code |-> code, rev |-> rev]]

Finish(w, code, rev) ==
    /\ pc' = [pc EXCEPT ![w] = "idle"]
    /\ result' = [result EXCEPT ![w] = [code |-> code, rev |-> rev]]

Proceed(w, where) ==
    /\ pc' = [pc EXCEPT ![w] = where]
    /\ result' = [result EXCEPT ![w] = NoResult]

ExecutionOf(id) == {e \in executions : e.id = id}

-----------------------------------------------------------------------------
\* A worker takes a request.  Authentication, forbidden keys, capability and
\* scopes are checked before any store access; a request that fails one is
\* answered at once.  Only a single command that is not a dry run looks into
\* the idempotency ledger: the workflow executor never does.
Submit(w) ==
    /\ pc[w] = "idle"
    /\ \E r \in Requests :
        /\ cmd' = [cmd EXCEPT ![w] = r]
        /\ \/ Finish(w, "REJECTED", 0)
           \/ Proceed(w, IF r.composite \/ r.dryRun THEN "precheck" ELSE "lookup")
    /\ UNCHANGED storeVars

\* Mutant: the stored payload hash is not compared.
LookupAnyPayload(w) ==
    /\ pc[w] = "lookup"
    /\ \/ /\ ExecutionOf(cmd[w].first) = {}
          /\ Proceed(w, "precheck")
       \/ \E e \in ExecutionOf(cmd[w].first) : Finish(w, "REPLAYED", e.rev)
    /\ UNCHANGED <<revision, executions, events, cmd>>

\* get_idempotent_command: the ledger is keyed by commandId alone; only the
\* payload hash is compared with the stored one.
Lookup(w) ==
    /\ pc[w] = "lookup"
    /\ \/ /\ ExecutionOf(cmd[w].first) = {}
          /\ Proceed(w, "precheck")
       \/ \E e \in ExecutionOf(cmd[w].first) :
            IF e.payload = cmd[w].payload
            THEN Finish(w, "REPLAYED", e.rev)
            ELSE Finish(w, "IDEMPOTENCY_KEY_REUSE_CONFLICT", 0)
    /\ UNCHANGED <<revision, executions, events, cmd>>

\* The revision is read and compared, then the handlers run.  The preview of
\* a single command compares nothing; that of a workflow does.
Precheck(w) ==
    /\ pc[w] = "precheck"
    /\ LET r   == cmd[w]
           cur == revision[r.project]
           same == cur # Missing /\ cur = r.expected
           compared == r.composite \/ ~r.dryRun
       IN \/ /\ compared /\ ~r.composite /\ cur = Missing
             /\ Finish(w, "REJECTED", 0)
          \/ /\ compared /\ ~same /\ (r.composite \/ cur # Missing)
             /\ Finish(w, "CONCURRENCY_CONFLICT", 0)
          \/ /\ compared => same
             /\ \/ Finish(w, "HANDLER_EXECUTION_FAILED", 0)
                \/ r.dryRun /\ Finish(w, "OK", IF cur = Missing THEN r.expected ELSE cur)
                \/ ~r.dryRun /\ Proceed(w, "commit")
    /\ UNCHANGED <<revision, executions, events, cmd>>

\* Mutant: the event bears the revision the command expected.
CommitWriteOldEvent(r) ==
    /\ revision' = [revision EXCEPT ![r.project] = r.expected + 1]
    /\ executions' = executions \cup
          {[id |-> i, project |-> r.project, payload |-> r.payload,
            rev |-> r.expected + 1] : i \in r.ids}
    /\ events' = events \cup
          {[id |-> r.first, project |-> r.project, rev |-> r.expected]}

\* Mutant: a workflow raises the revision once for each of its steps.
CommitWritePerStep(r) ==
    /\ revision' = [revision EXCEPT ![r.project] = r.expected + Cardinality(r.ids)]
    /\ executions' = executions \cup
          {[id |-> i, project |-> r.project, payload |-> r.payload,
            rev |-> r.expected + 1] : i \in r.ids}
    /\ events' = events \cup
          {[id |-> r.first, project |-> r.project, rev |-> r.expected + 1]}

\* commit_transaction and commit_composite_transaction: the revision is
\* compared again inside the transaction that raises it; a commandId already
\* in the ledger breaks its primary key and rolls everything back.
CommitWrite(r) ==
    /\ revision' = [revision EXCEPT ![r.project] = r.expected + 1]
    /\ executions' = executions \cup
          {[id |-> i, project |-> r.project, payload |-> r.payload,
            rev |-> r.expected + 1] : i \in r.ids}
    /\ events' = events \cup
          {[id |-> r.first, project |-> r.project, rev |-> r.expected + 1]}

\* Mutant: the revision is not compared again inside the transaction.
CommitUnchecked(w) ==
    /\ pc[w] = "commit"
    /\ LET r == cmd[w] IN
          IF \A i \in r.ids : ExecutionOf(i) = {}
          THEN CommitWrite(r) /\ Finish(w, "OK", r.expected + 1)
          ELSE Finish(w, "EXCEPTION", 0) /\ UNCHANGED storeVars
    /\ UNCHANGED cmd

\* Mutant: command_id is not the primary key of the ledger.
CommitWithoutKey(w) ==
    /\ pc[w] = "commit"
    /\ LET r == cmd[w] IN
          IF revision[r.project] = r.expected
          THEN CommitWrite(r) /\ Finish(w, "OK", r.expected + 1)
          ELSE Finish(w, "CONCURRENCY_CONFLICT", 0) /\ UNCHANGED storeVars
    /\ UNCHANGED cmd

Commit(w) ==
    /\ pc[w] = "commit"
    /\ LET r    == cmd[w]
           cur  == revision[r.project]
           free == \A i \in r.ids : ExecutionOf(i) = {}
           same == cur # Missing /\ cur = r.expected
       IN \/ /\ ~same
             /\ Finish(w, "CONCURRENCY_CONFLICT", 0)
             /\ UNCHANGED storeVars
          \/ /\ same /\ ~free
             /\ Finish(w, "EXCEPTION", 0)
             /\ UNCHANGED storeVars
          \/ /\ same /\ free
             /\ CommitWrite(r)
             /\ Finish(w, "OK", r.expected + 1)
    /\ UNCHANGED cmd

\* The process dies, or the connection to the client is lost for good.
Crash(w) ==
    /\ pc[w] # "idle"
    /\ Finish(w, "LOST", 0)
    /\ UNCHANGED <<revision, executions, events, cmd>>

Step(w) == Lookup(w) \/ Precheck(w) \/ Commit(w)

WorkerStep(w) == Submit(w) \/ Step(w) \/ Crash(w)

\* delete_project: the ledger and the events of the project stay.  Its id was
\* a fresh UUID, so a project that is deleted, or was never created, is not
\* created later under an id that a request names.
DeleteProject(p) ==
    /\ revision[p] # Missing
    /\ revision' = [revision EXCEPT ![p] = Missing]
    /\ UNCHANGED <<executions, events, pc, cmd, result>>

Next ==
    \/ \E w \in Workers : WorkerStep(w)
    \/ \E p \in Projects : DeleteProject(p)

Spec == Init /\ [][Next]_vars

-----------------------------------------------------------------------------
EventsOf(p) == {e \in events : e.project = p}

\* The revision of a project counts its commits: the events of a project
\* bear the revisions after the first one, each exactly once, with no gap up
\* to the current one.  A revision bumped without its event, or two workers
\* that both win the same expectedRevision (command_bus.py 348-362 is checked
\* long before state_store.py 320-375 writes), breaks it.
LedgerGapFree ==
    \A p \in Projects :
        /\ revision[p] # Missing =>
              {e.rev : e \in EventsOf(p)} = (FirstRevision + 1)..revision[p]
        /\ \A e, f \in EventsOf(p) : e.rev = f.rev => e = f

\* The audit trail and the idempotency ledger tell the same story: every
\* executed command lies in a commit that left an event, and every event's
\* command is in the ledger with the same project and revision.
EveryCommitAudited ==
    /\ \A x \in executions : \E e \in events :
          e.project = x.project /\ e.rev = x.rev
    /\ \A e \in events : \E x \in executions :
          x.id = e.id /\ x.project = e.project /\ x.rev = e.rev

\* A caller told that its command succeeded can rely on it: all the commands
\* of the request are in the ledger at the revision it was told, and a replay
\* answers for a command with the very payload the caller sent.
SuccessIsDurable ==
    \A w \in Workers :
        LET r == cmd[w] IN
        /\ result[w].code = "OK" /\ ~r.dryRun =>
              \A i \in r.ids : \E x \in executions :
                  x.id = i /\ x.project = r.project /\ x.rev = result[w].rev
        /\ result[w].code = "REPLAYED" =>
              \E x \in executions :
                  x.id = r.first /\ x.payload = r.payload /\ x.rev = result[w].rev

\* The bus implements the ledger it promises.
Committed == {[id |-> x.id, project |-> x.project, rev |-> x.rev] : x \in executions}

Ledger == INSTANCE CommandLedger WITH committed <- Committed

LedgerSpec == Ledger!Spec
=============================================================================
