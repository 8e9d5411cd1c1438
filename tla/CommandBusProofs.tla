-------------------------- MODULE CommandBusProofs --------------------------
(***************************************************************************)
(* Proofs about CommandBus, for any number of workers, any requests and    *)
(* any projects; and, in the last part, about CanonicalWriters: what the   *)
(* ledger keeps while edits, imports and deletions change the revision.    *)
(***************************************************************************)
EXTENDS CanonicalWriters, TLAPS

(* A request that passed the comparison inside its transaction. *)
Wins(w) ==
    /\ pc[w] = "commit"
    /\ revision[cmd[w].project] # Missing
    /\ revision[cmd[w].project] = cmd[w].expected
    /\ \A i \in cmd[w].ids : ExecutionOf(i) = {}
    /\ CommitWrite(cmd[w])
    /\ Finish(w, "OK", cmd[w].expected + 1)
    /\ cmd' = cmd

(* What a client sends is well formed: the first command is among its commands. *)
LEMMA RequestIsWellFormed ==
    ASSUME NEW r \in Requests
    PROVE  /\ r.first \in CommandIds
           /\ r.ids \subseteq CommandIds
           /\ r.first \in r.ids
           /\ r.project \in Projects
           /\ r.payload \in Payloads
           /\ r.expected \in Nat
BY RequestsAssumption DEF Request

(* There is a request, so the worker's initial one is one. *)
LEMMA InitialRequest == (CHOOSE r \in Requests : TRUE) \in Requests
BY RequestsAssumption

(* Every step of a worker wins a commit or leaves the database alone. *)
LEMMA WorkerEffects ==
    ASSUME NEW w \in Workers, WorkerStep(w)
    PROVE  Wins(w) \/ UNCHANGED storeVars
<1>1. CASE Submit(w)
  BY <1>1 DEF Submit
<1>2. CASE Lookup(w)
  BY <1>2 DEF Lookup, storeVars
<1>3. CASE Precheck(w)
  BY <1>3 DEF Precheck, storeVars
<1>4. CASE Commit(w)
  BY <1>4 DEF Commit, Wins
<1>5. CASE Crash(w)
  BY <1>5 DEF Crash, storeVars
<1> QED
  BY <1>1, <1>2, <1>3, <1>4, <1>5 DEF WorkerStep, Step

-----------------------------------------------------------------------------
(* Type correctness *)

(* The places and codes a worker reaches are those of TypeOK. *)
LEMMA FinishIsTyped ==
    ASSUME TypeOK, NEW w \in Workers, NEW code \in Codes, NEW rev \in Nat, Finish(w, code, rev)
    PROVE  /\ pc' \in [Workers -> {"idle", "lookup", "precheck", "commit"}]
           /\ result' \in [Workers -> [code : Codes, rev : Nat]]
BY DEF TypeOK, Finish

LEMMA ProceedIsTyped ==
    ASSUME TypeOK, NEW w \in Workers, NEW where \in {"lookup", "precheck", "commit"}, Proceed(w, where)
    PROVE  /\ pc' \in [Workers -> {"idle", "lookup", "precheck", "commit"}]
           /\ result' \in [Workers -> [code : Codes, rev : Nat]]
BY DEF TypeOK, Proceed, NoResult, Codes

(* A commit adds well-typed rows to all three tables. *)
LEMMA CommitIsTyped ==
    ASSUME TypeOK, NEW r \in Requests, CommitWrite(r)
    PROVE  /\ revision' \in [Projects -> Nat]
           /\ executions' \subseteq Execution
           /\ events' \subseteq Event
<1> USE RequestIsWellFormed
<1>1. r.expected + 1 \in Nat
  OBVIOUS
<1>2. revision' \in [Projects -> Nat]
  BY <1>1 DEF CommitWrite, TypeOK
<1>3. {[id |-> i, project |-> r.project, payload |-> r.payload, rev |-> r.expected + 1]
          : i \in r.ids} \subseteq Execution
  BY <1>1 DEF Execution
<1>4. [id |-> r.first, project |-> r.project, rev |-> r.expected + 1] \in Event
  BY <1>1 DEF Event
<1> QED
  BY <1>2, <1>3, <1>4 DEF CommitWrite, TypeOK

LEMMA TypeInit == Init => TypeOK
BY InitialRequest DEF Init, TypeOK, Missing, FirstRevision, NoResult, Codes

LEMMA TypeStep == TypeOK /\ [Next]_vars => TypeOK'
<1> SUFFICES ASSUME TypeOK, [Next]_vars PROVE TypeOK'
  OBVIOUS
<1> USE DEF Codes
<1>1. ASSUME NEW w \in Workers, Submit(w) PROVE TypeOK'
  <2>1. PICK r \in Requests :
            /\ cmd' = [cmd EXCEPT ![w] = r]
            /\ \/ Finish(w, "REJECTED", 0)
               \/ Proceed(w, IF r.composite \/ r.dryRun THEN "precheck" ELSE "lookup")
    BY <1>1 DEF Submit
  <2>2. cmd' \in [Workers -> Requests]
    BY <2>1 DEF TypeOK
  <2>3. /\ pc' \in [Workers -> {"idle", "lookup", "precheck", "commit"}]
        /\ result' \in [Workers -> [code : Codes, rev : Nat]]
    BY <2>1, FinishIsTyped, ProceedIsTyped
  <2> QED
    BY <1>1, <2>2, <2>3 DEF Submit, storeVars, TypeOK
<1>2. ASSUME NEW w \in Workers, Lookup(w) PROVE TypeOK'
  <2>1. \A e \in ExecutionOf(cmd[w].first) : e.rev \in Nat
    BY DEF ExecutionOf, TypeOK, Execution
  <2>2. /\ pc' \in [Workers -> {"idle", "lookup", "precheck", "commit"}]
        /\ result' \in [Workers -> [code : Codes, rev : Nat]]
    BY <1>2, <2>1, FinishIsTyped, ProceedIsTyped DEF Lookup
  <2> QED
    BY <1>2, <2>2 DEF Lookup, TypeOK
<1>3. ASSUME NEW w \in Workers, Precheck(w) PROVE TypeOK'
  <2>1. cmd[w].expected \in Nat /\ revision[cmd[w].project] \in Nat
    BY RequestIsWellFormed DEF TypeOK
  <2>2. (IF revision[cmd[w].project] = Missing THEN cmd[w].expected
         ELSE revision[cmd[w].project]) \in Nat
    BY <2>1
  <2>3. /\ pc' \in [Workers -> {"idle", "lookup", "precheck", "commit"}]
        /\ result' \in [Workers -> [code : Codes, rev : Nat]]
    BY <1>3, <2>2, FinishIsTyped, ProceedIsTyped DEF Precheck
  <2> QED
    BY <1>3, <2>3 DEF Precheck, TypeOK
<1>4. ASSUME NEW w \in Workers, Commit(w) PROVE TypeOK'
  <2>1. cmd[w] \in Requests /\ cmd[w].expected + 1 \in Nat
    BY RequestIsWellFormed DEF TypeOK
  <2>2. /\ pc' \in [Workers -> {"idle", "lookup", "precheck", "commit"}]
        /\ result' \in [Workers -> [code : Codes, rev : Nat]]
    BY <1>4, <2>1, FinishIsTyped DEF Commit
  <2>3. CASE UNCHANGED storeVars
    BY <1>4, <2>2, <2>3 DEF Commit, TypeOK, storeVars
  <2>4. CASE CommitWrite(cmd[w])
    BY <1>4, <2>1, <2>2, <2>4, CommitIsTyped DEF Commit, TypeOK
  <2> QED
    BY <1>4, <2>3, <2>4 DEF Commit
<1>5. ASSUME NEW w \in Workers, Crash(w) PROVE TypeOK'
  <2>1. /\ pc' \in [Workers -> {"idle", "lookup", "precheck", "commit"}]
        /\ result' \in [Workers -> [code : Codes, rev : Nat]]
    BY <1>5, FinishIsTyped DEF Crash
  <2> QED
    BY <1>5, <2>1 DEF Crash, TypeOK
<1>6. ASSUME NEW p \in Projects, DeleteProject(p) PROVE TypeOK'
  BY <1>6 DEF DeleteProject, TypeOK, Missing
<1>7. CASE UNCHANGED vars
  BY <1>7 DEF vars, TypeOK
<1> QED
  BY <1>1, <1>2, <1>3, <1>4, <1>5, <1>6, <1>7 DEF Next, WorkerStep, Step

(* Every table and local variable of the bus keeps its type, for any workers *)
(* and requests.                                                             *)
THEOREM TypeCorrect == Spec => []TypeOK
<1>1. Init => TypeOK
  BY TypeInit
<1>2. TypeOK /\ [Next]_vars => TypeOK'
  BY TypeStep
<1> QED
  BY <1>1, <1>2, PTL DEF Spec

-----------------------------------------------------------------------------
(* The ledger only grows, and answers stay true *)

(* What worker w was told is backed by the rows of the ledger. *)
AnswerKept(w) ==
    /\ result[w].code = "OK" /\ ~cmd[w].dryRun =>
          \A i \in cmd[w].ids : \E x \in executions :
              x.id = i /\ x.project = cmd[w].project /\ x.rev = result[w].rev
    /\ result[w].code = "REPLAYED" =>
          \E x \in executions :
              x.id = cmd[w].first /\ x.payload = cmd[w].payload /\ x.rev = result[w].rev

(* Nothing a step does takes a row out of the ledger or an event out of the *)
(* audit trail: not even the deletion of the project.                        *)
LEMMA StoreGrows ==
    ASSUME [Next]_vars
    PROVE  executions \subseteq executions' /\ events \subseteq events'
<1>1. ASSUME NEW w \in Workers, WorkerStep(w) PROVE executions \subseteq executions' /\ events \subseteq events'
  BY <1>1, WorkerEffects DEF Wins, CommitWrite, storeVars
<1>2. ASSUME NEW p \in Projects, DeleteProject(p) PROVE executions \subseteq executions' /\ events \subseteq events'
  BY <1>2 DEF DeleteProject
<1> QED
  BY <1>1, <1>2 DEF Next, vars

(* An answer that was given before this step is still backed after it. *)
LEMMA OldAnswersKept ==
    ASSUME [Next]_vars, NEW w \in Workers, AnswerKept(w),
           cmd'[w] = cmd[w], result'[w] = result[w]
    PROVE  AnswerKept(w)'
BY StoreGrows DEF AnswerKept

(* A worker's own step ends with an answer that is backed. *)
LEMMA NewAnswerKept ==
    ASSUME TypeOK, NEW w \in Workers, WorkerStep(w)
    PROVE  AnswerKept(w)'
<1>1. CASE Submit(w)
  <2>1. result'[w].code \notin {"OK", "REPLAYED"}
    BY <1>1 DEF Submit, Finish, Proceed, NoResult, TypeOK
  <2> QED
    BY <2>1 DEF AnswerKept
<1>2. CASE Lookup(w)
  <2>1. CASE Proceed(w, "precheck")
    BY <2>1 DEF AnswerKept, Proceed, NoResult, TypeOK
  <2>2. ASSUME NEW e \in ExecutionOf(cmd[w].first), e.payload = cmd[w].payload,
               Finish(w, "REPLAYED", e.rev)
        PROVE  AnswerKept(w)'
    <3>1. result'[w] = [code |-> "REPLAYED", rev |-> e.rev]
      BY <2>2 DEF Finish, TypeOK
    <3>2. e \in executions' /\ e.id = cmd'[w].first /\ cmd' = cmd
      BY <1>2 DEF Lookup, ExecutionOf
    <3> QED
      BY <2>2, <3>1, <3>2 DEF AnswerKept
  <2>3. CASE Finish(w, "IDEMPOTENCY_KEY_REUSE_CONFLICT", 0)
    BY <2>3 DEF AnswerKept, Finish, TypeOK
  <2> QED
    BY <1>2, <2>1, <2>2, <2>3 DEF Lookup
<1>3. CASE Precheck(w)
  <2>1. cmd' = cmd
    BY <1>3 DEF Precheck
  <2>2. result'[w].code # "REPLAYED" /\ (result'[w].code = "OK" => cmd[w].dryRun)
    BY <1>3 DEF Precheck, Finish, Proceed, NoResult, TypeOK
  <2> QED
    BY <2>1, <2>2 DEF AnswerKept
<1>4. CASE Commit(w)
  <2>1. CASE Finish(w, "CONCURRENCY_CONFLICT", 0) \/ Finish(w, "EXCEPTION", 0)
    BY <2>1 DEF AnswerKept, Finish, TypeOK
  <2>2. CASE CommitWrite(cmd[w]) /\ Finish(w, "OK", cmd[w].expected + 1)
    <3>1. result'[w] = [code |-> "OK", rev |-> cmd[w].expected + 1] /\ cmd' = cmd
      BY <1>4, <2>2 DEF Commit, Finish, TypeOK
    <3>2. \A i \in cmd[w].ids :
             [id |-> i, project |-> cmd[w].project, payload |-> cmd[w].payload,
              rev |-> cmd[w].expected + 1] \in executions'
      BY <2>2 DEF CommitWrite
    <3>3. ASSUME NEW i \in cmd[w].ids
          PROVE  \E x \in executions' :
                    x.id = i /\ x.project = cmd[w].project /\ x.rev = cmd[w].expected + 1
      <4> DEFINE row == [id |-> i, project |-> cmd[w].project, payload |-> cmd[w].payload,
                         rev |-> cmd[w].expected + 1]
      <4>2. row \in executions'
        BY <3>2
      <4>3. row.id = i /\ row.project = cmd[w].project /\ row.rev = cmd[w].expected + 1
        OBVIOUS
      <4> QED
        BY <4>2, <4>3
    <3> QED
      BY <3>1, <3>3 DEF AnswerKept
  <2> QED
    BY <1>4, <2>1, <2>2 DEF Commit
<1>5. CASE Crash(w)
  BY <1>5 DEF Crash, AnswerKept, Finish, TypeOK
<1> QED
  BY <1>1, <1>2, <1>3, <1>4, <1>5 DEF WorkerStep, Step

(* A worker's step touches its own request and answer only. *)
LEMMA OthersUntouched ==
    ASSUME TypeOK, NEW w \in Workers, WorkerStep(w), NEW v \in Workers \ {w}
    PROVE  cmd'[v] = cmd[v] /\ result'[v] = result[v]
BY DEF WorkerStep, Step, Submit, Lookup, Precheck, Commit, Crash, Finish, Proceed, TypeOK

(* SuccessIsDurable: whoever was told OK or was answered from the ledger finds *)
(* the commands there, at that revision and for ever.                          *)
THEOREM SuccessIsKept == Spec => []SuccessIsDurable
<1> DEFINE Kept == \A w \in Workers : AnswerKept(w)
<1>1. Init => Kept
  BY DEF Init, AnswerKept, NoResult
<1>2. TypeOK /\ Kept /\ [Next]_vars => Kept'
  <2> SUFFICES ASSUME TypeOK, Kept, [Next]_vars, NEW v \in Workers PROVE AnswerKept(v)'
    OBVIOUS
  <2>1. ASSUME NEW w \in Workers, WorkerStep(w) PROVE AnswerKept(v)'
    BY <2>1, OthersUntouched, OldAnswersKept, NewAnswerKept
  <2>2. ASSUME NEW p \in Projects, DeleteProject(p) PROVE AnswerKept(v)'
    BY <2>2, OldAnswersKept DEF DeleteProject
  <2>3. CASE UNCHANGED vars
    BY <2>3, OldAnswersKept DEF vars
  <2> QED
    BY <2>1, <2>2, <2>3 DEF Next
<1>3. Kept => SuccessIsDurable
  BY DEF AnswerKept, SuccessIsDurable
<1> QED
  BY <1>1, <1>2, <1>3, TypeCorrect, PTL DEF Spec

-----------------------------------------------------------------------------
(* Revision, events and ledger *)

(* A winning commit gives the project one event, of the next revision. *)
LEMMA WinnersEvent ==
    ASSUME TypeOK, NEW w \in Workers, Wins(w), NEW p \in Projects
    PROVE  EventsOf(p)' = IF p = cmd[w].project
                          THEN EventsOf(p) \cup
                               {[id |-> cmd[w].first, project |-> p, rev |-> revision[p] + 1]}
                          ELSE EventsOf(p)
BY DEF Wins, CommitWrite, EventsOf, TypeOK

(* ... and raises its revision, and no other project's. *)
LEMMA WinnersRevision ==
    ASSUME TypeOK, NEW w \in Workers, Wins(w), NEW p \in Projects
    PROVE  /\ cmd[w].project \in Projects
           /\ revision[cmd[w].project] \in Nat \ {Missing}
           /\ revision'[p] = IF p = cmd[w].project THEN revision[p] + 1 ELSE revision[p]
BY RequestIsWellFormed DEF Wins, CommitWrite, TypeOK

(* LedgerGapFree holds because the revision is compared in the transaction     *)
(* that raises it.  The events of a project that has been deleted stay, but   *)
(* since no commit wins without a row, they get no company.                   *)
THEOREM NoGapNoTwin == Spec => []LedgerGapFree
<1>1. Init => LedgerGapFree
  BY DEF Init, LedgerGapFree, EventsOf, Missing, FirstRevision
<1>2. TypeOK /\ LedgerGapFree /\ [Next]_vars => LedgerGapFree'
  <2> SUFFICES ASSUME TypeOK, LedgerGapFree, [Next]_vars, NEW p \in Projects
               PROVE  /\ revision'[p] # Missing =>
                            {e.rev : e \in EventsOf(p)'} = (FirstRevision + 1)..revision'[p]
                      /\ \A e, f \in EventsOf(p)' : e.rev = f.rev => e = f
    BY DEF LedgerGapFree
  <2>1. ASSUME NEW w \in Workers, Wins(w)
        PROVE  /\ revision'[p] # Missing =>
                     {e.rev : e \in EventsOf(p)'} = (FirstRevision + 1)..revision'[p]
               /\ \A e, f \in EventsOf(p)' : e.rev = f.rev => e = f
    <3>1. CASE p # cmd[w].project
      BY <2>1, <3>1, WinnersEvent, WinnersRevision DEF LedgerGapFree
    <3>2. CASE p = cmd[w].project
      <4> DEFINE n == revision[p]
                 new == [id |-> cmd[w].first, project |-> p, rev |-> n + 1]
      <4>1. n \in Nat \ {0} /\ revision'[p] = n + 1
        BY <2>1, <3>2, WinnersRevision DEF Missing
      <4>2. EventsOf(p)' = EventsOf(p) \cup {new}
        BY <2>1, <3>2, WinnersEvent
      <4>3. {e.rev : e \in EventsOf(p)} = (FirstRevision + 1)..n
        BY <4>1 DEF LedgerGapFree, Missing
      <4>4. {e.rev : e \in EventsOf(p)'} = {e.rev : e \in EventsOf(p)} \cup {n + 1}
        <5>1. new.rev = n + 1
          OBVIOUS
        <5>2. ASSUME NEW v
              PROVE  (\E e \in EventsOf(p)' : v = e.rev)
                        <=> (\E e \in EventsOf(p) : v = e.rev) \/ v = n + 1
          <6> HIDE DEF new, n
          <6> QED
            BY <4>2, <5>1
        <5> HIDE DEF new, n
        <5> QED
          BY <5>2
      <4>5. ((FirstRevision + 1)..n) \cup {n + 1} = (FirstRevision + 1)..(n + 1)
        BY <4>1 DEF FirstRevision
      <4>6. \A e \in EventsOf(p) : e.rev # n + 1
        <5> SUFFICES ASSUME NEW e \in EventsOf(p) PROVE e.rev # n + 1
          OBVIOUS
        <5>1. e.rev \in (FirstRevision + 1)..n
          BY <4>3
        <5> QED
          BY <5>1, <4>1 DEF FirstRevision
      <4>7. \A e, f \in EventsOf(p)' : e.rev = f.rev => e = f
        BY <4>2, <4>6 DEF LedgerGapFree
      <4> QED
        BY <4>1, <4>3, <4>4, <4>5, <4>7
    <3> QED
      BY <3>1, <3>2
  <2>2. ASSUME NEW q \in Projects, DeleteProject(q)
        PROVE  /\ revision'[p] # Missing =>
                     {e.rev : e \in EventsOf(p)'} = (FirstRevision + 1)..revision'[p]
               /\ \A e, f \in EventsOf(p)' : e.rev = f.rev => e = f
    BY <2>2 DEF DeleteProject, LedgerGapFree, EventsOf, TypeOK
  <2>3. CASE UNCHANGED storeVars
    BY <2>3 DEF storeVars, LedgerGapFree, EventsOf
  <2> QED
    BY <2>1, <2>2, <2>3, WorkerEffects DEF Next, vars, storeVars
<1> QED
  BY <1>1, <1>2, TypeCorrect, PTL DEF Spec

(* EveryCommitAudited: the event of a commit is filed under one of its       *)
(* commands, and all of them bear its revision.                              *)
THEOREM AuditIsComplete == Spec => []EveryCommitAudited
<1>1. Init => EveryCommitAudited
  BY DEF Init, EveryCommitAudited
<1>2. TypeOK /\ EveryCommitAudited /\ [Next]_vars => EveryCommitAudited'
  <2> SUFFICES ASSUME TypeOK, EveryCommitAudited, [Next]_vars PROVE EveryCommitAudited'
    OBVIOUS
  <2>1. ASSUME NEW w \in Workers, Wins(w) PROVE EveryCommitAudited'
    <3> DEFINE r == cmd[w]
               ev == [id |-> r.first, project |-> r.project, rev |-> r.expected + 1]
               Row(i) == [id |-> i, project |-> r.project, payload |-> r.payload,
                          rev |-> r.expected + 1]
    <3>1. /\ executions' = executions \cup {Row(i) : i \in r.ids}
          /\ events' = events \cup {ev}
      BY <2>1 DEF Wins, CommitWrite
    <3>2. r.first \in r.ids
      BY RequestIsWellFormed DEF TypeOK
    <3>3. \A x \in executions' : \E e \in events' : e.project = x.project /\ e.rev = x.rev
      <4>1. ASSUME NEW x \in executions
            PROVE  \E e \in events' : e.project = x.project /\ e.rev = x.rev
        BY <3>1 DEF EveryCommitAudited
      <4>2. ASSUME NEW i \in r.ids
            PROVE  \E e \in events' : e.project = Row(i).project /\ e.rev = Row(i).rev
        <5>1. ev \in events' /\ ev.project = Row(i).project /\ ev.rev = Row(i).rev
          BY <3>1
        <5> QED
          BY <5>1
      <4> HIDE DEF ev, Row, r
      <4> QED
        BY <3>1, <4>1, <4>2
    <3>4. Row(r.first) \in executions'
      BY <3>1, <3>2
    <3>5. \A e \in events' : \E x \in executions' :
              x.id = e.id /\ x.project = e.project /\ x.rev = e.rev
      <4>1. ASSUME NEW e \in events
            PROVE  \E x \in executions' : x.id = e.id /\ x.project = e.project /\ x.rev = e.rev
        BY <3>1 DEF EveryCommitAudited
      <4>2. /\ Row(r.first).id = ev.id
            /\ Row(r.first).project = ev.project
            /\ Row(r.first).rev = ev.rev
        OBVIOUS
      <4> HIDE DEF ev, Row, r
      <4> QED
        BY <3>1, <3>4, <4>1, <4>2
    <3> QED
      BY <3>3, <3>5 DEF EveryCommitAudited
  <2>2. ASSUME NEW p \in Projects, DeleteProject(p) PROVE EveryCommitAudited'
    BY <2>2 DEF DeleteProject, EveryCommitAudited
  <2>3. CASE UNCHANGED storeVars
    BY <2>3 DEF storeVars, EveryCommitAudited
  <2> QED
    BY <2>1, <2>2, <2>3, WorkerEffects DEF Next, vars, storeVars
<1> QED
  BY <1>1, <1>2, TypeCorrect, PTL DEF Spec

-----------------------------------------------------------------------------
(* Refinement *)

(* A winning commit is a commit of the abstract ledger: of all the commands  *)
(* of the request, at the next revision.                                     *)
LEMMA WinIsLedgerCommit ==
    ASSUME TypeOK, NEW w \in Workers, Wins(w),
           NEW p \in Projects, p = cmd[w].project,
           NEW ids, ids = cmd[w].ids
    PROVE  Ledger!Commit(p, ids)
<1> DEFINE Row(i) == [id |-> i, project |-> p, payload |-> cmd[w].payload,
                      rev |-> revision[p] + 1]
           Entry(x) == [id |-> x.id, project |-> x.project, rev |-> x.rev]
           New(i) == [id |-> i, project |-> p, rev |-> revision[p] + 1]
<1>1. revision[p] = cmd[w].expected /\ revision[p] # Ledger!Missing
  BY DEF Wins, Missing, Ledger!Missing
<1>2. \A e \in Committed : e.id \notin ids
  BY DEF Wins, ExecutionOf, Committed
<1>3. revision' = [revision EXCEPT ![p] = @ + 1]
  BY <1>1 DEF Wins, CommitWrite
<1>4. executions' = executions \cup {Row(i) : i \in ids}
  BY <1>1 DEF Wins, CommitWrite
<1>5. \A i \in ids : Entry(Row(i)) = New(i)
  OBVIOUS
<1>6. Committed' = Committed \cup {New(i) : i \in ids}
  <2>1. Committed = {Entry(x) : x \in executions} /\ Committed' = {Entry(x) : x \in executions'}
    BY DEF Committed
  <2> HIDE DEF Row, Entry, New
  <2>2. ASSUME NEW v
        PROVE  (\E x \in executions' : v = Entry(x))
                  <=> (\E x \in executions : v = Entry(x)) \/ (\E i \in ids : v = New(i))
    BY <1>4, <1>5
  <2> QED
    BY <2>1, <2>2
<1> QED
  BY <1>1, <1>2, <1>3, <1>6 DEF Ledger!Commit

(* LedgerSpec: the bus with its workers, crashes, replays and deletions is an *)
(* implementation of CommandLedger.                                          *)
THEOREM BusImplementsLedger == Spec => LedgerSpec
<1>1. Init => Ledger!Init
  BY DEF Init, Ledger!Init, Committed, Missing, Ledger!Missing, FirstRevision, Ledger!FirstRevision
<1>2. TypeOK /\ [Next]_vars => [Ledger!Next]_(Ledger!vars)
  <2> SUFFICES ASSUME TypeOK, [Next]_vars PROVE [Ledger!Next]_(Ledger!vars)
    OBVIOUS
  <2>1. ASSUME NEW w \in Workers, Wins(w) PROVE Ledger!Next
    <3>1. PICK p \in Projects : p = cmd[w].project
      BY RequestIsWellFormed DEF TypeOK
    <3>2. PICK ids \in (SUBSET CommandIds) \ {{}} : ids = cmd[w].ids
      BY RequestIsWellFormed DEF TypeOK
    <3>3. Ledger!Commit(p, ids)
      BY <2>1, <3>1, <3>2, WinIsLedgerCommit
    <3> QED
      BY <3>3 DEF Ledger!Next
  <2>2. ASSUME NEW p \in Projects, DeleteProject(p) PROVE Ledger!Next
    BY <2>2 DEF DeleteProject, Ledger!Next, Ledger!Delete, Committed, Missing, Ledger!Missing
  <2>3. CASE UNCHANGED storeVars
    BY <2>3 DEF storeVars, Ledger!vars, Committed
  <2> QED
    BY <2>1, <2>2, <2>3, WorkerEffects DEF Next, vars, storeVars
<1> QED
  BY <1>1, <1>2, TypeCorrect, PTL DEF Spec, LedgerSpec, Ledger!Spec

-----------------------------------------------------------------------------
(* Edits and imports beside the bus: theorems about WritersSpec.            *)

(* The only step that writes to the ledger is a commit whose commands are   *)
(* not in it.  Nothing is said of the revision, for nothing can be relied on. *)
LEMMA LedgerWrites ==
    ASSUME [WritersNext]_allVars
    PROVE  \/ executions' = executions
           \/ \E w \in Workers :
                 /\ \A i \in cmd[w].ids : ExecutionOf(i) = {}
                 /\ CommitWrite(cmd[w])
<1>1. ASSUME NEW w \in Workers, WorkerStep(w)
      PROVE  \/ executions' = executions
             \/ /\ \A i \in cmd[w].ids : ExecutionOf(i) = {}
                /\ CommitWrite(cmd[w])
  BY <1>1 DEF WorkerStep, Step, Submit, Lookup, Precheck, Commit, Crash, storeVars
<1>2. CASE Delete
  BY <1>2 DEF Delete, DeleteProject
<1>3. ASSUME NEW e \in Editors, EditRead(e) \/ EditSet(e) \/ EditSave(e)
      PROVE  executions' = executions
  BY <1>3 DEF EditRead, ReadRevision, EditSet, EditSave, Upsert, vars
<1>4. ASSUME NEW i \in Importers, ImportRead(i) \/ ImportWrite(i)
      PROVE  executions' = executions
  BY <1>4 DEF ImportRead, ReadRevision, ImportWrite, Upsert, vars
<1> QED
  BY <1>1, <1>2, <1>3, <1>4 DEF WritersNext, BusStep, allVars, vars

(* AtMostOnce: whatever the revision has become, a command id has one row.    *)
THEOREM NoSecondExecution == WritersSpec => []AtMostOnce
<1>1. WritersInit => AtMostOnce
  BY DEF WritersInit, Init, AtMostOnce
<1>2. AtMostOnce /\ [WritersNext]_allVars => AtMostOnce'
  <2> SUFFICES ASSUME AtMostOnce, [WritersNext]_allVars PROVE AtMostOnce'
    OBVIOUS
  <2>1. CASE executions' = executions
    BY <2>1 DEF AtMostOnce
  <2>2. ASSUME NEW w \in Workers, \A i \in cmd[w].ids : ExecutionOf(i) = {}, CommitWrite(cmd[w])
        PROVE  AtMostOnce'
    <3> DEFINE Row(i) == [id |-> i, project |-> cmd[w].project, payload |-> cmd[w].payload,
                          rev |-> cmd[w].expected + 1]
    <3>1. executions' = executions \cup {Row(i) : i \in cmd[w].ids}
      BY <2>2 DEF CommitWrite
    <3>2. \A i \in cmd[w].ids : Row(i).id = i
      OBVIOUS
    <3>3. \A x \in executions : x.id \notin cmd[w].ids
      BY <2>2 DEF ExecutionOf
    <3> HIDE DEF Row
    <3> SUFFICES ASSUME NEW d \in executions', NEW e \in executions', d.id = e.id PROVE d = e
      BY DEF AtMostOnce
    <3>4. CASE d \in executions /\ e \in executions
      BY <3>4 DEF AtMostOnce
    <3>5. CASE d \notin executions /\ e \notin executions
      BY <3>1, <3>2, <3>5
    <3>6. CASE (d \in executions) # (e \in executions)
      BY <3>1, <3>2, <3>3, <3>6
    <3> QED
      BY <3>4, <3>5, <3>6
  <2> QED
    BY <2>1, <2>2, LedgerWrites
<1> QED
  BY <1>1, <1>2, PTL DEF WritersSpec

(* WritersTypeOK: the handlers keep to their places, and hold one loop.       *)
THEOREM HandlersTypeCorrect == WritersSpec => []WritersTypeOK
<1>1. WritersInit => WritersTypeOK
  BY RequestsAssumption DEF WritersInit, WritersTypeOK, Request
<1>2. WritersTypeOK /\ [WritersNext]_allVars => WritersTypeOK'
  <2> SUFFICES ASSUME WritersTypeOK, [WritersNext]_allVars PROVE WritersTypeOK'
    OBVIOUS
  <2> USE DEF WritersTypeOK
  <2>1. CASE BusStep \/ Delete \/ UNCHANGED allVars
    BY <2>1 DEF BusStep, Delete, allVars, writerVars
  <2>2. ASSUME NEW h \in Handlers, NEW p \in Projects, NEW where \in {"set", "write"},
               ReadRevision(h, p, where)
        PROVE  WritersTypeOK'
    BY <2>2, WritersAssumption DEF ReadRevision, Goto
  <2>3. ASSUME NEW e \in Editors, EditSet(e) \/ EditSave(e)
        PROVE  WritersTypeOK'
    BY <2>3 DEF EditSet, EditSave, Goto, Handlers
  <2>4. ASSUME NEW i \in Importers, ImportWrite(i)
        PROVE  WritersTypeOK'
    BY <2>4 DEF ImportWrite, Goto, Handlers
  <2> QED
    BY <2>1, <2>2, <2>3, <2>4 DEF WritersNext, EditRead, ImportRead, Handlers
<1> QED
  BY <1>1, <1>2, PTL DEF WritersSpec

(* Both the bus and the handlers beside it keep the types of the tables.     *)
LEMMA BothTyped == WritersSpec => [](TypeOK /\ WritersTypeOK)
<1>1. WritersInit => TypeOK
  BY TypeInit DEF WritersInit
<1>2. TypeOK /\ WritersTypeOK /\ [WritersNext]_allVars => TypeOK'
  <2> SUFFICES ASSUME TypeOK, WritersTypeOK, [WritersNext]_allVars PROVE TypeOK'
    OBVIOUS
  <2>1. CASE BusStep \/ Delete \/ UNCHANGED vars
    <3>1. [Next]_vars
      BY <2>1 DEF BusStep, Delete, Next
    <3> QED
      BY <3>1, TypeStep
  <2>2. ASSUME NEW h \in Handlers, Upsert(h) PROVE TypeOK'
    BY <2>2 DEF Upsert, TypeOK, WritersTypeOK
  <2>3. \/ BusStep \/ Delete \/ UNCHANGED vars
        \/ \E h \in Handlers : Upsert(h)
    BY DEF WritersNext, EditRead, EditSet, EditSave, ImportRead, ImportWrite, ReadRevision,
           Handlers, allVars
  <2> QED
    BY <2>1, <2>2, <2>3
<1> QED
  BY <1>1, <1>2, HandlersTypeCorrect, PTL DEF WritersSpec

(* Rows enter the ledger by a commit that wins, and no other way.            *)
LEMMA OnlyWinnersWrite ==
    ASSUME [WritersNext]_allVars
    PROVE  executions' = executions \/ \E w \in Workers : Wins(w)
<1>1. ASSUME BusStep PROVE executions' = executions \/ \E w \in Workers : Wins(w)
  BY <1>1, WorkerEffects DEF BusStep, storeVars
<1>2. CASE Delete
  BY <1>2 DEF Delete, DeleteProject
<1>3. ASSUME NEW e \in Editors, EditRead(e) \/ EditSet(e) \/ EditSave(e)
      PROVE  executions' = executions
  BY <1>3 DEF EditRead, ReadRevision, EditSet, EditSave, Upsert, vars
<1>4. ASSUME NEW i \in Importers, ImportRead(i) \/ ImportWrite(i)
      PROVE  executions' = executions
  BY <1>4 DEF ImportRead, ReadRevision, ImportWrite, Upsert, vars
<1> QED
  BY <1>1, <1>2, <1>3, <1>4 DEF WritersNext, allVars, vars

(* A commit that wins is, for the client of a project, a commit of those of  *)
(* its own commands that are in it, or a disturbance if there is none.       *)
LEMMA WinSeenByClient ==
    ASSUME TypeOK, TypeOK', NEW w \in Workers, Wins(w),
           NEW p \in Projects, NEW own \in SUBSET CommandIds
    PROVE  View(p, own)!Next
<1> DEFINE mine == {i \in cmd[w].ids : p = cmd[w].project /\ i \in own}
           Row(i) == [id |-> i, project |-> cmd[w].project, payload |-> cmd[w].payload,
                      rev |-> cmd[w].expected + 1]
           Entry(x) == [id |-> x.id, rev |-> x.rev]
           Own(x) == x.project = p /\ x.id \in own
           New(i) == [id |-> i, rev |-> cmd[w].expected + 1]
<1>1. executions' = executions \cup {Row(i) : i \in cmd[w].ids}
  BY DEF Wins, CommitWrite
<1>2. \A i \in cmd[w].ids : Entry(Row(i)) = New(i) /\ (Own(Row(i)) <=> i \in mine)
  OBVIOUS
<1>3. /\ ClientCommits(p, own) = {Entry(x) : x \in {y \in executions : Own(y)}}
      /\ ClientCommits(p, own)' = {Entry(x) : x \in {y \in executions' : Own(y)}}
  BY DEF ClientCommits
<1>4. ClientCommits(p, own)' = ClientCommits(p, own) \cup {New(i) : i \in mine}
  <2>1. mine \subseteq cmd[w].ids
    OBVIOUS
  <2> HIDE DEF Row, Entry, Own, New, mine
  <2>2. ASSUME NEW v
        PROVE  (\E x \in executions' : Own(x) /\ v = Entry(x))
                  <=> \/ \E x \in executions : Own(x) /\ v = Entry(x)
                      \/ \E i \in mine : v = New(i)
    BY <1>1, <1>2, <2>1
  <2> QED
    BY <1>3, <2>2
<1>5. CASE mine = {}
  <2>1. UNCHANGED ClientCommits(p, own)
    BY <1>4, <1>5
  <2>2. revision'[p] \in Nat
    BY DEF TypeOK
  <2> QED
    BY <2>1, <2>2 DEF View!Next, View!Disturb
<1>6. CASE mine # {}
  <2>1. p = cmd[w].project /\ mine \in (SUBSET own) \ {{}}
    BY <1>6
  <2>2. revision[p] = cmd[w].expected /\ revision[p] # 0 /\ revision'[p] = revision[p] + 1
    BY <2>1, WinnersRevision DEF Wins, Missing
  <2>3. \A e \in ClientCommits(p, own) : e.id \notin mine
    BY DEF Wins, ExecutionOf, ClientCommits
  <2>4. ClientCommits(p, own)' = ClientCommits(p, own) \cup {[id |-> i, rev |-> revision[p] + 1] : i \in mine}
    BY <1>4, <2>2
  <2> HIDE DEF mine
  <2>5. View(p, own)!Commit(mine)
    BY <2>2, <2>3, <2>4 DEF View!Commit
  <2> QED
    BY <2>1, <2>5 DEF View!Next
<1> QED
  BY <1>5, <1>6

(* A step beside the bus: the ledger stays, the revision may be any.         *)
LEMMA StepSeenByClient ==
    ASSUME TypeOK, TypeOK', [WritersNext]_allVars,
           NEW p \in Projects, NEW own \in SUBSET CommandIds
    PROVE  View(p, own)!Next
<1>1. CASE executions' = executions
  <2>1. UNCHANGED ClientCommits(p, own)
    BY <1>1 DEF ClientCommits
  <2>2. revision'[p] \in Nat
    BY DEF TypeOK
  <2> QED
    BY <2>1, <2>2 DEF View!Next, View!Disturb
<1> QED
  BY <1>1, OnlyWinnersWrite, WinSeenByClient

(* Nothing is committed at first, whatever revision the project starts at.   *)
LEMMA ClientsStart ==
    ASSUME WritersInit, NEW p \in Projects, NEW own \in SUBSET CommandIds
    PROVE  View(p, own)!Init
BY DEF WritersInit, Init, ClientCommits, Missing, FirstRevision, View!Init

(* Every client of every project sees a SharedLedger: the bus serves it the   *)
(* same whichever edits, imports and deletions run beside it.                 *)
THEOREM BusServesClient ==
    ASSUME NEW CONSTANT p \in Projects, NEW CONSTANT own \in SUBSET CommandIds
    PROVE  WritersSpec => View(p, own)!Spec
<1>1. WritersInit => View(p, own)!Init
  BY ClientsStart
<1>2. TypeOK /\ TypeOK' /\ [WritersNext]_allVars => [View(p, own)!Next]_(View(p, own)!vars)
  BY StepSeenByClient
<1> QED
  BY <1>1, <1>2, BothTyped, PTL DEF WritersSpec, View!Spec

(* ClientsAreServed: the same of all clients at once.                         *)
THEOREM BusServesEverybody == WritersSpec => ClientsAreServed
<1> DEFINE Start == \A p \in Projects, own \in SUBSET CommandIds : View(p, own)!Init
           Seen == \A p \in Projects, own \in SUBSET CommandIds :
                      [View(p, own)!Next]_(View(p, own)!vars)
<1>1. WritersInit => Start
  BY ClientsStart
<1>2. TypeOK /\ TypeOK' /\ [WritersNext]_allVars => [Seen]_allVars
  BY StepSeenByClient
<1>3. ClientsAreServed <=> Start /\ [][Seen]_allVars
  BY DEF ClientsAreServed
<1> HIDE DEF Start, Seen
<1> QED
  BY <1>1, <1>2, <1>3, BothTyped, PTL DEF WritersSpec
=============================================================================
