---------------------------- MODULE CommandCalls ----------------------------
(***************************************************************************)
(* What request handlers may rely on when they command the desktop agent:  *)
(* a session has one command on the wire, a command is sent once, and an   *)
(* answer is that of the caller's own command.  A caller that was told of  *)
(* an error knows nothing, unless its command never left.  The module      *)
(* knows no futures, locks, registry or links: AgentChannel implements it. *)
(***************************************************************************)
CONSTANTS Sessions, Calls

VARIABLES wire,     \* the call each session is at, if any
          command,  \* what has become of a call's command: "none", "sent", "executed"
          outcome   \* what the caller got

callingVars == <<wire, command, outcome>>

CallsInit ==
    /\ wire = [s \in Sessions |-> {}]
    /\ command = [c \in Calls |-> "none"]
    /\ outcome = [c \in Calls |-> "none"]

Waiting(c) == outcome[c] = "none" /\ \A s \in Sessions : c \notin wire[s]

End(c, texts) == \E text \in texts : outcome' = [outcome EXCEPT ![c] = text]

\* The command leaves; that nobody is there to read it need not be noticed.
Open(c, s) ==
    /\ Waiting(c) /\ command[c] = "none"
    /\ wire[s] = {}
    /\ wire' = [wire EXCEPT ![s] = {c}]
    /\ \E now \in {"none", "sent"} : command' = [command EXCEPT ![c] = now]
    /\ UNCHANGED outcome

\* The agent may execute a command that its caller has given up.
Execute(c) ==
    /\ command[c] = "sent"
    /\ command' = [command EXCEPT ![c] = "executed"]
    /\ UNCHANGED <<wire, outcome>>

\* An answer, "ok" or the agent's error, is that of an executed command.
Close(c, s) ==
    /\ wire[s] = {c}
    /\ wire' = [wire EXCEPT ![s] = {}]
    /\ End(c, {"502", "504"}) \/ (command[c] = "executed" /\ End(c, {"ok", "400"}))
    /\ UNCHANGED command

\* No agent, a command it does not know, or a link that is down.
Fail(c) ==
    /\ Waiting(c) /\ command[c] = "none"
    /\ End(c, {"400", "502", "503"})
    /\ UNCHANGED <<wire, command>>

CallsNext ==
    \E c \in Calls : Execute(c) \/ Fail(c) \/ \E s \in Sessions : Open(c, s) \/ Close(c, s)

CallsSpec == CallsInit /\ [][CallsNext]_callingVars
=============================================================================
