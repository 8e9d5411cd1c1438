---------------------------- MODULE MCComponents ----------------------------
(***************************************************************************)
(* Parts of the system that share no state, checked side by side: each     *)
(* behaviour belongs to one of them, chosen in the initial state, and the  *)
(* others stay where they start.  The webhooks have two parts, with events *)
(* that can be encoded and events that cannot.                             *)
(***************************************************************************)
EXTENDS MCCanonicalWriters, PolicyChanges, ReviewPipeline, RevitBridge,
        WebhookDelivery, AgentChannel

CONSTANTS d1, d2

\* A placement of two detectors.
MCBatches == {<<d1, d2>>}

VARIABLE part

Parts == {"writers", "policy", "review", "bridge", "webhook", "encoding", "channel"}

NotPublished(S) == \A e \in S : publishing[e] = "none"

ASituation == CHOOSE s \in Situations : TRUE

\* The parts with several initial states have one of them while others run.
ComponentsInit ==
    /\ part \in Parts
    /\ WritersInit /\ (part # "writers" => \A p \in Projects : revision[p] = FirstRevision)
    /\ PolicyInit /\ (part # "policy" => situation = ASituation)
    /\ PipelineInit /\ (part # "review" => file = "missing" /\ rooms = {} /\ ~interrupt)
    /\ BridgeInit /\ (part # "bridge" => addin = "down")
    /\ WebhookInit
    /\ ChannelInit

ComponentsNext ==
    \/ /\ part = "writers" /\ WritersNext
       /\ UNCHANGED <<situation, pipelineVars, bridgeVars, webhookVars, channelVars>>
    \/ /\ part = "policy" /\ PolicyNext
       /\ UNCHANGED <<allVars, pipelineVars, bridgeVars, webhookVars, channelVars>>
    \/ /\ part = "review" /\ PipelineNext
       /\ UNCHANGED <<allVars, situation, bridgeVars, webhookVars, channelVars>>
    \/ /\ part = "bridge" /\ BridgeNext
       /\ UNCHANGED <<allVars, situation, pipelineVars, webhookVars, channelVars>>
    \/ /\ WebhookNext
       /\ \/ part = "webhook" /\ NotPublished(Unencodable)'
          \/ part = "encoding" /\ NotPublished(Events \ Unencodable)'
       /\ UNCHANGED <<allVars, situation, pipelineVars, bridgeVars, channelVars>>
    \/ /\ part = "channel" /\ ChannelNext
       /\ UNCHANGED <<allVars, situation, pipelineVars, bridgeVars, webhookVars>>

componentVars == <<part, allVars, situation, pipelineVars, bridgeVars, webhookVars, channelVars>>

\* What fairness asks of a part that stays where it starts is not enabled there.
ComponentsSpec ==
    /\ ComponentsInit
    /\ [][ComponentsNext /\ UNCHANGED part]_componentVars
    /\ BridgeFairness /\ WebhookFairness /\ ChannelFairness

\* Neither an update on its way to Revit nor a command that holds the lock of its
\* session depends on anybody who could refuse to go on.
PartsAreNotStuck == BridgeIsNotStuck /\ HolderIsNotStuck
=============================================================================
