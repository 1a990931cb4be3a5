------------------------------- MODULE MCFlows -------------------------------
(***************************************************************************)
(* Small instances, side by side, of the agent's longer running flows:     *)
(* starting it, the block pipeline, sending messages, deploying registry   *)
(* contracts, onboarding private notes, following an event log, and the    *)
(* rate limiter with its clock.  They share no state, so each behaviour    *)
(* picks one at the start and is a behaviour of that flow; the others stay *)
(* where they begin.                                                       *)
(***************************************************************************)
EXTENDS BlockPipeline, RegistryDeploy, EventStream, NoteOnboarding,
        AuthBootstrap, MessageSend, TxRateLimiter

VARIABLE flow

Flow == {"pipeline", "deploy", "stream", "notes", "auth", "send", "limiter"}

(* Where a flow may begin in several ways, only its own behaviours differ. *)
FlowsInit ==
  /\ flow \in Flow
  /\ PipelineInit /\ DeployInit /\ StreamInit /\ OnboardingInit
  /\ AuthInit /\ SendInit /\ LimiterInit
  /\ flow # "deploy" => giver
  /\ flow # "stream" => home = "own" /\ family = "registry" /\ origin = "self" /\ override = "none"
  /\ flow # "send" => job.path = "call" /\ wallet = "Uninit"

PipelineMoves == flow = "pipeline" /\ PipelineNext
  /\ UNCHANGED <<deployVars, streamVars, noteVars, authVars, sendVars, limiterVars>>
DeployMoves == flow = "deploy" /\ DeployNext
  /\ UNCHANGED <<pipelineVars, streamVars, noteVars, authVars, sendVars, limiterVars>>
StreamMoves == flow = "stream" /\ StreamNext
  /\ UNCHANGED <<pipelineVars, deployVars, noteVars, authVars, sendVars, limiterVars>>
OnboardingMoves == flow = "notes" /\ OnboardingNext
  /\ UNCHANGED <<pipelineVars, deployVars, streamVars, authVars, sendVars, limiterVars>>
AuthMoves == flow = "auth" /\ AuthNext
  /\ UNCHANGED <<pipelineVars, deployVars, streamVars, noteVars, sendVars, limiterVars>>
SendMoves == flow = "send" /\ SendNext
  /\ UNCHANGED <<pipelineVars, deployVars, streamVars, noteVars, authVars, limiterVars>>
LimiterMoves == flow = "limiter" /\ LimiterNext
  /\ UNCHANGED <<pipelineVars, deployVars, streamVars, noteVars, authVars, sendVars>>

FlowsNext ==
  /\ \/ PipelineMoves \/ DeployMoves \/ StreamMoves \/ OnboardingMoves
     \/ AuthMoves \/ SendMoves \/ LimiterMoves
  /\ UNCHANGED flow

flowsVars == <<flow, pipelineVars, deployVars, streamVars, noteVars, authVars,
               sendVars, limiterVars>>

(* Each flow brings the fairness it states for itself; an action of a flow *)
(* that was not picked is never enabled, so nothing is asked of it.        *)
FlowsSpec ==
  /\ FlowsInit /\ [][FlowsNext]_flowsVars
  /\ PipelineFairness /\ DeployFairness /\ StreamFairness

-----------------------------------------------------------------------------
(* Event streams: a registration, one whose fields are cut short, and an   *)
(* event of the other family.                                              *)

SomeMessages ==
  {[out |-> TRUE, abi |-> "SuperRoot", event |-> "RootRegistered", whole |-> w] :
     w \in BOOLEAN}
  \cup {[out |-> TRUE, abi |-> "OrderBook", event |-> "InferenceFilled", whole |-> TRUE]}
=============================================================================
