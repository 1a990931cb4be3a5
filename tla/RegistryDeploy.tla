--------------------------- MODULE RegistryDeploy ---------------------------
(***************************************************************************)
(* How the registry tools put a contract on chain (mcp/airegistry.rs:      *)
(* deploy_signed, called by deploy_super_root, register_model,             *)
(* create_token_lot and deploy_contract): find it active and reuse it, or  *)
(* fund the derived address, wait for the account, send the deploy         *)
(* message, wait until it is active; then record a pointer to it.  One     *)
(* address, which does not depend on the terms its constructor is given.   *)
(***************************************************************************)
EXTENDS Naturals, FiniteSets

CONSTANTS
  Deployer,      \* tool calls that may run at once
  Terms,         \* constructor parameters asked for
  MAX_DEPLOYS    \* bound: calls made

VARIABLES
  giver,       \* whether the network is configured with a Giver (shellnet)
  account,     \* the chain: "NotFound", "Uninit" (it holds funds) or "Active"
  terms,       \* the chain: what the constructor was given
  credits,     \* transfers the Giver has sent and the account has not got
  flying,      \* deploy messages accepted and not yet executed, by terms
  deploy,      \* per deployer, where its call stands
  pointer,     \* the object store: terms of the lot recorded, {} if none
  requested,   \* history: the terms of all calls
  deployCalls

deployVars == <<giver, account, terms, credits, flying, deploy, pointer,
                requested, deployCalls>>
chain == <<account, terms, credits, flying>>

NoCall == [at |-> "idle", asked |-> {}, answer |-> "", reused |-> FALSE]

DeployInit ==
  /\ giver \in BOOLEAN
  /\ account = "NotFound" /\ terms = {} /\ credits = 0 /\ flying = {}
  /\ deploy = [d \in Deployer |-> NoCall]
  /\ pointer = {} /\ requested = {} /\ deployCalls = 0

Stands(d, where) == deploy' = [deploy EXCEPT ![d].at = where]
Answers(d, answer) == deploy' = [deploy EXCEPT ![d].at = "idle", ![d].answer = answer]

-----------------------------------------------------------------------------
(* The chain (external) *)

(* A transfer lands; out-of-band, somebody else makes it. *)
FundsLand ==
  /\ credits > 0 \/ (~giver /\ account = "NotFound")
  /\ credits' = IF credits > 0 THEN credits - 1 ELSE 0
  /\ account' = IF account = "NotFound" THEN "Uninit" ELSE account
  /\ UNCHANGED <<giver, terms, flying, deploy, pointer, requested, deployCalls>>

(* A message that is executed after its answer, or that expires. *)
MessageLands(t) ==
  /\ t \in flying
  /\ flying' = flying \ {t}
  /\ \/ account = "Uninit" /\ account' = "Active" /\ terms' = {t}
     \/ UNCHANGED <<account, terms>>
  /\ UNCHANGED <<giver, credits, deploy, pointer, requested, deployCalls>>

-----------------------------------------------------------------------------
(* deploy_signed *)

CallDeploy(d, t) ==
  /\ deploy[d].at = "idle" /\ deployCalls < MAX_DEPLOYS
  /\ deployCalls' = deployCalls + 1
  /\ requested' = requested \cup {t}
  /\ deploy' = [deploy EXCEPT ![d] = [NoCall EXCEPT !.at = "check", !.asked = {t}]]
  /\ UNCHANGED <<giver, chain, pointer>>

(* is_active, and fund_via_giver's look at the configuration. *)
CheckActive(d) ==
  /\ deploy[d].at = "check"
  /\ CASE account = "Active" ->
            deploy' = [deploy EXCEPT ![d].at = "persist", ![d].reused = TRUE]
       [] account # "Active" /\ giver -> Stands(d, "fund")
       [] OTHER -> Answers(d, "no giver")
  /\ UNCHANGED <<giver, chain, pointer, requested, deployCalls>>

(* fund_deploy_address: two transfers.  A transfer that fails ends the     *)
(* call; a zero-exit abort is taken for success, credited or not.          *)
FundViaGiver(d) ==
  /\ deploy[d].at \in {"fund", "fund again"}
  /\ credits' \in {credits, credits + 1}
  /\ \/ Stands(d, IF deploy[d].at = "fund" THEN "fund again" ELSE "wait for account")
     \/ Answers(d, "failed")
  /\ UNCHANGED <<giver, account, terms, flying, pointer, requested, deployCalls>>

WaitStatus_NoDeadline(d, where, target, next) ==
  /\ deploy[d].at = where
  /\ account = target /\ Stands(d, next)
  /\ UNCHANGED <<giver, chain, pointer, requested, deployCalls>>

WaitStatus_FirstLook(d, where, target, next) ==
  /\ deploy[d].at = where
  /\ Stands(d, next)
  /\ UNCHANGED <<giver, chain, pointer, requested, deployCalls>>

(* wait_status polls for exactly the target, up to its deadline: an        *)
(* account that is past it is waited for in vain.                          *)
WaitStatus(d, where, target, next) ==
  /\ deploy[d].at = where
  /\ \/ account = target /\ Stands(d, next)
     \/ account # target /\ Answers(d, "timeout")
  /\ UNCHANGED <<giver, chain, pointer, requested, deployCalls>>

WaitUninit(d) == WaitStatus(d, "wait for account", "Uninit", "send")
WaitActive(d) == WaitStatus(d, "wait for contract", "Active", "persist")

(* The message is executed at once, is refused (a revert on an account     *)
(* that is active meanwhile, or by the network), or is accepted without a  *)
(* result, which check_send_response lets pass; any answer may be lost.    *)
SendDeployMessage(d) ==
  /\ deploy[d].at = "send"
  /\ \/ /\ account = "Uninit" /\ account' = "Active" /\ terms' = deploy[d].asked
        /\ Stands(d, "wait for contract") \/ Answers(d, "failed")
        /\ UNCHANGED flying
     \/ /\ flying' = flying \cup deploy[d].asked
        /\ Stands(d, "wait for contract") \/ Answers(d, "failed")
        /\ UNCHANGED <<account, terms>>
     \/ Answers(d, "failed") /\ UNCHANGED <<account, terms, flying>>
  /\ UNCHANGED <<giver, credits, pointer, requested, deployCalls>>

(* put_token_lot and the like: what the call asked for is recorded under   *)
(* the address; fold_persist reports a failure beside the address.         *)
PersistPointer(d) ==
  /\ deploy[d].at = "persist"
  /\ pointer' \in {pointer, deploy[d].asked}
  /\ Answers(d, IF deploy[d].reused THEN "already_active" ELSE "deployed")
  /\ UNCHANGED <<giver, chain, requested, deployCalls>>

DeployStep(d) ==
  \/ CheckActive(d) \/ FundViaGiver(d) \/ WaitUninit(d) \/ SendDeployMessage(d)
  \/ WaitActive(d) \/ PersistPointer(d)

DeployNext ==
  \/ FundsLand \/ \E t \in Terms : MessageLands(t)
  \/ \E d \in Deployer :
       (\E t \in Terms : CallDeploy(d, t)) \/ DeployStep(d)

DeploySpec == DeployInit /\ [][DeployNext]_deployVars

(* The calls run on; nothing is assumed of the chain. *)
DeployFairness == \A d \in Deployer : WF_deployVars(DeployStep(d))

-----------------------------------------------------------------------------
(* Properties *)

(***************************************************************************)
(* What a call reports as deployed is active, even though the Giver's      *)
(* aborts are tolerated, results go missing and other calls interfere.     *)
(* The recorded pointer names an active lot, and its terms are the lot's   *)
(* as long as all calls for the address agree on them.  (When they do not, *)
(* it holds what the last call asked for: an active address is reused      *)
(* whatever it was deployed with.)                                         *)
(***************************************************************************)
PointersNameLots ==
  /\ \A d \in Deployer :
       deploy[d].answer \in {"deployed", "already_active"} => account = "Active"
  /\ pointer # {} =>
       account = "Active" /\ (Cardinality(requested) = 1 => pointer = terms)

(***************************************************************************)
(* Every call ends, whether or not the funds arrive, the message is ever   *)
(* executed or another call has made the account active before its time.   *)
(***************************************************************************)
DeployCallsEnd ==
  \A d \in Deployer : deploy[d].at # "idle" ~> deploy[d].at = "idle"
=============================================================================
