---------------------------- MODULE MessageSend ----------------------------
(***************************************************************************)
(* Sending one external message and what its sender makes of the answer:   *)
(* the shared path of wallet/query.rs, on which most callers report        *)
(* success without looking at the effect; the Giver fixture of             *)
(* wallet/giver.rs, which tolerates one kind of abort; and deploy_multisig *)
(* of wallet/multisig.rs with ChainClient::deploy, which use both.  The    *)
(* Block Manager and the chain are external.                               *)
(***************************************************************************)
EXTENDS Integers, FiniteSets

CONSTANTS
  Kind,         \* wallet versions, told apart by their code hash
  ForwardOnly   \* versions this crate has no code for

ASSUME SendAssumption == ForwardOnly \subseteq Kind

NoCode == -1
FAILURE == 403   \* a compute exit code other than zero

VARIABLES
  job,      \* what is asked for: [path, kind, funding]
  stage,    \* where the sender is
  outcome,  \* the chain: what became of the last message sent
  verdict,  \* what check_bm_error made of the answer to it
  wallet,   \* the chain: status of the account at the deploy address
  report    \* what the sender answered: "none", "ok" or "error"

sendVars == <<job, stage, outcome, verdict, wallet, report>>

Jobs ==
  [path : {"call", "giver"}, kind : {"none"}, funding : {"none"}]
    \cup [path : {"deploy"}, kind : Kind, funding : {"giver", "prefunded"}]

(* MultisigKind::tvc *)
Deployable(kind) == kind \notin ForwardOnly

SendInit ==
  /\ job \in Jobs
  /\ stage = "start" /\ outcome = "none" /\ verdict = "none" /\ report = "none"
  /\ wallet \in {"NonExist", "Uninit"}

-----------------------------------------------------------------------------
(* The Block Manager's answers (external) *)

Outcomes ==
  {"refused", "queued", "done", "reverted", "aborted with exit 0", "aborted"}

Answer(error, exit, aborted) == [error |-> error, exit |-> exit, aborted |-> aborted]

PossibleAnswers(result) ==
  CASE result = "refused"  -> {Answer(TRUE, NoCode, FALSE)}
    [] result = "reverted" -> {Answer(TRUE, FAILURE, FALSE), Answer(FALSE, FAILURE, TRUE),
                               Answer(FALSE, FAILURE, FALSE)}
    [] result = "queued"   -> {Answer(FALSE, NoCode, FALSE)}
    [] result = "done"     -> {Answer(FALSE, 0, FALSE)}
    [] result = "aborted"  -> {Answer(FALSE, NoCode, TRUE)}
    [] OTHER               -> {Answer(FALSE, 0, TRUE)}

(* check_bm_error with extract_exit_code: an HTTP 200 is not yet a success. *)
CheckBmError(answer) ==
  CASE answer.error                               -> "rejected"
    [] ~answer.error /\ answer.exit \notin {NoCode, 0} -> "nonzero exit"
    [] OTHER -> IF ~answer.aborted THEN "ok"
                ELSE IF answer.exit = 0 THEN "zero-exit abort" ELSE "abort"

(* is_benign_giver_zero_exit_abort *)
Tolerated == {"ok", "zero-exit abort"}

-----------------------------------------------------------------------------
(* Sending *)

Reports(what) == stage' = "end" /\ report' = what

(* send_message: the routing fields are read from the chain first; the     *)
(* request, or its answer, may be lost.  Effects are the callers'.         *)
SendMessage(accepted, next) ==
  \/ Reports("error") /\ UNCHANGED <<outcome, verdict>>
  \/ \E result \in Outcomes :
       /\ outcome' = result
       /\ \/ Reports("error") /\ UNCHANGED verdict
          \/ \E answer \in PossibleAnswers(result) :
               /\ verdict' = CheckBmError(answer)
               /\ IF verdict' \in accepted
                  THEN IF next = "end" THEN Reports("ok")
                       ELSE stage' = next /\ UNCHANGED report
                  ELSE Reports("error")

(* ChainClient::call and the wallet's transactions. *)
SendCall ==
  /\ job.path = "call" /\ stage = "start"
  /\ SendMessage({"ok"}, "end")
  /\ UNCHANGED <<job, wallet>>

(* send_shell and send_currency_with_flag *)
SendFromGiver ==
  /\ job.path = "giver" /\ stage = "start"
  /\ SendMessage(Tolerated, "end")
  /\ UNCHANGED <<job, wallet>>

(* The message is built before anything is paid. *)
StartDeploy ==
  /\ job.path = "deploy" /\ stage = "start"
  /\ \/ Reports("error")
     \/ /\ Deployable(job.kind)
        /\ stage' = IF job.funding = "giver" THEN "fund" ELSE "deploy"
        /\ UNCHANGED report
  /\ UNCHANGED <<job, outcome, verdict, wallet>>

(* fund_deploy_address: two transfers to the address. *)
FundDeployAddress ==
  /\ stage \in {"fund", "fund again"}
  /\ SendMessage(Tolerated, IF stage = "fund" THEN "fund again" ELSE "deploy")
  /\ \/ wallet' = wallet
     \/ /\ wallet = "NonExist" /\ outcome' \in {"done", "aborted with exit 0"}
        /\ wallet' = "Uninit"
  /\ UNCHANGED job

SendDeploy ==
  /\ stage = "deploy"
  /\ SendMessage({"ok"}, "await")
  /\ wallet' = IF wallet = "Uninit" /\ outcome' = "done" THEN "Active" ELSE wallet
  /\ UNCHANGED job

(* What was queued is executed, and may yet revert or abort (external). *)
QueuedLands ==
  /\ outcome = "queued"
  /\ \/ outcome' = "failed later" /\ UNCHANGED wallet
     \/ /\ outcome' = "done"
        /\ wallet' = CASE stage = "await" /\ wallet = "Uninit" -> "Active"
                       [] stage \in {"fund again", "deploy"} /\ wallet = "NonExist" -> "Uninit"
                       [] OTHER -> wallet
  /\ UNCHANGED <<job, stage, verdict, report>>

(* get_account: one that is not there is no error; an answer without its   *)
(* balances is.                                                            *)
AccountReads == {IF wallet = "NonExist" THEN "none" ELSE wallet, "error"}

AwaitActive_Accepted ==
  /\ stage = "await"
  /\ \E read \in AccountReads :
       IF read = "error" THEN Reports("error")
       ELSE stage' = "verify" /\ UNCHANGED report
  /\ UNCHANGED <<job, outcome, verdict, wallet>>

(* Polled until the deadline; a read that fails ends the call. *)
AwaitActive ==
  /\ stage = "await"
  /\ \E read \in AccountReads :
       IF read = "Active" THEN stage' = "verify" /\ UNCHANGED report
       ELSE Reports("error")
  /\ UNCHANGED <<job, outcome, verdict, wallet>>

(* The code hash is looked at once more.  It is the vendored code's, so    *)
(* only the read can fail; an account that is not found is let pass.       *)
VerifyCodeHash ==
  /\ stage = "verify"
  /\ \E read \in AccountReads : Reports(IF read = "error" THEN "error" ELSE "ok")
  /\ UNCHANGED <<job, outcome, verdict, wallet>>

SendNext ==
  \/ SendCall \/ SendFromGiver
  \/ StartDeploy \/ FundDeployAddress \/ SendDeploy \/ AwaitActive
  \/ VerifyCodeHash \/ QueuedLands

SendSpec == SendInit /\ [][SendNext]_sendVars

-----------------------------------------------------------------------------
(* Properties *)

(* Executed, in the queue, or executed from the queue, well or badly. *)
Taken == {"done", "queued", "failed later"}

(***************************************************************************)
(* What is reported done is done.  A message that is reported sent was     *)
(* executed, or was in the queue when the answer came, where it may fail   *)
(* later: a refusal with HTTP 200, a revert and an abort are errors, and   *)
(* only the Giver's transfers are let off, for an abort whose compute      *)
(* phase exited with 0.  A wallet that is reported deployed is active: an  *)
(* address that got no funds, although the transfers were tolerated,       *)
(* queued to fail, or the caller said it was funded, is an error and never *)
(* a half-deployed wallet.                                                 *)
(***************************************************************************)
NoFalseSuccess ==
  report = "ok" =>
    CASE job.path = "call"   -> outcome \in Taken
      [] job.path = "giver"  -> outcome \in Taken \cup {"aborted with exit 0"}
      [] job.path = "deploy" -> wallet = "Active" /\ job.kind \notin ForwardOnly
=============================================================================
