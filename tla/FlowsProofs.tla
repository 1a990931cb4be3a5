----------------------------- MODULE FlowsProofs -----------------------------
(***************************************************************************)
(* Proofs about the agent's longer running flows: starting it              *)
(* (AuthBootstrap), sending messages (MessageSend), putting registry       *)
(* contracts on chain (RegistryDeploy), the way of a block to gosh.memory  *)
(* (BlockPipeline), reading an event log page by page (EventStream) and    *)
(* paying for private notes (NoteOnboarding).                              *)
(***************************************************************************)
EXTENDS AuthBootstrap, MessageSend, RegistryDeploy, BlockPipeline, EventStream,
        NoteOnboarding, FiniteSetTheorems, TLAPS

-----------------------------------------------------------------------------
(* Starting the agent *)

Generations == written \cup spoiled

AuthTyped ==
  /\ written \subseteq Nat \ {0} /\ spoiled \subseteq Nat \ {0}
  /\ written \cap spoiled = {}
  /\ authFile \in written \cup {Absent}
  /\ auth \in written \cup {Absent}

(***************************************************************************)
(* A bootstrap file that is there is the newest.                           *)
(***************************************************************************)
BootFileInv ==
  \/ bootFile = NoFile
  \/ /\ bootFile.gen \in IF bootFile.good THEN written ELSE spoiled
     /\ \A g \in Generations : g <= bootFile.gen

(***************************************************************************)
(* From the reading of the bootstrap file to its removal the generation    *)
(* started with is in it, and at the end in memory-auth.json as well.      *)
(***************************************************************************)
SavingInv ==
  /\ step \in {"save", "rename", "remove"} =>
       auth \in written /\ bootFile.gen = auth /\ bootFile # NoFile
  /\ step = "rename" => tmpFile = auth
  /\ step = "remove" => authFile = auth

(* From the registration on, the key is registered or the log says so.     *)
AnnouncedInv == step \in {"bind", "serving"} => registered = secret \/ warned

AuthInv ==
  AuthTyped /\ BootFileInv /\ SavingInv /\ AnnouncedInv /\ TokenNeverLost
  /\ UnopenedWasAnnounced

(***************************************************************************)
(* Before the first start nothing is lost.                                 *)
(***************************************************************************)
LEMMA AuthInitially == AuthInit => AuthInv
  BY DEF AuthInit, AuthInv, AuthTyped, BootFileInv, SavingInv, AnnouncedInv,
         TokenNeverLost, UnopenedWasAnnounced, Absent

(***************************************************************************)
(* Every step of the operator, of a start and of a crash keeps the         *)
(* invariant.                                                              *)
(***************************************************************************)
LEMMA AuthStep == AuthInv /\ [AuthNext]_authVars => AuthInv'
  <1> SUFFICES ASSUME AuthInv, [AuthNext]_authVars
               PROVE  AuthInv'
    OBVIOUS
  <1> USE DEF AuthInv
  <1>1. ASSUME NEW g \in 1..LAST_GENERATION, NEW good \in BOOLEAN,
               WriteBootstrap(g, good)
        PROVE  AuthInv'
    <2>1. /\ bootFile = NoFile /\ g \notin Generations
          /\ \A h \in Generations : h < g
          /\ bootFile' = [gen |-> g, good |-> good]
          /\ written' = (IF good THEN written \cup {g} ELSE written)
          /\ spoiled' = (IF good THEN spoiled ELSE spoiled \cup {g})
          /\ UNCHANGED <<authFile, tmpFile, step, auth, secret, registered, resolved, warned>>
      BY <1>1 DEF WriteBootstrap, Generations, memoryState
    <2>2. g \in Nat \ {0}
      BY GenerationAssumption
    <2>3. AuthTyped'
      BY <2>1, <2>2 DEF AuthTyped, Generations
    <2>4. /\ bootFile'.gen = g /\ bootFile'.good = good /\ bootFile' # NoFile
          /\ bootFile.gen = 0
      BY <2>1, <2>2 DEF NoFile, Absent
    <2>5. BootFileInv'
      <3>1. \A h \in Generations' : h <= g
        BY <2>1, <2>2 DEF AuthTyped, Generations
      <3> QED BY <2>1, <2>4, <3>1 DEF BootFileInv
    <2>6. SavingInv'
      BY <2>1 DEF SavingInv
    <2>7. TokenNeverLost'
      <3>1. ASSUME NEW h \in written', \A k \in written' : k <= h
            PROVE  bootFile'.gen = h \/ authFile' = h
        <4>1. CASE good
          <5>1. g \in written' /\ g <= h /\ h <= g
            BY <2>1, <2>2, <3>1, <4>1 DEF Generations, AuthTyped
          <5> QED BY <2>2, <2>4, <5>1, <2>3 DEF AuthTyped
        <4>2. CASE ~good
          <5>1. h \in written /\ \A k \in written : k <= h
            BY <2>1, <3>1, <4>2
          <5>2. bootFile.gen = h \/ authFile = h
            BY <5>1 DEF TokenNeverLost
          <5> QED BY <2>1, <2>4, <5>1, <5>2 DEF AuthTyped
        <4> QED BY <4>1, <4>2
      <3> QED BY <3>1 DEF TokenNeverLost
    <2> QED BY <2>1, <2>3, <2>5, <2>6, <2>7 DEF AnnouncedInv, UnopenedWasAnnounced
  <1>2. CASE ReplaceSpoiled
    <2>1. /\ bootFile.gen \in spoiled /\ bootFile' = NoFile
          /\ UNCHANGED <<authFile, tmpFile, step, auth, secret, registered, resolved,
                         warned, written, spoiled>>
      BY <1>2 DEF ReplaceSpoiled, memoryState, history
    <2>2. SavingInv'
      BY <2>1 DEF SavingInv, AuthTyped
    <2>3. TokenNeverLost'
      BY <2>1 DEF TokenNeverLost, AuthTyped
    <2> QED BY <2>1, <2>2, <2>3 DEF AuthTyped, BootFileInv, AnnouncedInv,
               UnopenedWasAnnounced
  <1>3. CASE PreflightFails
    BY <1>3 DEF PreflightFails, disk, memoryState, AuthTyped, BootFileInv, SavingInv,
                AnnouncedInv, TokenNeverLost, UnopenedWasAnnounced, Generations
  <1>4. CASE StartFromBootstrap
    <2>1. /\ step = "down" /\ warned' = FALSE /\ resolved' = ""
          /\ UNCHANGED <<bootFile, authFile, tmpFile, registered, written, spoiled>>
          /\ IF Accepted
             THEN auth' = bootFile.gen /\ secret' = bootFile.gen /\ step' = "save"
             ELSE UNCHANGED <<auth, secret, step>>
      BY <1>4 DEF StartFromBootstrap, disk
    <2>2. Accepted => bootFile # NoFile /\ bootFile.gen \in written
      BY DEF Accepted, BootFileInv
    <2>3. AuthTyped' /\ SavingInv'
      BY <2>1, <2>2 DEF AuthTyped, SavingInv
    <2> QED BY <2>1, <2>3 DEF BootFileInv, Generations, AnnouncedInv, TokenNeverLost,
               UnopenedWasAnnounced
  <1>5. ASSUME NEW kept \in written, StartFromSaved(kept)
        PROVE  AuthInv'
    <2>1. /\ step = "down" /\ warned' = FALSE /\ resolved' = ""
          /\ UNCHANGED <<bootFile, authFile, tmpFile, registered, written, spoiled>>
          /\ IF authFile = Absent
             THEN UNCHANGED <<auth, secret, step>>
             ELSE auth' = authFile /\ secret' = kept /\ step' = "register"
      BY <1>5 DEF StartFromSaved, disk
    <2>2. AuthTyped' /\ SavingInv'
      BY <2>1 DEF AuthTyped, SavingInv
    <2> QED BY <2>1, <2>2 DEF BootFileInv, Generations, AnnouncedInv, TokenNeverLost,
               UnopenedWasAnnounced
  <1>6. CASE WriteTmp
    BY <1>6 DEF WriteTmp, memoryState, history, AuthTyped, BootFileInv, SavingInv,
                AnnouncedInv, TokenNeverLost, UnopenedWasAnnounced, Generations
  <1>7. CASE RenameTmp
    <2>1. /\ step = "rename" /\ authFile' = tmpFile /\ step' = "remove"
          /\ UNCHANGED <<bootFile, auth, secret, registered, resolved, warned, written, spoiled>>
      BY <1>7 DEF RenameTmp, memoryState, history
    <2>2. tmpFile = auth /\ auth \in written /\ bootFile.gen = auth /\ bootFile # NoFile
      BY <2>1 DEF SavingInv
    <2>3. AuthTyped' /\ SavingInv' /\ BootFileInv'
      BY <2>1, <2>2 DEF AuthTyped, SavingInv, BootFileInv, Generations
    <2>4. TokenNeverLost'
      <3>1. ASSUME NEW h \in written, \A k \in written : k <= h
            PROVE  bootFile.gen = h
        <4>1. h <= bootFile.gen /\ bootFile.gen <= h
          BY <2>2, <3>1 DEF BootFileInv, Generations
        <4> QED BY <2>2, <4>1 DEF AuthTyped
      <3> QED BY <2>1, <3>1 DEF TokenNeverLost
    <2> QED BY <2>1, <2>3, <2>4 DEF AnnouncedInv, UnopenedWasAnnounced
  <1>8. CASE RemoveBootstrap
    <2>1. /\ step = "remove" /\ bootFile' \in {bootFile, NoFile} /\ step' = "register"
          /\ UNCHANGED <<authFile, tmpFile, auth, secret, registered, resolved, warned,
                         written, spoiled>>
      BY <1>8 DEF RemoveBootstrap, memoryState, history
    <2>2. bootFile.gen = authFile
      BY <2>1 DEF SavingInv
    <2>3. TokenNeverLost'
      BY <2>1, <2>2 DEF TokenNeverLost
    <2> QED BY <2>1, <2>3 DEF AuthTyped, SavingInv, BootFileInv, Generations,
               AnnouncedInv, UnopenedWasAnnounced
  <1>9. CASE RegisterPublicKey
    BY <1>9 DEF RegisterPublicKey, disk, memoryState, history, AuthTyped, BootFileInv,
                SavingInv, AnnouncedInv, TokenNeverLost, UnopenedWasAnnounced, Generations
  <1>10. CASE BindPort
    BY <1>10 DEF BindPort, disk, memoryState, AuthTyped, BootFileInv,
                 SavingInv, AnnouncedInv, TokenNeverLost, UnopenedWasAnnounced, Generations
  <1>11. CASE ResolveSecret
    BY <1>11 DEF ResolveSecret, disk, memoryState, history, AuthTyped, BootFileInv,
                 SavingInv, AnnouncedInv, TokenNeverLost, UnopenedWasAnnounced, Generations
  <1>12. CASE Crash
    BY <1>12 DEF Crash, memoryState, history, AuthTyped, BootFileInv,
                 SavingInv, AnnouncedInv, TokenNeverLost, UnopenedWasAnnounced, Generations
  <1>13. CASE UNCHANGED authVars
    BY <1>13 DEF authVars, disk, memoryState, history, AuthTyped, BootFileInv,
                 SavingInv, AnnouncedInv, TokenNeverLost, UnopenedWasAnnounced, Generations
  <1> QED BY <1>1, <1>2, <1>3, <1>4, <1>5, <1>6, <1>7, <1>8, <1>9, <1>10, <1>11,
             <1>12, <1>13 DEF AuthNext

(***************************************************************************)
(* However often the process is started and wherever it crashes: the       *)
(* newest valid token stays in one of the two files, a refused bootstrap   *)
(* file changes nothing, and a secret that cannot be opened was announced. *)
(***************************************************************************)
THEOREM RestartsStaySafe == AuthSpec => []RestartsLoseNothing
  <1>1. AuthInv => RestartsLoseNothing
    BY DEF AuthInv, AuthTyped, RestartsLoseNothing, RefusedBootstrapHarmless, Absent
  <1> QED BY <1>1, AuthInitially, AuthStep, PTL DEF AuthSpec

-----------------------------------------------------------------------------
(* Sending messages *)

(***************************************************************************)
(* A sender that has not come to its end has reported nothing; what it     *)
(* reports then is so.                                                     *)
(***************************************************************************)
SendInv ==
  /\ job \in Jobs
  /\ stage # "end" => report = "none"
  /\ stage \in {"fund", "fund again", "deploy", "await", "verify"} =>
       job.path = "deploy" /\ Deployable(job.kind)
  /\ stage = "verify" => wallet = "Active"
  /\ NoFalseSuccess

(***************************************************************************)
(* Taking an answer for a success: what check_bm_error lets pass, and the  *)
(* abort the Giver's callers tolerate.                                     *)
(***************************************************************************)
LEMMA AcceptedIsSent ==
  ASSUME NEW result \in Outcomes, NEW answer \in PossibleAnswers(result)
  PROVE  /\ CheckBmError(answer) = "ok" => result \in {"done", "queued"}
         /\ CheckBmError(answer) \in Tolerated
              => result \in {"done", "queued", "aborted with exit 0"}
  <1>1. CASE result = "refused"
    BY <1>1 DEF PossibleAnswers, CheckBmError, Answer, Tolerated
  <1>2. CASE result = "reverted"
    BY <1>2 DEF PossibleAnswers, CheckBmError, Answer, Tolerated, NoCode, FAILURE
  <1>3. CASE result = "aborted"
    <2>1. answer = [error |-> FALSE, exit |-> NoCode, aborted |-> TRUE]
      BY <1>3 DEF PossibleAnswers, Answer
    <2>2. answer.error = FALSE /\ answer.exit = NoCode /\ answer.aborted = TRUE
      BY <2>1
    <2>3. NoCode # 0
      BY DEF NoCode
    <2>4. CheckBmError(answer) = "abort"
      BY <2>2, <2>3 DEF CheckBmError
    <2> QED BY <2>4 DEF Tolerated
  <1>4. CASE result = "aborted with exit 0"
    <2>1. answer = [error |-> FALSE, exit |-> 0, aborted |-> TRUE]
      BY <1>4 DEF PossibleAnswers, Answer
    <2>2. answer.error = FALSE /\ answer.exit = 0 /\ answer.aborted = TRUE
      BY <2>1
    <2>3. CheckBmError(answer) = "zero-exit abort"
      BY <2>2 DEF CheckBmError
    <2> QED BY <1>4, <2>3
  <1>5. CASE result \in {"done", "queued"}
    BY <1>5
  <1> QED BY <1>1, <1>2, <1>3, <1>4, <1>5 DEF Outcomes

(***************************************************************************)
(* Every step of the sender and of the chain keeps the invariant.          *)
(***************************************************************************)
LEMMA SendStep == SendInv /\ [SendNext]_sendVars => SendInv'
  <1> SUFFICES ASSUME SendInv, [SendNext]_sendVars
               PROVE  SendInv'
    OBVIOUS
  <1>1. CASE SendCall
    <2>1. /\ job.path = "call" /\ stage = "start" /\ UNCHANGED <<job, wallet>>
          /\ SendMessage({"ok"}, "end")
      BY <1>1 DEF SendCall
    <2>2. \/ stage' = "end" /\ report' = "error"
          \/ /\ stage' = "end" /\ report' = "ok"
             /\ \E result \in Outcomes : \E answer \in PossibleAnswers(result) :
                  outcome' = result /\ CheckBmError(answer) = "ok"
      BY <2>1 DEF SendMessage, Reports
    <2>3. \/ stage' = "end" /\ report' = "error"
          \/ stage' = "end" /\ report' = "ok" /\ outcome' \in {"done", "queued"}
      BY <2>2, AcceptedIsSent
    <2> QED BY <2>1, <2>3 DEF SendInv, NoFalseSuccess, Taken
  <1>2. CASE SendFromGiver
    <2>1. /\ job.path = "giver" /\ stage = "start" /\ UNCHANGED <<job, wallet>>
          /\ SendMessage(Tolerated, "end")
      BY <1>2 DEF SendFromGiver
    <2>2. \/ stage' = "end" /\ report' = "error"
          \/ /\ stage' = "end" /\ report' = "ok"
             /\ \E result \in Outcomes : \E answer \in PossibleAnswers(result) :
                  outcome' = result /\ CheckBmError(answer) \in Tolerated
      BY <2>1 DEF SendMessage, Reports
    <2>3. \/ stage' = "end" /\ report' = "error"
          \/ /\ stage' = "end" /\ report' = "ok"
             /\ outcome' \in {"done", "queued", "aborted with exit 0"}
      BY <2>2, AcceptedIsSent
    <2> QED BY <2>1, <2>3 DEF SendInv, NoFalseSuccess, Taken
  <1>3. CASE StartDeploy
    BY <1>3 DEF StartDeploy, Reports, SendInv, NoFalseSuccess
  <1>4. CASE FundDeployAddress
    <2>1. /\ stage \in {"fund", "fund again"} /\ job' = job
          /\ SendMessage(Tolerated, IF stage = "fund" THEN "fund again" ELSE "deploy")
      BY <1>4 DEF FundDeployAddress
    <2>2. \/ stage' = "end" /\ report' = "error"
          \/ stage' \in {"fund again", "deploy"} /\ report' = report
      BY <2>1 DEF SendMessage, Reports
    <2> QED BY <2>1, <2>2 DEF SendInv, NoFalseSuccess
  <1>5. CASE SendDeploy
    <2>1. stage = "deploy" /\ job' = job /\ SendMessage({"ok"}, "await")
      BY <1>5 DEF SendDeploy
    <2>2. \/ stage' = "end" /\ report' = "error"
          \/ stage' = "await" /\ report' = report
      BY <2>1 DEF SendMessage, Reports
    <2> QED BY <2>1, <2>2 DEF SendInv, NoFalseSuccess
  <1>6. CASE AwaitActive
    <2>1. /\ stage = "await" /\ UNCHANGED <<job, wallet>>
          /\ \/ wallet = "Active" /\ stage' = "verify" /\ report' = report
             \/ stage' = "end" /\ report' = "error"
      BY <1>6 DEF AwaitActive, AccountReads, Reports
    <2> QED BY <2>1 DEF SendInv, NoFalseSuccess
  <1>7. CASE VerifyCodeHash
    BY <1>7 DEF VerifyCodeHash, Reports, SendInv, NoFalseSuccess, Deployable, Jobs
  <1>8. CASE QueuedLands
    <2>1. /\ outcome' \in {"done", "failed later"} /\ UNCHANGED <<job, stage, report>>
          /\ wallet = "Active" => wallet' = "Active"
      BY <1>8 DEF QueuedLands
    <2>2. job.path \in {"call", "giver", "deploy"}
      BY DEF SendInv, Jobs
    <2>3. NoFalseSuccess'
      BY <2>1, <2>2 DEF SendInv, NoFalseSuccess, Taken
    <2> QED BY <2>1, <2>3 DEF SendInv
  <1>9. CASE UNCHANGED sendVars
    BY <1>9 DEF sendVars, SendInv, NoFalseSuccess
  <1> QED BY <1>1, <1>2, <1>3, <1>4, <1>5, <1>6, <1>7, <1>8, <1>9 DEF SendNext

(***************************************************************************)
(* What a sender reports done is done, whatever the Block Manager answers, *)
(* whatever is lost and whenever, and however, a queued message lands.     *)
(***************************************************************************)
THEOREM SuccessIsNeverFalse == SendSpec => []NoFalseSuccess
  <1>1. SendInit => SendInv
    BY DEF SendInit, SendInv, NoFalseSuccess
  <1>2. SendInv => NoFalseSuccess
    BY DEF SendInv
  <1> QED BY <1>1, <1>2, SendStep, PTL DEF SendSpec

-----------------------------------------------------------------------------
(* Registry contracts *)

Asked == {{t} : t \in requested}

(***************************************************************************)
(* Where one call stands.                                                  *)
(***************************************************************************)
CallRecords ==
  [at : {"idle", "check", "fund", "fund again", "wait for account", "send",
         "wait for contract", "persist"},
   asked : {{}} \cup Asked,
   answer : {"", "no giver", "failed", "timeout", "deployed", "already_active"},
   reused : BOOLEAN]

CallInv(c) ==
  /\ c.at # "idle" => c.asked \in Asked
  /\ c.at = "persist" => account = "Active"
  /\ c.answer \in {"deployed", "already_active"} => account = "Active"

(***************************************************************************)
(* What is on its way to the chain, on it or recorded of it was asked for  *)
(* by some call.                                                           *)
(***************************************************************************)
DeployInv ==
  /\ IsFiniteSet(requested)
  /\ flying \subseteq requested
  /\ deploy \in [Deployer -> CallRecords]
  /\ \A d \in Deployer : CallInv(deploy[d])
  /\ account = "Active" => terms \in Asked
  /\ pointer # {} => account = "Active" /\ pointer \in Asked

(***************************************************************************)
(* Before the first call nothing has been recorded.                        *)
(***************************************************************************)
LEMMA DeployInitially == DeployInit => DeployInv
  <1> SUFFICES ASSUME DeployInit
               PROVE  DeployInv
    OBVIOUS
  <1>1. NoCall \in CallRecords /\ CallInv(NoCall)
    BY DEF NoCall, CallRecords, CallInv
  <1>2. IsFiniteSet(requested)
    BY FS_EmptySet DEF DeployInit
  <1> QED BY <1>1, <1>2 DEF DeployInit, DeployInv

(***************************************************************************)
(* What the chain does on its own: an active account stays active, with    *)
(* its terms, and becomes active only with terms that were asked for.      *)
(***************************************************************************)
ChainMoves ==
  /\ account = "Active" => account' = "Active" /\ terms' = terms
  /\ account # "Active" /\ account' = "Active" => terms' \in Asked

(***************************************************************************)
(* A step of one call keeps the invariant if what it leaves of the call    *)
(* does, and the chain moves as it may.                                    *)
(***************************************************************************)
LEMMA OneCallMoves ==
  ASSUME DeployInv, ChainMoves, NEW d \in Deployer, NEW c,
         deploy' = [deploy EXCEPT ![d] = c], c \in CallRecords, CallInv(c)',
         requested' = requested, flying' \subseteq requested,
         pointer' = pointer \/ (account' = "Active" /\ pointer' \in Asked)
  PROVE  DeployInv'
  <1>1. deploy' \in [Deployer -> CallRecords]
    BY DEF DeployInv
  <1>2. CallRecords' = CallRecords /\ Asked' = Asked
    BY DEF CallRecords, Asked
  <1>3. ASSUME NEW e \in Deployer
        PROVE  CallInv(deploy[e])'
    <2>1. CASE e = d
      <3>1. deploy'[e] = c
        BY <2>1 DEF DeployInv
      <3> QED BY <3>1 DEF CallInv
    <2>2. CASE e # d
      <3>1. deploy'[e] = deploy[e]
        BY <2>2 DEF DeployInv
      <3>2. CallInv(deploy[e])
        BY DEF DeployInv
      <3> QED BY <1>2, <3>1, <3>2 DEF CallInv, ChainMoves
    <2> QED BY <2>1, <2>2
  <1>4. account' = "Active" => terms' \in Asked
    BY DEF ChainMoves, DeployInv
  <1>5. pointer' # {} => account' = "Active" /\ pointer' \in Asked
    BY DEF ChainMoves, DeployInv
  <1> QED BY <1>1, <1>2, <1>3, <1>4, <1>5 DEF DeployInv

(***************************************************************************)
(* A call that moves on, or that answers, keeps the invariant.             *)
(***************************************************************************)
LEMMA CallStands ==
  ASSUME DeployInv, ChainMoves, NEW d \in Deployer, NEW where, Stands(d, where),
         where \in {"fund", "fund again", "wait for account", "send",
                    "wait for contract", "persist"},
         where = "persist" => account' = "Active",
         deploy[d].at # "idle", requested' = requested, flying' \subseteq requested,
         pointer' = pointer
  PROVE  DeployInv'
  <1> PICK c : c = [deploy[d] EXCEPT !.at = where]
    OBVIOUS
  <1>1. deploy[d] \in CallRecords /\ CallInv(deploy[d]) /\ deploy \in [Deployer -> CallRecords]
    BY DEF DeployInv
  <1>2. deploy' = [deploy EXCEPT ![d] = c]
    BY <1>1 DEF Stands
  <1>3. /\ c \in CallRecords /\ c.at = where /\ c.asked = deploy[d].asked
        /\ c.answer = deploy[d].answer
    BY <1>1 DEF CallRecords
  <1>4. CallInv(c)'
    BY <1>1, <1>3 DEF CallInv, ChainMoves, Asked
  <1> QED BY <1>2, <1>3, <1>4, OneCallMoves

(***************************************************************************)
(* A call may answer, and record what it deployed, if what it says of the  *)
(* account is true.                                                        *)
(***************************************************************************)
LEMMA CallAnswers ==
  ASSUME DeployInv, ChainMoves, NEW d \in Deployer, NEW answer, Answers(d, answer),
         answer \in {"no giver", "failed", "timeout", "deployed", "already_active"},
         answer \in {"deployed", "already_active"} => account' = "Active",
         requested' = requested, flying' \subseteq requested,
         pointer' = pointer \/ (account' = "Active" /\ pointer' \in Asked)
  PROVE  DeployInv'
  <1> PICK c : c = [deploy[d] EXCEPT !.at = "idle", !.answer = answer]
    OBVIOUS
  <1>1. deploy[d] \in CallRecords /\ deploy \in [Deployer -> CallRecords]
    BY DEF DeployInv
  <1>2. deploy' = [deploy EXCEPT ![d] = c]
    BY <1>1 DEF Answers
  <1>3. c \in CallRecords /\ c.at = "idle" /\ c.answer = answer
    BY <1>1 DEF CallRecords
  <1>4. CallInv(c)'
    BY <1>3 DEF CallInv
  <1> QED BY <1>2, <1>3, <1>4, OneCallMoves

(***************************************************************************)
(* Every step of a call and of the chain keeps the invariant.              *)
(***************************************************************************)
LEMMA DeployNextStep == DeployInv /\ [DeployNext]_deployVars => DeployInv'
  <1> SUFFICES ASSUME DeployInv, [DeployNext]_deployVars
               PROVE  DeployInv'
    OBVIOUS
  <1>1. \A d \in Deployer : deploy[d] \in CallRecords /\ CallInv(deploy[d])
    BY DEF DeployInv
  <1>2. deploy \in [Deployer -> CallRecords] /\ flying \subseteq requested
    BY DEF DeployInv
  <1>3. ASSUME UNCHANGED <<deploy, pointer, requested>>, ChainMoves,
               flying' \subseteq requested
        PROVE  DeployInv'
    <2>1. CallRecords' = CallRecords /\ Asked' = Asked
      BY <1>3 DEF CallRecords, Asked
    <2>2. \A d \in Deployer : CallInv(deploy[d])'
      BY <1>1, <1>3, <2>1 DEF CallInv, ChainMoves
    <2> QED BY <1>3, <2>1, <2>2 DEF DeployInv, ChainMoves
  <1>4. CASE FundsLand
    <2>1. UNCHANGED <<deploy, pointer, requested, flying, terms>>
          /\ (account' = "Active" <=> account = "Active")
      BY <1>4 DEF FundsLand
    <2>2. ChainMoves
      BY <2>1 DEF ChainMoves
    <2> QED BY <1>2, <1>3, <2>1, <2>2
  <1>5. ASSUME NEW t \in Terms, MessageLands(t)
        PROVE  DeployInv'
    <2>1. /\ t \in requested /\ flying' \subseteq requested
          /\ UNCHANGED <<deploy, pointer, requested>>
      BY <1>2, <1>5 DEF MessageLands
    <2>2. ChainMoves
      BY <1>5, <2>1 DEF MessageLands, ChainMoves, Asked
    <2> QED BY <1>3, <2>1, <2>2
  <1>6. ASSUME NEW d \in Deployer, NEW t \in Terms, CallDeploy(d, t)
        PROVE  DeployInv'
    <2> DEFINE c == [NoCall EXCEPT !.at = "check", !.asked = {t}]
    <2>1. /\ deploy' = [deploy EXCEPT ![d] = c] /\ requested' = requested \cup {t}
          /\ UNCHANGED <<account, terms, flying, pointer>>
      BY <1>6 DEF CallDeploy, chain
    <2>2. IsFiniteSet(requested')
      BY <2>1, FS_AddElement DEF DeployInv
    <2>3. Asked \subseteq Asked' /\ {t} \in Asked'
      BY <2>1 DEF Asked
    <2>4. c \in CallRecords' /\ c.asked = {t} /\ c.answer = "" /\ c.at = "check"
      BY <2>3 DEF NoCall, CallRecords
    <2> HIDE DEF c
    <2>5. deploy' \in [Deployer -> CallRecords']
      <3>1. CallRecords \subseteq CallRecords'
        BY <2>3 DEF CallRecords
      <3> QED BY <1>2, <2>1, <2>4, <3>1
    <2>6. ASSUME NEW e \in Deployer
          PROVE  CallInv(deploy[e])'
      <3>1. CASE e = d
        <4>1. deploy'[e] = c
          BY <1>2, <2>1, <3>1
        <4> QED BY <2>3, <2>4, <4>1 DEF CallInv
      <3>2. CASE e # d
        <4>1. deploy'[e] = deploy[e]
          BY <1>2, <2>1, <3>2
        <4> QED BY <1>1, <2>1, <2>3, <4>1 DEF CallInv
      <3> QED BY <3>1, <3>2
    <2> QED BY <2>1, <2>2, <2>3, <2>5, <2>6 DEF DeployInv
  <1>7. ASSUME NEW d \in Deployer, UNCHANGED chain
        PROVE  ChainMoves /\ flying' \subseteq requested
    BY <1>2, <1>7 DEF chain, ChainMoves
  <1>8. ASSUME NEW d \in Deployer, CheckActive(d)
        PROVE  DeployInv'
    <2>1. /\ deploy[d].at = "check" /\ UNCHANGED chain
          /\ UNCHANGED <<pointer, requested>>
      BY <1>8 DEF CheckActive
    <2>2. CASE account = "Active"
      <3> PICK c : c = [deploy[d] EXCEPT !.at = "persist", !.reused = TRUE]
        OBVIOUS
      <3>1. deploy' = [deploy EXCEPT ![d] = c]
        BY <1>2, <1>8, <2>2 DEF CheckActive
      <3>2. /\ c \in CallRecords /\ c.at = "persist" /\ c.asked = deploy[d].asked
        BY <1>1 DEF CallRecords
      <3>3. CallInv(c)'
        BY <1>1, <2>1, <2>2, <3>2 DEF CallInv, chain, Asked
      <3> QED BY <1>7, <2>1, <3>1, <3>2, <3>3, OneCallMoves
    <2>3. CASE account # "Active" /\ giver
      <3>1. Stands(d, "fund")
        BY <1>8, <2>3 DEF CheckActive
      <3> QED BY <1>7, <2>1, <3>1, CallStands
    <2>4. CASE account # "Active" /\ ~giver
      <3>1. Answers(d, "no giver")
        BY <1>8, <2>4 DEF CheckActive
      <3> QED BY <1>7, <2>1, <3>1, CallAnswers
    <2> QED BY <2>2, <2>3, <2>4
  <1>9. ASSUME NEW d \in Deployer, FundViaGiver(d)
        PROVE  DeployInv'
    <2>1. /\ deploy[d].at \in {"fund", "fund again"}
          /\ UNCHANGED <<account, terms, flying, pointer, requested>>
      BY <1>9 DEF FundViaGiver
    <2>2. ChainMoves /\ flying' \subseteq requested
      BY <1>2, <2>1 DEF ChainMoves
    <2>3. \/ Stands(d, "fund again") \/ Stands(d, "wait for account")
          \/ Answers(d, "failed")
      BY <1>9 DEF FundViaGiver
    <2>4. CASE Stands(d, "fund again")
      BY <2>1, <2>2, <2>4, CallStands
    <2>5. CASE Stands(d, "wait for account")
      BY <2>1, <2>2, <2>5, CallStands
    <2>6. CASE Answers(d, "failed")
      BY <2>1, <2>2, <2>6, CallAnswers
    <2> QED BY <2>3, <2>4, <2>5, <2>6
  <1>10. ASSUME NEW d \in Deployer, WaitUninit(d) \/ WaitActive(d)
         PROVE  DeployInv'
    <2>1. /\ deploy[d].at \in {"wait for account", "wait for contract"}
          /\ UNCHANGED chain /\ UNCHANGED <<pointer, requested>>
      BY <1>10 DEF WaitUninit, WaitActive, WaitStatus
    <2>2. \/ Stands(d, "send")
          \/ account = "Active" /\ Stands(d, "persist")
          \/ Answers(d, "timeout")
      BY <1>10 DEF WaitUninit, WaitActive, WaitStatus
    <2>3. CASE Stands(d, "send")
      BY <1>7, <2>1, <2>3, CallStands
    <2>4. CASE account = "Active" /\ Stands(d, "persist")
      <3>1. account' = "Active"
        BY <2>1, <2>4 DEF chain
      <3> QED BY <1>7, <2>1, <2>4, <3>1, CallStands
    <2>5. CASE Answers(d, "timeout")
      BY <1>7, <2>1, <2>5, CallAnswers
    <2> QED BY <2>2, <2>3, <2>4, <2>5
  <1>11. ASSUME NEW d \in Deployer, SendDeployMessage(d)
         PROVE  DeployInv'
    <2>1. deploy[d].at = "send" /\ UNCHANGED <<pointer, requested>>
      BY <1>11 DEF SendDeployMessage
    <2>2. deploy[d].asked \in Asked
      BY <1>1, <2>1 DEF CallInv
    <2>3. deploy[d].asked \subseteq requested
      BY <2>2 DEF Asked
    <2>4. ChainMoves
      BY <1>11, <2>2 DEF SendDeployMessage, ChainMoves
    <2>5. flying' \subseteq requested
      BY <1>2, <1>11, <2>3 DEF SendDeployMessage
    <2>6. Stands(d, "wait for contract") \/ Answers(d, "failed")
      BY <1>11 DEF SendDeployMessage
    <2>7. CASE Stands(d, "wait for contract")
      BY <2>1, <2>4, <2>5, <2>7, CallStands
    <2>8. CASE Answers(d, "failed")
      BY <2>1, <2>4, <2>5, <2>8, CallAnswers
    <2> QED BY <2>6, <2>7, <2>8
  <1>12. ASSUME NEW d \in Deployer, PersistPointer(d)
         PROVE  DeployInv'
    <2>1. /\ deploy[d].at = "persist" /\ UNCHANGED chain /\ requested' = requested
          /\ pointer' \in {pointer, deploy[d].asked}
      BY <1>12 DEF PersistPointer
    <2>2. account = "Active" /\ deploy[d].asked \in Asked /\ account' = "Active"
      BY <1>1, <2>1 DEF CallInv, chain
    <2>3. Answers(d, "already_active") \/ Answers(d, "deployed")
      BY <1>12 DEF PersistPointer
    <2>4. pointer' = pointer \/ (account' = "Active" /\ pointer' \in Asked)
      BY <2>1, <2>2
    <2>5. CASE Answers(d, "already_active")
      BY <1>7, <2>1, <2>2, <2>4, <2>5, CallAnswers
    <2>6. CASE Answers(d, "deployed")
      BY <1>7, <2>1, <2>2, <2>4, <2>6, CallAnswers
    <2> QED BY <2>3, <2>5, <2>6
  <1>13. CASE UNCHANGED deployVars
    <2>1. UNCHANGED <<deploy, pointer, requested, account, terms, flying>>
      BY <1>13 DEF deployVars
    <2> QED BY <1>2, <1>3, <2>1 DEF ChainMoves
  <1> QED BY <1>4, <1>5, <1>6, <1>8, <1>9, <1>10, <1>11, <1>12, <1>13
          DEF DeployNext, DeployStep

(***************************************************************************)
(* A call that answers with a deployment, and a pointer that is recorded,  *)
(* speak of an active account; while all calls agree on the terms, the     *)
(* pointer's are the contract's.                                           *)
(***************************************************************************)
THEOREM PointersStayTrue == DeploySpec => []PointersNameLots
  <1>1. DeployInv => PointersNameLots
    <2> SUFFICES ASSUME DeployInv
                 PROVE  PointersNameLots
      OBVIOUS
    <2>1. \A d \in Deployer :
            deploy[d].answer \in {"deployed", "already_active"} => account = "Active"
      BY DEF DeployInv, CallInv
    <2>2. ASSUME pointer # {}
          PROVE  account = "Active" /\ pointer \in Asked /\ terms \in Asked
      BY <2>2 DEF DeployInv
    <2>3. ASSUME Cardinality(requested) = 1
          PROVE  \A s, t \in Asked : s = t
      <3>1. \E t : requested = {t}
        BY <2>3, FS_Singleton DEF DeployInv
      <3> QED BY <3>1 DEF Asked
    <2> QED BY <2>1, <2>2, <2>3 DEF PointersNameLots
  <1> QED BY <1>1, DeployInitially, DeployNextStep, PTL DEF DeploySpec

-----------------------------------------------------------------------------
(* The block pipeline: duplicates *)

(***************************************************************************)
(* What the duplicate filter holds: the last hashes accepted, as many as   *)
(* it has room for, in the queue in their order and in the set.            *)
(***************************************************************************)
Reach == IF CAPACITY = 0 THEN 1 ELSE CAPACITY

Apart(seq) ==
  \A i, j \in DOMAIN seq : (i < j /\ seq[i] = seq[j]) => j - i > CAPACITY

RecentIn(order, seq) ==
  /\ Len(order) <= Reach /\ Len(order) <= Len(seq)
  /\ Len(order) < Reach => Len(order) = Len(seq)
  /\ \A k \in 1..Len(order) : order[k] = seq[Len(seq) - Len(order) + k]

FilterInv ==
  /\ commands \in Seq(Hash \cup {Garbage})
  /\ accepted \in Seq(Hash)
  /\ DOMAIN filter = {"set", "order"}
  /\ filter.order \in Seq(Hash)
  /\ filter.set = Range(filter.order)
  /\ RecentIn(filter.order, accepted)
  /\ Apart(accepted)

(***************************************************************************)
(* Ranges of sequences that grow and shrink.                               *)
(***************************************************************************)
LEMMA RangeOfAppend ==
  ASSUME NEW S, NEW s \in Seq(S), NEW x \in S
  PROVE  Range(Append(s, x)) = Range(s) \cup {x}
  <1>1. /\ DOMAIN Append(s, x) = 1..(Len(s) + 1) /\ Len(s) \in Nat
        /\ DOMAIN s = 1..Len(s)
        /\ \A i \in 1..Len(s) : Append(s, x)[i] = s[i]
        /\ Append(s, x)[Len(s) + 1] = x
    OBVIOUS
  <1> QED BY <1>1 DEF Range

(***************************************************************************)
(* Taking the first entry of a sequence leaves the others.                 *)
(***************************************************************************)
LEMMA RangeOfTail ==
  ASSUME NEW S, NEW s \in Seq(S), s # << >>
  PROVE  /\ Range(s) = Range(Tail(s)) \cup {Head(s)}
         /\ Head(s) \in S /\ Tail(s) \in Seq(S)
  <1>1. /\ Len(s) \in Nat \ {0} /\ DOMAIN s = 1..Len(s)
        /\ DOMAIN Tail(s) = 1..(Len(s) - 1)
        /\ \A i \in 1..(Len(s) - 1) : Tail(s)[i] = s[i + 1]
        /\ Head(s) = s[1] /\ Tail(s) \in Seq(S) /\ Head(s) \in S
    OBVIOUS
  <1>2. ASSUME NEW i \in 1..Len(s)
        PROVE  s[i] = Head(s) \/ \E k \in 1..(Len(s) - 1) : Tail(s)[k] = s[i]
    <2>1. CASE i = 1
      BY <1>1, <2>1
    <2>2. CASE i # 1
      <3>1. i - 1 \in 1..(Len(s) - 1) /\ (i - 1) + 1 = i
        BY <1>1, <2>2
      <3> QED BY <1>1, <3>1
    <2> QED BY <2>1, <2>2
  <1>3. \A k \in 1..(Len(s) - 1) : k + 1 \in 1..Len(s) /\ Tail(s)[k] = s[k + 1]
    BY <1>1
  <1>4. 1 \in 1..Len(s) /\ s[1] = Head(s)
    BY <1>1
  <1> DEFINE tail == Tail(s)
  <1>5. DOMAIN tail = 1..(Len(s) - 1) /\ DOMAIN s = 1..Len(s)
    BY <1>1
  <1> HIDE DEF tail
  <1>6. Range(s) \subseteq Range(tail) \cup {Head(s)}
    BY <1>2, <1>5 DEF Range, tail
  <1>7. Range(tail) \cup {Head(s)} \subseteq Range(s)
    BY <1>3, <1>4, <1>5 DEF Range, tail
  <1> QED BY <1>1, <1>6, <1>7 DEF tail

(***************************************************************************)
(* Forgetting the oldest and remembering the newest hash keeps the queue   *)
(* at the end of what was accepted, and a hash the set does not hold is    *)
(* far from its last acceptance.                                           *)
(***************************************************************************)
LEMMA InsertIsRecent ==
  ASSUME FilterInv, NEW hash \in Hash, IsNew(filter, hash)
  PROVE  LET new == Insert(filter, hash)
             seen == Append(accepted, hash)
         IN  /\ DOMAIN new = {"set", "order"} /\ new.order \in Seq(Hash)
             /\ new.set = Range(new.order)
             /\ RecentIn(new.order, seen) /\ Apart(seen)
  <1> DEFINE order == filter.order
             seen == Append(accepted, hash)
             n == Len(accepted)
             full == Len(order) >= CAPACITY /\ order # << >>
             kept == IF full THEN Tail(order) ELSE order
             queue == Append(kept, hash)
  <1>1. /\ order \in Seq(Hash) /\ accepted \in Seq(Hash) /\ CAPACITY \in Nat
        /\ Len(order) \in Nat /\ n \in Nat /\ Reach \in Nat \ {0} /\ Reach >= CAPACITY
        /\ filter.set = Range(order) /\ RecentIn(order, accepted) /\ Apart(accepted)
    BY CapacityAssumption DEF FilterInv, Reach
  <1>2. order = << >> <=> Len(order) = 0
    BY <1>1
  <1> HIDE DEF order, n
  <1>3. \A i \in 1..n : accepted[i] = hash => i <= n - Len(order)
    <2> SUFFICES ASSUME NEW i \in 1..n, i > n - Len(order)
                 PROVE  accepted[i] # hash
      BY <1>1
    <2>1. i - (n - Len(order)) \in 1..Len(order)
      BY <1>1
    <2>2. order[i - (n - Len(order))] = accepted[i]
      BY <1>1, <2>1 DEF RecentIn, n
    <2>3. accepted[i] \in Range(order)
      BY <1>1, <2>1, <2>2 DEF Range
    <2> QED BY <1>1, <2>3 DEF IsNew, order
  <1>4. /\ seen \in Seq(Hash) /\ Len(seen) = n + 1 /\ seen[n + 1] = hash
        /\ \A i \in 1..n : seen[i] = accepted[i]
        /\ DOMAIN seen = 1..(n + 1) /\ DOMAIN accepted = 1..n
    BY <1>1 DEF n
  <1> HIDE DEF seen
  <1>5. Apart(seen)
    <2> SUFFICES ASSUME NEW i \in 1..(n + 1), NEW j \in 1..(n + 1), i < j, seen[i] = seen[j]
                 PROVE  j - i > CAPACITY
      BY <1>4 DEF Apart
    <2>1. i \in 1..n
      BY <1>1
    <2>2. CASE j \in 1..n
      BY <1>1, <1>4, <2>1, <2>2 DEF Apart
    <2>3. CASE j = n + 1
      <3>1. i <= n - Len(order)
        BY <1>3, <1>4, <2>1, <2>3
      <3>2. Len(order) < Reach => Len(order) = n
        BY <1>1 DEF RecentIn, n
      <3> QED BY <1>1, <2>1, <2>3, <3>1, <3>2
    <2> QED BY <1>1, <2>2, <2>3
  <1>6. /\ kept \in Seq(Hash) /\ Len(kept) \in Nat
        /\ Len(kept) <= n /\ Len(kept) <= Reach - 1
        /\ Len(kept) < Reach - 1 => Len(kept) = n
        /\ \A k \in 1..Len(kept) : kept[k] = accepted[n - Len(kept) + k]
    <2>1. CASE full
      <3>1. /\ kept = Tail(order) /\ Len(kept) = Len(order) - 1 /\ Len(order) >= 1
            /\ kept \in Seq(Hash) /\ Len(order) >= CAPACITY
        BY <1>1, <1>2, <2>1
      <3>2. \A k \in 1..Len(kept) : kept[k] = order[k + 1]
        BY <1>1, <2>1, <3>1
      <3> HIDE DEF kept, full
      <3>6. Len(order) <= Reach
        BY <1>1 DEF RecentIn
      <3>3. Len(order) = Reach
        <4>1. Reach <= Len(order)
          BY <3>1 DEF Reach
        <4> QED BY <1>1, <3>6, <4>1
      <3>4. ASSUME NEW k \in 1..Len(kept)
            PROVE  kept[k] = accepted[n - Len(kept) + k]
        <4>1. k + 1 \in 1..Len(order)
          BY <1>1, <3>1
        <4>2. order[k + 1] = accepted[n - Len(order) + (k + 1)]
          BY <1>1, <4>1 DEF RecentIn, n
        <4>3. n - Len(order) + (k + 1) = n - Len(kept) + k
          BY <1>1, <3>1
        <4> QED BY <3>2, <4>2, <4>3
      <3>5. Len(order) <= n
        BY <1>1 DEF RecentIn, n
      <3>7. Len(kept) \in Nat /\ Len(kept) <= n /\ Len(kept) = Reach - 1
        BY <1>1, <3>1, <3>3, <3>5
      <3>8. Len(kept) <= Reach - 1 /\ ~(Len(kept) < Reach - 1)
        BY <1>1, <3>7
      <3> QED BY <3>1, <3>4, <3>7, <3>8, Zenon
    <2>2. CASE ~full
      <3>1. kept = order
        BY <2>2
      <3>2. Len(order) <= Reach - 1
        BY <1>1, <1>2, <2>2 DEF Reach
      <3> HIDE DEF kept, full
      <3>3. Len(order) = n
        BY <1>1, <3>2 DEF RecentIn, n
      <3>4. \A k \in 1..Len(order) : order[k] = accepted[n - Len(order) + k]
        BY <1>1 DEF RecentIn, n
      <3> QED BY <1>1, <3>1, <3>2, <3>3, <3>4
    <2> QED BY <2>1, <2>2
  <1>7. Range(kept) = IF full THEN filter.set \ {Head(order)}
                         ELSE filter.set
    <2>1. CASE full
      <3>1. Range(order) = Range(kept) \cup {Head(order)}
        BY <1>1, <2>1, RangeOfTail
      <3>2. Head(order) \notin Range(kept)
        <4>1. SUFFICES ASSUME NEW k \in 1..Len(kept), kept[k] = Head(order)
                       PROVE  FALSE
          BY <1>6 DEF Range
        <4>2. /\ Len(order) = Len(kept) + 1 /\ Head(order) = order[1]
              /\ 1 \in 1..Len(order)
          BY <1>1, <1>2, <2>1
        <4> HIDE DEF kept, full
        <4>3. Head(order) = accepted[n - Len(kept)]
          <5>1. order[1] = accepted[n - Len(order) + 1]
            BY <1>1, <4>2 DEF RecentIn, n
          <5>2. n - Len(order) + 1 = n - Len(kept)
            BY <1>1, <1>6, <4>2
          <5> QED BY <4>2, <5>1, <5>2
        <4>4. kept[k] = accepted[n - Len(kept) + k]
          BY <1>6
        <4>5. Len(order) <= n
          BY <1>1 DEF RecentIn, n
        <4>6. n - Len(kept) \in 1..n /\ n - Len(kept) + k \in 1..n
          BY <1>1, <1>6, <4>2, <4>5
        <4>7. (n - Len(kept) + k) - (n - Len(kept)) > CAPACITY
          <5> DEFINE i == n - Len(kept)
                     j == n - Len(kept) + k
          <5>1. i \in DOMAIN accepted /\ j \in DOMAIN accepted
            BY <1>4, <4>6
          <5>2. accepted[i] = accepted[j]
            BY <4>1, <4>3, <4>4
          <5>3. i < j
            BY <1>1, <1>6
          <5> HIDE DEF i, j
          <5>4. j - i > CAPACITY
            BY <1>1, <5>1, <5>2, <5>3 DEF Apart
          <5> QED BY <5>4 DEF i, j
        <4>8. k > CAPACITY /\ k <= Reach - 1
          BY <1>1, <1>6, <4>7
        <4> QED BY <1>1, <4>8 DEF Reach
      <3> QED BY <1>1, <2>1, <3>1, <3>2
    <2>2. CASE ~full
      BY <1>1, <2>2
    <2> QED BY <2>1, <2>2
  <1>8. /\ queue \in Seq(Hash) /\ Len(queue) = Len(kept) + 1
        /\ queue[Len(kept) + 1] = hash
        /\ \A k \in 1..Len(kept) : queue[k] = kept[k]
    BY <1>6
  <1>9. Insert(filter, hash) = [set |-> Range(kept) \cup {hash}, order |-> queue]
    BY <1>7 DEF Insert, MakeRoom, order
  <1> HIDE DEF kept, full
  <1>10. Range(queue) = Range(kept) \cup {hash}
    BY <1>6, RangeOfAppend
  <1> HIDE DEF queue
  <1>11. RecentIn(queue, seen)
    <2>1. /\ Len(queue) <= Reach /\ Len(queue) <= n + 1
          /\ Len(queue) < Reach => Len(queue) = n + 1
      BY <1>1, <1>6, <1>8
    <2>2. ASSUME NEW k \in 1..Len(queue)
          PROVE  queue[k] = seen[(n + 1) - Len(queue) + k]
      <3>1. CASE k = Len(kept) + 1
        BY <1>1, <1>4, <1>6, <1>8, <3>1
      <3>2. CASE k \in 1..Len(kept)
        <4>1. (n + 1) - Len(queue) + k = n - Len(kept) + k /\ n - Len(kept) + k \in 1..n
          BY <1>1, <1>6, <1>8, <3>2
        <4> QED BY <1>4, <1>6, <1>8, <3>2, <4>1
      <3> QED BY <1>6, <1>8, <3>1, <3>2
    <2> QED BY <1>4, <2>1, <2>2 DEF RecentIn
  <1> QED BY <1>5, <1>8, <1>9, <1>10, <1>11 DEF seen

(***************************************************************************)
(* Every step of the pipeline keeps the filter's invariant.                *)
(***************************************************************************)
LEMMA FilterStep == FilterInv /\ [PipelineNext]_pipelineVars => FilterInv'
  <1> SUFFICES ASSUME FilterInv, [PipelineNext]_pipelineVars
               PROVE  FilterInv'
    OBVIOUS
  <1>1. ASSUME UNCHANGED <<commands, filter, accepted>>
        PROVE  FilterInv'
    BY <1>1 DEF FilterInv
  <1>2. commands \in Seq(Hash \cup {Garbage})
    BY DEF FilterInv
  <1>3. ASSUME NEW c \in Connection, NEW message \in Hash \cup {Garbage},
               Receive(c, message)
        PROVE  FilterInv'
    <2>1. /\ commands' = Append(commands, message) /\ UNCHANGED <<filter, accepted>>
      BY <1>3 DEF Receive
    <2>2. commands' \in Seq(Hash \cup {Garbage})
      BY <1>2, <2>1
    <2> QED BY <2>1, <2>2 DEF FilterInv
  <1>4. CASE Decode
    <2>1. commands # << >> /\ commands' = Tail(commands)
      BY <1>4 DEF Decode
    <2>2. commands' \in Seq(Hash \cup {Garbage}) /\ Head(commands) \in Hash \cup {Garbage}
      BY <1>2, <2>1
    <2>3. CASE UNCHANGED <<filter, accepted>>
      BY <2>2, <2>3 DEF FilterInv
    <2>4. CASE ~UNCHANGED <<filter, accepted>>
      <3>1. /\ IsNew(filter, Head(commands)) /\ Head(commands) # Garbage
            /\ filter' = Insert(filter, Head(commands))
            /\ accepted' = Append(accepted, Head(commands))
        BY <1>4, <2>4 DEF Decode
      <3> PICK hash : hash = Head(commands)
        OBVIOUS
      <3>2. hash \in Hash /\ IsNew(filter, hash)
        BY <2>2, <3>1
      <3>3. accepted' \in Seq(Hash)
        BY <3>1, <3>2 DEF FilterInv
      <3> QED BY <2>2, <3>1, <3>2, <3>3, InsertIsRecent DEF FilterInv
    <2> QED BY <2>3, <2>4
  <1>5. ASSUME NEW c \in Connection, Connect(c) \/ Disconnect(c)
        PROVE  FilterInv'
    BY <1>1, <1>5 DEF Connect, Disconnect
  <1>6. CASE SendBatch \/ SendRefused \/ DecoderEnds
    BY <1>1, <1>6 DEF SendBatch, SendRefused, DecoderEnds
  <1>7. CASE TakeBatch \/ PostReturns \/ ProcessExits
    BY <1>1, <1>7 DEF TakeBatch, PostReturns, ProcessExits
  <1>8. CASE Stopped \/ UNCHANGED pipelineVars
    BY <1>1, <1>8 DEF Stopped, pipelineVars
  <1> QED BY <1>3, <1>4, <1>5, <1>6, <1>7, <1>8 DEF PipelineNext, DecoderStep

(***************************************************************************)
(* A filter that has seen nothing remembers nothing.                       *)
(***************************************************************************)
LEMMA FilterInitially == PipelineInit => FilterInv
  <1> SUFFICES ASSUME PipelineInit
               PROVE  FilterInv
    OBVIOUS
  <1>1. /\ commands = << >> /\ accepted = << >>
        /\ filter = [set |-> {}, order |-> << >>]
    BY DEF PipelineInit, EmptyFilter
  <1>2. << >> \in Seq(Hash) /\ << >> \in Seq(Hash \cup {Garbage}) /\ Len(<< >>) = 0
        /\ DOMAIN << >> = {}
    OBVIOUS
  <1>3. Range(<< >>) = {}
    BY <1>2 DEF Range
  <1>4. RecentIn(<< >>, << >>) /\ Apart(<< >>)
    BY <1>2, CapacityAssumption DEF RecentIn, Apart, Reach
  <1> QED BY <1>1, <1>2, <1>3, <1>4 DEF FilterInv

(***************************************************************************)
(* The duplicate filter drops duplicates, and only what it has seen among  *)
(* the last blocks: for any capacity and however blocks arrive.            *)
(***************************************************************************)
THEOREM DuplicatesStayRecent == PipelineSpec => []DuplicatesAreRecent
  <1>1. FilterInv => DuplicatesAreRecent
    <2> SUFFICES ASSUME FilterInv
                 PROVE  DuplicatesAreRecent
      OBVIOUS
    <2> DEFINE order == filter.order
               n == Len(accepted)
    <2>1. /\ order \in Seq(Hash) /\ accepted \in Seq(Hash) /\ Len(order) \in Nat
          /\ n \in Nat /\ filter.set = Range(order) /\ RecentIn(order, accepted)
          /\ Apart(accepted)
      BY DEF FilterInv
    <2> HIDE DEF order
    <2>2. Len(order) <= Reach /\ Len(order) <= n
      BY <2>1 DEF RecentIn
    <2>3. ASSUME NEW hash \in filter.set
          PROVE  \E i \in DOMAIN accepted : accepted[i] = hash /\ i > n - Reach
      <3>1. PICK k \in 1..Len(order) : hash = order[k]
        BY <2>1 DEF Range
      <3>2. order[k] = accepted[n - Len(order) + k]
        BY <2>1 DEF RecentIn
      <3>3. /\ n - Len(order) + k \in DOMAIN accepted
            /\ n - Len(order) + k > n - Reach
        BY <2>1, <2>2, CapacityAssumption DEF Reach
      <3> QED BY <3>1, <3>2, <3>3
    <2> QED BY <2>1, <2>3 DEF DuplicatesAreRecent, Reach, Apart
  <1> QED BY <1>1, FilterInitially, FilterStep, PTL DEF PipelineSpec

-----------------------------------------------------------------------------
(* The block pipeline: batches *)

Below(early, late) == \A a \in early, b \in late : a.session < b.session

Sorted(batches) ==
  \A i, j \in DOMAIN batches : i < j => batches[i].session < batches[j].session

Stored == Range(memory)
Posted == {posting} \ {NoBatch}
Queued == Range(ingest)
Held == {held} \ {NoBatch}

(***************************************************************************)
(* The batches stand in one line, by session: those stored, the one being  *)
(* posted, those in the channel, the one the decoder holds.                *)
(***************************************************************************)
InLine ==
  /\ Sorted(memory) /\ Sorted(ingest)
  /\ Below(Stored, Posted) /\ Below(Stored, Queued) /\ Below(Stored, Held)
  /\ Below(Posted, Queued) /\ Below(Posted, Held) /\ Below(Queued, Held)
  /\ \A batch \in Stored \cup Posted \cup Queued \cup Held : batch.session < session

Accounted ==
  \A n \in 1..(session - 1) :
    \E batch \in Stored \cup Posted \cup Queued \cup Held \cup dropped :
      batch.session = n

BatchTyped ==
  /\ open \subseteq Connection
  /\ {held, posting} \subseteq Batch \cup {NoBatch}
  /\ ingest \in Seq(Batch) /\ Len(ingest) <= CHANNEL
  /\ memory \in Seq(Batch) /\ dropped \subseteq Batch
  /\ decoder \in {"running", "exited"} /\ process \in {"running", "exiting"}
  /\ session \in Nat \ {0}

BatchInv == BatchTyped /\ InLine /\ Accounted

(***************************************************************************)
(* Lines of batches that grow at the end and shrink at the front.          *)
(***************************************************************************)
LEMMA SortedAppend ==
  ASSUME NEW s \in Seq(Batch), NEW b \in Batch, Sorted(s), Below(Range(s), {b})
  PROVE  Sorted(Append(s, b))
  <1>1. /\ Len(s) \in Nat /\ DOMAIN s = 1..Len(s)
        /\ DOMAIN Append(s, b) = 1..(Len(s) + 1)
        /\ \A i \in 1..Len(s) : Append(s, b)[i] = s[i]
        /\ Append(s, b)[Len(s) + 1] = b
    OBVIOUS
  <1>2. \A i \in 1..Len(s) : s[i].session < b.session
    BY <1>1 DEF Range, Below
  <1> DEFINE t == Append(s, b)
  <1> HIDE DEF t
  <1>3. ASSUME NEW i \in DOMAIN t, NEW j \in DOMAIN t, i < j
        PROVE  t[i].session < t[j].session
    <2>1. i \in 1..Len(s)
      BY <1>1, <1>3 DEF t
    <2>2. CASE j = Len(s) + 1
      BY <1>1, <1>2, <2>1, <2>2 DEF t
    <2>3. CASE j \in 1..Len(s)
      BY <1>1, <1>3, <2>1, <2>3 DEF t, Sorted
    <2> QED BY <1>1, <2>2, <2>3 DEF t
  <1> QED BY <1>3 DEF Sorted, t

(***************************************************************************)
(* The rest of a queue of batches is in order, after the first.            *)
(***************************************************************************)
LEMMA SortedTail ==
  ASSUME NEW s \in Seq(Batch), s # << >>, Sorted(s)
  PROVE  Sorted(Tail(s)) /\ Below({Head(s)}, Range(Tail(s)))
  <1> DEFINE t == Tail(s)
  <1>1. /\ Len(s) \in Nat \ {0} /\ DOMAIN s = 1..Len(s)
        /\ DOMAIN t = 1..(Len(s) - 1)
        /\ \A i \in 1..(Len(s) - 1) : t[i] = s[i + 1]
        /\ Head(s) = s[1]
    OBVIOUS
  <1> HIDE DEF t
  <1>2. \A i \in 1..(Len(s) - 1) : i + 1 \in 1..Len(s) /\ 1 < i + 1 /\ 1 \in 1..Len(s)
    BY <1>1
  <1>3. Sorted(t)
    <2> SUFFICES ASSUME NEW i \in DOMAIN t, NEW j \in DOMAIN t, i < j
                 PROVE  t[i].session < t[j].session
      BY DEF Sorted
    <2>1. i + 1 \in DOMAIN s /\ j + 1 \in DOMAIN s /\ i + 1 < j + 1
      BY <1>1, <1>2
    <2>2. s[i + 1].session < s[j + 1].session
      BY <2>1 DEF Sorted
    <2> QED BY <1>1, <2>2
  <1>4. \A i \in DOMAIN t : Head(s).session < t[i].session
    BY <1>1, <1>2 DEF Sorted
  <1> QED BY <1>3, <1>4 DEF Range, Below, t

(***************************************************************************)
(* At the start there are no batches.                                      *)
(***************************************************************************)
LEMMA BatchInitially == PipelineInit => BatchInv
  <1> SUFFICES ASSUME PipelineInit
               PROVE  BatchInv
    OBVIOUS
  <1>1. Stored = {} /\ Posted = {} /\ Queued = {} /\ Held = {}
    BY DEF PipelineInit, Stored, Posted, Queued, Held, Range
  <1>2. Sorted(memory) /\ Sorted(ingest)
    BY DEF PipelineInit, Sorted
  <1>3. InLine /\ Accounted
    BY <1>1, <1>2 DEF InLine, Accounted, Below, PipelineInit
  <1>4. BatchTyped
    BY PipelineAssumption DEF PipelineInit, BatchTyped
  <1> QED BY <1>3, <1>4 DEF BatchInv

(***************************************************************************)
(* Every step of the pipeline keeps the line, and no batch leaves it but   *)
(* into gosh.memory or the batches reported as dropped.                    *)
(***************************************************************************)
LEMMA BatchStep == BatchInv /\ [PipelineNext]_pipelineVars => BatchInv'
  <1> SUFFICES ASSUME BatchInv, [PipelineNext]_pipelineVars
               PROVE  BatchInv'
    OBVIOUS
  <1> USE DEF BatchInv
  <1>1. NoBatch \notin Batch
    <2>1. NoBatch.session = 0
      BY DEF NoBatch
    <2> QED BY <2>1 DEF Batch
  <1>2. ASSUME UNCHANGED <<held, session, ingest, posting, memory, dropped>>,
               open' \subseteq Connection, decoder' \in {"running", "exited"},
               process' \in {"running", "exiting"}
        PROVE  BatchInv'
    <2>1. UNCHANGED <<Stored, Posted, Queued, Held>>
      BY <1>2 DEF Stored, Posted, Queued, Held
    <2>2. BatchTyped'
      BY <1>2 DEF BatchTyped
    <2>3. InLine'
      BY <1>2, <2>1 DEF InLine
    <2> QED BY <1>2, <2>1, <2>2, <2>3 DEF Accounted
  <1>3. /\ open \subseteq Connection /\ decoder \in {"running", "exited"}
        /\ process \in {"running", "exiting"} /\ session \in Nat \ {0}
        /\ ingest \in Seq(Batch) /\ memory \in Seq(Batch)
        /\ held \in Batch \cup {NoBatch} /\ posting \in Batch \cup {NoBatch}
    BY DEF BatchTyped
  <1>4. ASSUME NEW c \in Connection, Connect(c) \/ Disconnect(c)
        PROVE  BatchInv'
    BY <1>2, <1>3, <1>4 DEF Connect, Disconnect
  <1>5. ASSUME NEW c \in Connection, NEW message \in Hash \cup {Garbage},
               Receive(c, message)
        PROVE  BatchInv'
    BY <1>2, <1>3, <1>5 DEF Receive
  <1>6. CASE DecoderEnds
    BY <1>2, <1>3, <1>6 DEF DecoderEnds
  <1>7. CASE Stopped \/ UNCHANGED pipelineVars
    BY <1>2, <1>3, <1>7 DEF Stopped, pipelineVars
  <1>8. CASE Decode
    <2>1. UNCHANGED <<open, ingest, posting, memory, dropped, decoder, process>>
          /\ held = NoBatch
      BY <1>8 DEF Decode
    <2>2. CASE UNCHANGED <<held, session>>
      BY <1>2, <1>3, <2>1, <2>2
    <2>3. CASE ~UNCHANGED <<held, session>>
      <3>1. PICK hash : /\ hash \in Matching
                        /\ held' = [hash |-> hash, session |-> session]
                        /\ session' = session + 1
        BY <1>8, <2>3 DEF Decode, NextSession
      <3>2. held' \in Batch /\ held'.session = session /\ session' \in Nat \ {0}
        BY <1>3, <3>1, PipelineAssumption DEF Batch
      <3>3. /\ Held' = {held'} /\ Held = {}
            /\ UNCHANGED <<Stored, Posted, Queued>>
        BY <1>1, <2>1, <3>2 DEF Stored, Posted, Queued, Held
      <3>4. BatchTyped'
        BY <2>1, <3>2 DEF BatchTyped
      <3>5. \A batch \in Stored \cup Posted \cup Queued :
              batch.session < session /\ batch.session < session'
        <4>1. \A batch \in Stored \cup Posted \cup Queued : batch \in Batch
          BY <1>3 DEF Stored, Posted, Queued, Range
        <4>2. \A batch \in Stored \cup Posted \cup Queued : batch.session \in Nat
          BY <4>1 DEF Batch
        <4> QED BY <1>3, <3>1, <4>2 DEF InLine
      <3>6. session < session'
        BY <1>3, <3>1
      <3>7. InLine'
        BY <2>1, <3>2, <3>3, <3>5, <3>6 DEF InLine, Below
      <3>8. Accounted'
        <4>1. ASSUME NEW n \in 1..(session' - 1)
              PROVE  \E batch \in Stored \cup Posted \cup Queued \cup {held'} \cup dropped :
                       batch.session = n
          <5>1. CASE n = session
            BY <3>2, <5>1
          <5>2. CASE n \in 1..(session - 1)
            BY <3>3, <5>2 DEF Accounted
          <5> QED BY <1>3, <3>1, <5>1, <5>2
        <4> QED BY <2>1, <3>3, <4>1 DEF Accounted
      <3> QED BY <3>4, <3>7, <3>8
    <2> QED BY <2>2, <2>3
  <1>9. CASE SendBatch
    <2>1. /\ held \in Batch /\ held' = NoBatch /\ Len(ingest) < CHANNEL
          /\ ingest' = Append(ingest, held)
          /\ UNCHANGED <<open, session, posting, memory, dropped, decoder, process>>
      BY <1>3, <1>9 DEF SendBatch
    <2>2. /\ Held = {held} /\ Held' = {}
          /\ UNCHANGED <<Stored, Posted>> /\ Queued' = Queued \cup {held}
      BY <1>1, <1>3, <2>1, RangeOfAppend DEF Held, Stored, Posted, Queued
    <2>3. BatchTyped'
      <3>1. ingest' \in Seq(Batch) /\ Len(ingest') <= CHANNEL
        BY <1>3, <2>1, PipelineAssumption
      <3> QED BY <2>1, <3>1 DEF BatchTyped
    <2>4. Sorted(ingest')
      BY <1>3, <2>1, <2>2, SortedAppend DEF InLine, Queued
    <2>5. InLine'
      BY <2>1, <2>2, <2>4 DEF InLine, Below
    <2> QED BY <2>1, <2>2, <2>3, <2>5 DEF Accounted
  <1>10. CASE SendRefused
    <2>1. /\ held \in Batch /\ held' = NoBatch /\ dropped' = dropped \cup {held}
          /\ UNCHANGED <<open, session, ingest, posting, memory, decoder, process>>
      BY <1>3, <1>10 DEF SendRefused
    <2>2. Held = {held} /\ Held' = {} /\ UNCHANGED <<Stored, Posted, Queued>>
      BY <1>1, <2>1 DEF Held, Stored, Posted, Queued
    <2>3. BatchTyped'
      BY <2>1 DEF BatchTyped
    <2>4. InLine'
      BY <2>1, <2>2 DEF InLine, Below
    <2> QED BY <2>1, <2>2, <2>3, <2>4 DEF Accounted
  <1>11. CASE TakeBatch
    <2>1. /\ posting = NoBatch /\ ingest # << >>
          /\ posting' = Head(ingest) /\ ingest' = Tail(ingest)
          /\ UNCHANGED <<open, session, held, memory, dropped, decoder, process>>
      BY <1>11 DEF TakeBatch
    <2>2. posting' \in Batch /\ Queued = Queued' \cup {posting'} /\ ingest' \in Seq(Batch)
      BY <1>3, <2>1, RangeOfTail DEF Queued
    <2>3. /\ Posted = {} /\ Posted' = {posting'} /\ UNCHANGED <<Stored, Held>>
      BY <1>1, <2>1, <2>2 DEF Posted, Stored, Held
    <2>4. BatchTyped'
      <3>1. Len(ingest') <= CHANNEL
        BY <1>3, <2>1, PipelineAssumption DEF BatchTyped
      <3> QED BY <2>1, <2>2, <3>1 DEF BatchTyped
    <2>5. Sorted(ingest') /\ Below({posting'}, Queued')
      BY <1>3, <2>1, SortedTail DEF InLine, Queued
    <2>6. InLine'
      BY <2>1, <2>2, <2>3, <2>5 DEF InLine, Below
    <2> QED BY <2>1, <2>2, <2>3, <2>4, <2>6 DEF Accounted
  <1>12. posting \in Batch =>
           /\ Append(memory, posting) \in Seq(Batch) /\ Sorted(Append(memory, posting))
           /\ Range(Append(memory, posting)) = Stored \cup {posting}
    <2> SUFFICES ASSUME posting \in Batch
                 PROVE  /\ Append(memory, posting) \in Seq(Batch)
                        /\ Sorted(Append(memory, posting))
                        /\ Range(Append(memory, posting)) = Stored \cup {posting}
      OBVIOUS
    <2>1. Posted = {posting}
      BY <1>1 DEF Posted
    <2>2. Below(Range(memory), {posting}) /\ Sorted(memory)
      BY <2>1 DEF InLine, Stored
    <2> QED BY <1>3, <2>2, SortedAppend, RangeOfAppend DEF Stored
  <1>13. CASE PostReturns
    <2>1. /\ posting \in Batch /\ posting' = NoBatch
          /\ UNCHANGED <<open, session, held, ingest, decoder, process>>
      BY <1>3, <1>13 DEF PostReturns
    <2>2. /\ memory' \in {memory, Append(memory, posting)}
          /\ dropped' \in {dropped, dropped \cup {posting}}
          /\ memory' = memory => dropped' = dropped \cup {posting}
      <3>1. Append(memory, posting) # memory
        BY <1>3, <2>1
      <3> QED BY <1>13, <3>1 DEF PostReturns
    <2>3. /\ Posted = {posting} /\ Posted' = {} /\ UNCHANGED <<Queued, Held>>
      BY <1>1, <2>1 DEF Posted, Queued, Held
    <2>4. /\ memory' \in Seq(Batch) /\ Sorted(memory')
          /\ Stored' \in {Stored, Stored \cup {posting}}
          /\ Stored' = Stored \cup {posting} \/ dropped' = dropped \cup {posting}
      BY <1>3, <1>12, <2>1, <2>2 DEF Stored, InLine
    <2>5. BatchTyped'
      BY <2>1, <2>2, <2>4 DEF BatchTyped
    <2>6. InLine'
      BY <2>1, <2>3, <2>4 DEF InLine, Below
    <2>7. Accounted'
      BY <2>1, <2>2, <2>3, <2>4 DEF Accounted
    <2> QED BY <2>5, <2>6, <2>7
  <1>14. CASE ProcessExits
    <2>1. /\ open' = {} /\ process' = "exiting" /\ ingest' = << >> /\ posting' = NoBatch
          /\ dropped' = dropped \cup Queued \cup Posted
          /\ UNCHANGED <<session, held, decoder>>
          /\ \/ posting \in Batch /\ memory' = Append(memory, posting)
             \/ memory' = memory
      BY <1>3, <1>14 DEF ProcessExits, Queued, Posted
    <2>2. /\ Posted' = {} /\ Queued' = {} /\ Held' = Held
      BY <2>1 DEF Posted, Queued, Held, Range
    <2>3. /\ memory' \in Seq(Batch) /\ Sorted(memory')
          /\ Stored \subseteq Stored' /\ Stored' \subseteq Stored \cup Posted
      BY <1>1, <1>3, <1>12, <2>1 DEF Stored, Posted, InLine
    <2>4. Sorted(ingest') /\ ingest' \in Seq(Batch) /\ Len(ingest') = 0
      BY <2>1 DEF Sorted
    <2>5. dropped' \subseteq Batch
      BY <1>1, <1>3, <2>1 DEF Queued, Posted, Range, BatchTyped
    <2>6. BatchTyped'
      BY <1>3, <2>1, <2>3, <2>4, <2>5, PipelineAssumption DEF BatchTyped
    <2>7. InLine'
      BY <2>1, <2>2, <2>3, <2>4 DEF InLine, Below
    <2>8. Accounted'
      BY <2>1, <2>2, <2>3 DEF Accounted
    <2> QED BY <2>6, <2>7, <2>8
  <1> QED BY <1>4, <1>5, <1>6, <1>7, <1>8, <1>9, <1>10, <1>11, <1>13, <1>14
          DEF PipelineNext, DecoderStep

(***************************************************************************)
(* No batch is lost without a word, the facts reach gosh.memory in order,  *)
(* and the channel keeps to its capacity.                                  *)
(***************************************************************************)
THEOREM BatchesStayAccountedFor == PipelineSpec => []BatchesAccountedFor
  <1>1. FilterInv /\ BatchInv => BatchesAccountedFor
    <2> SUFFICES ASSUME FilterInv, BatchInv
                 PROVE  BatchesAccountedFor
      OBVIOUS
    <2>1. filter.set \subseteq Hash
      BY DEF FilterInv, Range
    <2>2. PipelineTypeOK
      BY <2>1 DEF FilterInv, BatchInv, BatchTyped, PipelineTypeOK
    <2>3. NoBatch \notin Batch
      <3>1. NoBatch.session = 0
        BY DEF NoBatch
      <3> QED BY <3>1 DEF Batch
    <2>4. Queued \subseteq Batch
      BY DEF BatchInv, BatchTyped, Queued, Range
    <2>5. Stored \cup Posted \cup Queued \cup Held \cup dropped
            \subseteq InFlight \cup Range(memory) \cup dropped
      BY <2>3, <2>4 DEF Stored, Posted, Queued, Held, InFlight
    <2>6. NoSilentLoss
      BY <2>5 DEF BatchInv, InLine, Accounted, Sorted, NoSilentLoss
    <2> QED BY <2>2, <2>6 DEF BatchesAccountedFor
  <1> QED BY <1>1, FilterInitially, FilterStep, BatchInitially, BatchStep, PTL
          DEF PipelineSpec

-----------------------------------------------------------------------------
(* Following an event log *)

(***************************************************************************)
(* The caller of list_marketplace has been told of the registrations up to *)
(* its cursor, which is at the horizon once it has caught up.              *)
(***************************************************************************)
IndexInv ==
  /\ log \in Seq(Message)
  /\ checkpoint \in 0..Len(log) /\ horizon \in 0..Len(log)
  /\ \A i \in 1..checkpoint : log[i] \in Registrations => i \in catalogue
  /\ caughtUp => horizon <= checkpoint

(* A function on 1..m is a sequence of length m. *)
LEMMA IsASeq ==
  ASSUME NEW m \in Nat, NEW f \in [1..m -> Nat]
  PROVE  f \in Seq(Nat) /\ Len(f) = m /\ DOMAIN f = 1..m
  OBVIOUS

(***************************************************************************)
(* A page read from a cursor of the log, by a node that has the first n    *)
(* messages, holds all positions from the cursor to the new one, which is  *)
(* at least n if there is nothing more.                                    *)
(***************************************************************************)
LEMMA PageIsContiguous ==
  ASSUME NEW after \in Nat, NEW first \in Nat, NEW n \in Nat
  PROVE  LET page == ParsePage(after, first, n)
             end == EndCursor(page, after)
         IN  /\ end \in Nat /\ after <= end
             /\ end <= n \/ end = after
             /\ ToSet(page.at) = (after + 1) .. end
             /\ ~page.more => n <= end
  <1> DEFINE last == IF after + first < n THEN after + first ELSE n
             page == ParsePage(after, first, n)
             end == EndCursor(page, after)
  <1>1. page.at = Between(after, last) /\ (~page.more => ~(last < n))
    BY DEF ParsePage
  <1>2. last \in Nat /\ last <= n
    OBVIOUS
  <1> HIDE DEF last
  <1>3. ~page.more => n <= last
    BY <1>1, <1>2
  <1>4. CASE last <= after
    <2>1. 1..(last - after) = {}
      BY <1>2, <1>4
    <2>2. Between(after, last) = << >>
      BY <2>1 DEF Between
    <2>3. ToSet(Between(after, last)) = {}
      BY <2>2 DEF ToSet
    <2>4. end = after
      BY <1>1, <2>2 DEF EndCursor
    <2>5. (after + 1) .. after = {}
      OBVIOUS
    <2>6. ~page.more => n <= after
      <3>1. n <= last => n <= after
        BY <1>2, <1>4
      <3> QED BY <1>3, <3>1
    <2>7. ToSet(page.at) = (after + 1) .. after
      BY <1>1, <2>3, <2>5
    <2> HIDE DEF page, end
    <2>8. /\ end \in Nat /\ after <= end /\ end = after
          /\ ToSet(page.at) = (after + 1) .. end /\ (~page.more => n <= end)
      BY <2>4, <2>6, <2>7
    <2> QED BY <2>8 DEF page, end
  <1>5. CASE after < last
    <2>1. PICK m \in Nat \ {0} : m = last - after
      BY <1>2, <1>5
    <2>2. PICK seq : seq = Between(after, last)
      OBVIOUS
    <2>3. seq = [k \in 1..m |-> after + k]
      BY <2>1, <2>2 DEF Between
    <2>4. /\ seq \in [1..m -> Nat] /\ seq[m] = last
          /\ \A k \in 1..m : seq[k] = after + k
      <3>1. seq[m] = after + m /\ after + m = last
        BY <1>2, <2>1, <2>3
      <3> QED BY <2>3, <3>1
    <2>5. seq \in Seq(Nat) /\ Len(seq) = m /\ DOMAIN seq = 1..m
      BY <2>4, IsASeq
    <2>6. seq # << >>
      BY <2>5
    <2>7. end = last
      BY <1>1, <2>2, <2>4, <2>5, <2>6 DEF EndCursor, Last
    <2>8. ToSet(seq) = (after + 1) .. last
      <3>1. \A k \in 1..m : after + k \in (after + 1) .. last
        BY <1>2, <2>1
      <3>2. \A i \in (after + 1) .. last : i - after \in 1..m /\ after + (i - after) = i
        BY <1>2, <2>1
      <3>3. ToSet(seq) = {seq[k] : k \in 1..m}
        BY <2>5 DEF ToSet
      <3> QED BY <2>4, <3>1, <3>2, <3>3
    <2>9. ToSet(page.at) = (after + 1) .. last /\ (~page.more => n <= last)
      BY <1>1, <1>3, <2>2, <2>8
    <2> HIDE DEF page, end
    <2>10. /\ end \in Nat /\ after <= end /\ end <= n
           /\ ToSet(page.at) = (after + 1) .. end /\ (~page.more => n <= end)
      BY <1>2, <1>5, <2>7, <2>9
    <2> QED BY <2>10 DEF page, end
  <1> QED BY <1>2, <1>4, <1>5

(***************************************************************************)
(* Every step of the log and of its readers keeps the invariant.           *)
(***************************************************************************)
LEMMA IndexStep == IndexInv /\ [StreamNext]_streamVars => IndexInv'
  <1> SUFFICES ASSUME IndexInv, [StreamNext]_streamVars
               PROVE  IndexInv'
    OBVIOUS
  <1>1. /\ log \in Seq(Message) /\ Len(log) \in Nat
        /\ checkpoint \in 0..Len(log) /\ horizon \in 0..Len(log)
    BY DEF IndexInv
  <1>2. ASSUME UNCHANGED <<log, checkpoint, catalogue, caughtUp, horizon>>
        PROVE  IndexInv'
    BY <1>2 DEF IndexInv, Registrations, Decodes, DecodeEventBody
  <1>3. ASSUME NEW m \in Message, Emit(m)
        PROVE  IndexInv'
    <2>1. /\ log' = Append(log, m)
          /\ UNCHANGED <<checkpoint, catalogue, caughtUp, horizon>>
      BY <1>3 DEF Emit, indexer
    <2>2. /\ log' \in Seq(Message) /\ Len(log') = Len(log) + 1
          /\ \A i \in 1..Len(log) : log'[i] = log[i]
      BY <1>1, <2>1
    <2>3. \A i \in 1..checkpoint : i \in 1..Len(log)
      BY <1>1
    <2>4. 0..Len(log) \subseteq 0..Len(log')
      BY <1>1, <2>2
    <2> QED BY <1>1, <2>1, <2>2, <2>3, <2>4 DEF IndexInv
  <1>4. ASSUME NEW n \in 0..MAX_LOG, NEW first \in 0..(MAX_FIRST + 1),
               ListMarketplace(first, n)
        PROVE  IndexInv'
    <2> DEFINE size == IF first < 1 THEN 1 ELSE IF first > MAX_FIRST THEN MAX_FIRST ELSE first
               page == ParsePage(checkpoint, size, n)
               end == EndCursor(page, checkpoint)
    <2>1. /\ n \in Served /\ checkpoint' = end /\ log' = log
          /\ catalogue' = catalogue \cup {i \in ToSet(page.at) : log[i] \in Registrations}
          /\ caughtUp' => ~page.more
          /\ horizon' = IF Len(log) > MAX_LAG THEN Len(log) - MAX_LAG ELSE 0
      BY <1>4 DEF ListMarketplace
    <2>2. n \in 1..Len(log) /\ n + MAX_LAG >= Len(log)
      BY <2>1 DEF Served
    <2>3. size \in Nat /\ checkpoint \in Nat /\ n \in Nat
      BY <1>1, StreamAssumption
    <2> HIDE DEF size
    <2>4. /\ end \in Nat /\ checkpoint <= end /\ (end <= n \/ end = checkpoint)
          /\ ToSet(page.at) = (checkpoint + 1) .. end
          /\ ~page.more => n <= end
      BY <2>3, PageIsContiguous
    <2> HIDE DEF page, end
    <2>5. end \in 0..Len(log)
      BY <1>1, <2>2, <2>4
    <2>6. ASSUME NEW i \in 1..end, log[i] \in Registrations
          PROVE  i \in catalogue'
      <3>1. CASE i \in 1..checkpoint
        BY <2>1, <2>6, <3>1 DEF IndexInv
      <3>2. CASE i \notin 1..checkpoint
        <4>1. i \in (checkpoint + 1) .. end
          BY <2>3, <2>4, <3>2
        <4> QED BY <2>1, <2>4, <2>6, <4>1
      <3> QED BY <3>1, <3>2
    <2>7. horizon' \in 0..Len(log) /\ horizon' <= n
      <3>1. Len(log) \in Nat /\ MAX_LAG \in Nat /\ n \in Nat
        BY <1>1, <2>3, StreamAssumption
      <3>2. CASE Len(log) > MAX_LAG
        <4>1. horizon' = Len(log) - MAX_LAG
          BY <2>1, <3>2
        <4> QED BY <2>1, <2>2, <3>1, <3>2, <4>1
      <3>3. CASE ~(Len(log) > MAX_LAG)
        <4>1. horizon' = 0
          BY <2>1, <3>3
        <4> QED BY <2>1, <2>2, <3>1, <4>1
      <3> QED BY <3>2, <3>3
    <2>8. caughtUp' => horizon' <= checkpoint'
      <3> SUFFICES ASSUME caughtUp'
                   PROVE  horizon' <= checkpoint'
        OBVIOUS
      <3>1. n <= end /\ end \in Nat /\ n \in Nat /\ horizon' \in Nat
        BY <1>1, <2>1, <2>3, <2>4, <2>7
      <3> QED BY <2>1, <2>7, <3>1
    <2> QED BY <1>1, <2>1, <2>5, <2>6, <2>7, <2>8 DEF IndexInv
  <1>5. ASSUME NEW n \in 0..MAX_LOG, PollPage(n)
        PROVE  IndexInv'
    BY <1>2, <1>5 DEF PollPage, indexer
  <1>6. CASE PollFails \/ YieldRecord \/ Resubscribe
    BY <1>2, <1>6 DEF PollFails, YieldRecord, Resubscribe, indexer
  <1>7. CASE UNCHANGED streamVars
    BY <1>2, <1>7 DEF streamVars
  <1> QED BY <1>3, <1>4, <1>5, <1>6, <1>7 DEF StreamNext

(***************************************************************************)
(* A caller that has been told it has caught up knows every registration   *)
(* there was: for any page size, any lag of the nodes and any log.         *)
(***************************************************************************)
THEOREM CaughtUpStaysComplete == StreamSpec => []CaughtUpIsComplete
  <1>1. StreamInit => IndexInv
    BY DEF StreamInit, IndexInv
  <1>2. IndexInv => CaughtUpIsComplete
    BY DEF IndexInv, CaughtUpIsComplete
  <1> QED BY <1>1, <1>2, IndexStep, PTL DEF StreamSpec

-----------------------------------------------------------------------------
(* Private notes *)

Leg == {"deposit", "gas"}

Place ==
  {"idle", "mint", "await event", "scan", "prepare", "await height", "witness",
   "prove", "submit", "await note", "observe"}

Page == {"", "neither", "undecodable", "own"}

RunAnswer == {"none", "busy", "failed", "dropped", "ok", "short", "unknown"}

Run == [at : Place, leg : Leg, page : Page, layer : Nat, answer : RunAnswer]

NoteTyped ==
  /\ minting \in BOOLEAN
  /\ run \in [Onboarder -> Run]
  /\ paid \in [Onboarder -> SUBSET Leg]
  /\ submitted \in [Onboarder -> SUBSET Leg]
  /\ executed \in [Onboarder -> SUBSET Leg]
  /\ notes \in Nat

Running(o) == run[o].at # "idle"

(***************************************************************************)
(* The latch is what keeps a second run from starting.                     *)
(***************************************************************************)
LatchInv ==
  /\ \A o, p \in Onboarder : Running(o) /\ Running(p) => o = p
  /\ minting <=> \E o \in Onboarder : Running(o)

(* Places of a run that it reaches only with the leg's voucher paid. *)
HasVoucher ==
  {"prepare", "await height", "witness", "prove", "submit", "await note", "observe"}

(***************************************************************************)
(* Why gas follows the note: what RootPN executes was submitted, what was  *)
(* submitted was paid, and a run turns to its gas leg only when its note   *)
(* is active.                                                              *)
(***************************************************************************)
RunInv(o) ==
  /\ executed[o] \subseteq submitted[o] /\ submitted[o] \subseteq paid[o]
  /\ run[o].at \in HasVoucher => run[o].leg \in paid[o]
  /\ run[o].at = "scan" /\ run[o].page = "own" => run[o].leg \in paid[o]
  /\ Running(o) => run[o].answer = "none"
  /\ Running(o) /\ run[o].leg = "gas" => "deposit" \in executed[o]
  /\ "gas" \in paid[o] => "deposit" \in executed[o]
  /\ run[o].answer = "ok" => "gas" \in executed[o]

NoteInv == NoteTyped /\ LatchInv /\ \A o \in Onboarder : RunInv(o)

(***************************************************************************)
(* What a step of one caller's run may do to the others': nothing, but it  *)
(* may start while all others are idle, and end.                           *)
(***************************************************************************)
StepOf(o) ==
  /\ \A p \in Onboarder \ {o} :
       /\ run'[p] = run[p] /\ paid'[p] = paid[p]
       /\ submitted'[p] = submitted[p] /\ executed'[p] = executed[p]
  /\ \/ run'[o].at # "idle" /\ Running(o) /\ minting' = minting
     \/ run'[o].at # "idle" /\ ~minting /\ minting'
     \/ run'[o].at = "idle" /\ Running(o) /\ ~minting'
     \/ run'[o].at = "idle" /\ ~Running(o) /\ minting' = minting

-----------------------------------------------------------------------------

(***************************************************************************)
(* The beginning of a run.                                                 *)
(***************************************************************************)
LEMMA NoRunIs ==
  /\ NoRun \in Run /\ NoRun.at = "idle" /\ NoRun.leg = "deposit"
  /\ NoRun.answer = "none"
  /\ [NoRun EXCEPT !.at = "mint"] \in Run
  /\ [NoRun EXCEPT !.at = "mint"].at = "mint"
  /\ [NoRun EXCEPT !.at = "mint"].leg = "deposit"
  /\ [NoRun EXCEPT !.at = "mint"].answer = "none"
BY DEF NoRun, Run, Leg, Place, Page, RunAnswer

LEMMA InitHolds == OnboardingInit => NoteInv
<1> SUFFICES ASSUME OnboardingInit PROVE NoteInv
  OBVIOUS
<1>1. \A o \in Onboarder : run[o] = NoRun
  BY DEF OnboardingInit
<1>2. NoteTyped
  BY NoRunIs DEF OnboardingInit, NoteTyped
<1>3. LatchInv
  BY <1>1, NoRunIs DEF OnboardingInit, LatchInv, Running
<1>4. ASSUME NEW o \in Onboarder PROVE RunInv(o)
  <2>1. run[o].at = "idle" /\ run[o].answer = "none"
    BY <1>1, NoRunIs
  <2>2. paid[o] = {} /\ submitted[o] = {} /\ executed[o] = {}
    BY DEF OnboardingInit
  <2> QED
    BY <2>1, <2>2 DEF RunInv, Running, HasVoucher
<1> QED
  BY <1>2, <1>3, <1>4 DEF NoteInv

(***************************************************************************)
(* A run that moves on, and one that ends.                                 *)
(***************************************************************************)
OthersStay(o) == \A p \in Onboarder \ {o} : run'[p] = run[p]

Moved(o, to) ==
  /\ run' \in [Onboarder -> Run] /\ minting' = minting /\ OthersStay(o)
  /\ run'[o].at = to /\ run'[o].leg = run[o].leg /\ run'[o].answer = run[o].answer

Ended(o, answer) ==
  /\ run' \in [Onboarder -> Run] /\ minting' = FALSE /\ OthersStay(o)
  /\ run'[o].at = "idle" /\ run'[o].leg = run[o].leg /\ run'[o].answer = answer

LEMMA GoesMoves ==
  ASSUME NoteTyped, NEW o \in Onboarder, NEW to \in Place, Goes(o, to)
  PROVE  Moved(o, to)
BY DEF NoteTyped, Goes, Run, Moved, OthersStay

LEMMA NextLayerMoves ==
  ASSUME NoteTyped, NEW o \in Onboarder, NextLayer(o)
  PROVE  Moved(o, "await height")
<1>1. run[o] \in Run /\ run[o].layer + 1 \in Nat
  BY DEF NoteTyped, Run
<1>2. PICK layer \in Nat :
        run' = [run EXCEPT ![o].at = "await height", ![o].layer = layer]
  BY <1>1 DEF NextLayer
<1>3. run' \in [Onboarder -> Run]
  BY <1>2 DEF NoteTyped, Run, Place
<1>4. OthersStay(o) /\ minting' = minting
  BY <1>2 DEF NextLayer, NoteTyped, OthersStay
<1>5. /\ run'[o].at = "await height" /\ run'[o].leg = run[o].leg
      /\ run'[o].answer = run[o].answer
  BY <1>2 DEF NoteTyped, Run
<1> QED
  BY <1>3, <1>4, <1>5 DEF Moved

LEMMA EndsEnded ==
  ASSUME NoteTyped, NEW o \in Onboarder, NEW answer \in RunAnswer, Ends(o, answer)
  PROVE  Ended(o, answer)
BY DEF NoteTyped, Ends, Run, Ended, OthersStay, Place

(* Adding the run's leg to what was paid or submitted. *)
Added(set, more, o) ==
  /\ more \in [Onboarder -> SUBSET Leg]
  /\ more[o] = set[o] \cup {run[o].leg}
  /\ \A p \in Onboarder \ {o} : more[p] = set[p]

LEMMA WithAdds ==
  ASSUME NoteTyped, NEW o \in Onboarder, NEW set \in [Onboarder -> SUBSET Leg]
  PROVE  Added(set, With(set, o), o)
BY DEF NoteTyped, With, Run, Added

(***************************************************************************)
(* Every action keeps the types, is the step of one run, and keeps what is *)
(* known of that run.                                                      *)
(***************************************************************************)
Keeps(o) == NoteTyped' /\ StepOf(o) /\ RunInv(o)'

LEMMA MovingKeeps ==
  ASSUME NoteInv, NEW o \in Onboarder, Running(o),
         NEW to \in Place \ {"idle", "scan"}, Moved(o, to),
         to \in HasVoucher => run[o].leg \in paid[o],
         UNCHANGED <<paid, submitted, executed, notes>>
  PROVE  Keeps(o)
<1>1. NoteTyped'
  BY DEF NoteInv, NoteTyped, Moved
<1>2. StepOf(o)
  BY DEF NoteInv, NoteTyped, Moved, OthersStay, StepOf
<1>3. RunInv(o)'
  BY DEF NoteInv, Moved, RunInv, Running
<1> QED
  BY <1>1, <1>2, <1>3 DEF Keeps

LEMMA EndingKeeps ==
  ASSUME NoteInv, NEW o \in Onboarder, Running(o), NEW answer \in RunAnswer,
         Ended(o, answer), answer = "ok" => "gas" \in executed[o],
         UNCHANGED <<paid, submitted, executed, notes>>
  PROVE  Keeps(o)
<1>1. NoteTyped'
  BY DEF NoteInv, NoteTyped, Ended
<1>2. StepOf(o)
  BY DEF NoteInv, NoteTyped, Ended, OthersStay, StepOf
<1>3. RunInv(o)'
  BY DEF NoteInv, Ended, RunInv, Running, HasVoucher
<1> QED
  BY <1>1, <1>2, <1>3 DEF Keeps

LEMMA StartRunKeeps ==
  ASSUME NoteInv, NEW o \in Onboarder, StartRun(o)
  PROVE  Keeps(o)
<1>0. ~Running(o)
  BY DEF StartRun, Running
<1>1. CASE minting
  <2>1. /\ run' \in [Onboarder -> Run] /\ OthersStay(o)
        /\ run'[o].at = "idle" /\ run'[o].leg = run[o].leg /\ run'[o].answer = "busy"
    BY <1>0, <1>1 DEF StartRun, NoteInv, NoteTyped, Run, RunAnswer, OthersStay, Running
  <2>2. notes' \in Nat /\ UNCHANGED <<minting, paid, submitted, executed>>
    BY <1>1 DEF StartRun, NoteInv, NoteTyped
  <2>3. NoteTyped'
    BY <2>1, <2>2 DEF NoteInv, NoteTyped
  <2>4. StepOf(o)
    BY <1>0, <2>1, <2>2 DEF StepOf, OthersStay
  <2>5. RunInv(o)'
    BY <2>1, <2>2 DEF NoteInv, RunInv, Running, HasVoucher
  <2> QED
    BY <2>3, <2>4, <2>5 DEF Keeps
<1>2. CASE ~minting
  <2> DEFINE new == [NoRun EXCEPT !.at = "mint"]
  <2>1. /\ run' = [run EXCEPT ![o] = new] /\ minting' = TRUE
        /\ paid' = [paid EXCEPT ![o] = {}] /\ submitted' = [submitted EXCEPT ![o] = {}]
        /\ executed' = [executed EXCEPT ![o] = {}] /\ notes' = notes + 1
    BY <1>2 DEF StartRun
  <2>2. new \in Run /\ new.at = "mint" /\ new.leg = "deposit" /\ new.answer = "none"
    BY NoRunIs
  <2> HIDE DEF new
  <2>3. run' \in [Onboarder -> Run] /\ run'[o] = new /\ OthersStay(o)
    BY <2>1, <2>2 DEF NoteInv, NoteTyped, OthersStay
  <2>4. /\ paid'[o] = {} /\ submitted'[o] = {} /\ executed'[o] = {}
        /\ \A p \in Onboarder \ {o} : /\ paid'[p] = paid[p] /\ submitted'[p] = submitted[p]
                                      /\ executed'[p] = executed[p]
        /\ paid' \in [Onboarder -> SUBSET Leg] /\ submitted' \in [Onboarder -> SUBSET Leg]
        /\ executed' \in [Onboarder -> SUBSET Leg]
    BY <2>1 DEF NoteInv, NoteTyped
  <2>5. NoteTyped'
    BY <2>1, <2>3, <2>4 DEF NoteInv, NoteTyped
  <2>6. StepOf(o)
    BY <1>2, <2>1, <2>2, <2>3, <2>4 DEF StepOf, OthersStay
  <2>7. RunInv(o)'
    BY <2>2, <2>3, <2>4 DEF RunInv, Running, HasVoucher
  <2> QED
    BY <2>5, <2>6, <2>7 DEF Keeps
<1> QED
  BY <1>1, <1>2

LEMMA VoucherKeeps ==
  ASSUME NoteInv, NEW o \in Onboarder, MintVoucher(o) \/ VoucherPaid(o)
  PROVE  Keeps(o)
<1>0. NoteTyped /\ Running(o) /\ UNCHANGED <<submitted, executed, notes>>
  BY DEF NoteInv, MintVoucher, VoucherPaid, Running
<1>1. paid' = paid \/ Added(paid, paid', o)
  BY <1>0, WithAdds DEF NoteTyped, MintVoucher, VoucherPaid
<1>2. \/ Moved(o, "await event")
      \/ Ended(o, "failed")
      \/ run' = run /\ minting' = minting
  <2>1. CASE MintVoucher(o)
    BY <1>0, <2>1, GoesMoves, EndsEnded DEF MintVoucher, Place, RunAnswer
  <2>2. CASE VoucherPaid(o)
    BY <2>2 DEF VoucherPaid
  <2> QED
    BY <2>1, <2>2
<1>3. NoteTyped'
  BY <1>0, <1>1, <1>2 DEF NoteTyped, Added, Moved, Ended
<1>4. StepOf(o)
  BY <1>0, <1>1, <1>2 DEF StepOf, NoteTyped, Added, Moved, Ended, OthersStay, Running
<1>5. RunInv(o)'
  BY <1>0, <1>1, <1>2
     DEF NoteInv, RunInv, Added, Moved, Ended, Running, HasVoucher
<1> QED
  BY <1>3, <1>4, <1>5 DEF Keeps

LEMMA EventKeeps ==
  ASSUME NoteInv, NEW o \in Onboarder, FetchEvents(o) \/ AwaitEvent(o)
  PROVE  Keeps(o)
<1>0. NoteTyped /\ Running(o) /\ UNCHANGED <<paid, submitted, executed, notes>>
  BY DEF NoteInv, FetchEvents, AwaitEvent, Running
<1>1. CASE Ends(o, "failed")
  BY <1>0, <1>1, EndsEnded, EndingKeeps DEF RunAnswer
<1>2. ASSUME NEW page \in Pages(o), minting' = minting,
             run' = [run EXCEPT ![o].at = "scan", ![o].page = page]
      PROVE  Keeps(o)
  <2>1. page \in Page /\ (page = "own" => run[o].leg \in paid[o])
    BY <1>2 DEF Pages, Page
  <2>2. /\ run' \in [Onboarder -> Run] /\ OthersStay(o)
        /\ run'[o].at = "scan" /\ run'[o].leg = run[o].leg
        /\ run'[o].answer = run[o].answer /\ run'[o].page = page
    BY <1>0, <1>2, <2>1 DEF NoteTyped, Run, Place, OthersStay
  <2>3. NoteTyped'
    BY <1>0, <1>2, <2>2 DEF NoteTyped
  <2>4. StepOf(o)
    BY <1>0, <1>2, <2>2 DEF StepOf, OthersStay
  <2>5. RunInv(o)'
    BY <1>0, <2>1, <2>2 DEF NoteInv, RunInv, Running, HasVoucher
  <2> QED
    BY <2>3, <2>4, <2>5 DEF Keeps
<1>3. ASSUME AwaitEvent(o), Goes(o, "prepare")
      PROVE  Keeps(o)
  <2>1. run[o].leg \in paid[o]
    <3>1. run'[o].at = "prepare"
      BY <1>0, <1>3, GoesMoves DEF Place, Moved
    <3>2. ~Goes(o, "await event") /\ ~Ends(o, "failed")
      BY <1>0, <3>1, GoesMoves, EndsEnded DEF Place, RunAnswer, Moved, Ended
    <3> QED
      BY <1>3, <3>2 DEF AwaitEvent, NoteInv, RunInv
  <2> QED
    BY <1>0, <1>3, <2>1, GoesMoves, MovingKeeps DEF Place
<1>4. CASE Goes(o, "await event")
  BY <1>0, <1>4, GoesMoves, MovingKeeps DEF Place, HasVoucher
<1> QED
  BY <1>1, <1>2, <1>3, <1>4 DEF FetchEvents, AwaitEvent

LEMMA ProofKeeps ==
  ASSUME NoteInv, NEW o \in Onboarder,
         PrepareProof(o) \/ AwaitHeight(o) \/ ExportWitness(o) \/ GenerateProof(o)
  PROVE  Keeps(o)
<1>0. /\ NoteTyped /\ Running(o) /\ UNCHANGED <<paid, submitted, executed, notes>>
      /\ run[o].leg \in paid[o]
  BY DEF NoteInv, PrepareProof, AwaitHeight, ExportWitness, GenerateProof, Running,
     RunInv, HasVoucher
<1>1. CASE Ends(o, "failed")
  BY <1>0, <1>1, EndsEnded, EndingKeeps DEF RunAnswer
<1>2. ASSUME NEW to \in {"witness", "prove", "submit", "await height"}, Moved(o, to)
      PROVE  Keeps(o)
  BY <1>0, <1>2, MovingKeeps DEF Place
<1>3. ASSUME NEW to \in {"witness", "prove", "submit"}, Goes(o, to)
      PROVE  Keeps(o)
  BY <1>0, <1>2, <1>3, GoesMoves DEF Place
<1>4. CASE NextLayer(o)
  BY <1>0, <1>2, <1>4, NextLayerMoves
<1>5. ASSUME run' = [run EXCEPT ![o].at = "await height", ![o].layer = 1],
             minting' = minting
      PROVE  Keeps(o)
  BY <1>0, <1>2, <1>5 DEF NoteTyped, Run, Place, Moved, OthersStay
<1> QED
  BY <1>1, <1>3, <1>4, <1>5 DEF PrepareProof, AwaitHeight, ExportWitness, GenerateProof

LEMMA SubmitKeeps ==
  ASSUME NoteInv, NEW o \in Onboarder, SubmitProof(o)
  PROVE  Keeps(o)
<1>0. /\ NoteTyped /\ Running(o) /\ UNCHANGED <<paid, executed, notes>>
      /\ run[o].leg \in paid[o]
  BY DEF NoteInv, SubmitProof, Running, RunInv, HasVoucher
<1>1. submitted' = submitted \/ Added(submitted, submitted', o)
  BY <1>0, WithAdds DEF NoteTyped, SubmitProof
<1>2. Moved(o, "await note") \/ Moved(o, "observe") \/ Ended(o, "failed")
  BY <1>0, GoesMoves, EndsEnded DEF SubmitProof, Place, RunAnswer
<1>3. NoteTyped'
  BY <1>0, <1>1, <1>2 DEF NoteTyped, Added, Moved, Ended
<1>4. StepOf(o)
  BY <1>0, <1>1, <1>2 DEF StepOf, NoteTyped, Added, Moved, Ended, OthersStay
<1>5. RunInv(o)'
  BY <1>0, <1>1, <1>2
     DEF NoteInv, RunInv, Added, Moved, Ended, Running, HasVoucher
<1> QED
  BY <1>3, <1>4, <1>5 DEF Keeps

LEMMA RootExecutesKeeps ==
  ASSUME NoteInv, NEW o \in Onboarder, NEW leg \in Leg, RootExecutes(o, leg)
  PROVE  Keeps(o)
<1>1. /\ UNCHANGED <<minting, run, paid, submitted, notes>>
      /\ executed' \in [Onboarder -> SUBSET Leg]
      /\ executed'[o] = executed[o] \cup {leg} /\ leg \in submitted[o]
      /\ \A p \in Onboarder \ {o} : executed'[p] = executed[p]
  BY DEF RootExecutes, NoteInv, NoteTyped
<1>2. NoteTyped'
  BY <1>1 DEF NoteInv, NoteTyped
<1>3. StepOf(o)
  BY <1>1 DEF StepOf, Running
<1>4. RunInv(o)'
  BY <1>1 DEF NoteInv, RunInv, Running
<1> QED
  BY <1>2, <1>3, <1>4 DEF Keeps

LEMMA AwaitNoteKeeps ==
  ASSUME NoteInv, NEW o \in Onboarder, AwaitNote(o)
  PROVE  Keeps(o)
<1>0. NoteTyped /\ Running(o) /\ UNCHANGED <<paid, submitted, executed, notes>>
  BY DEF NoteInv, AwaitNote, Running
<1>1. CASE Ends(o, "failed")
  BY <1>0, <1>1, EndsEnded, EndingKeeps DEF RunAnswer
<1>2. ASSUME "deposit" \in executed[o], minting' = minting,
             run' = [run EXCEPT ![o].at = "mint", ![o].leg = "gas"]
      PROVE  Keeps(o)
  <2>1. /\ run' \in [Onboarder -> Run] /\ OthersStay(o)
        /\ run'[o].at = "mint" /\ run'[o].answer = run[o].answer
    <3>1. PICK leg \in Leg : run' = [run EXCEPT ![o].at = "mint", ![o].leg = leg]
      BY <1>2 DEF Leg
    <3>2. run' \in [Onboarder -> Run]
      BY <1>0, <3>1 DEF NoteTyped, Run, Place
    <3> QED
      BY <1>0, <3>1, <3>2 DEF NoteTyped, Run, OthersStay
  <2>2. NoteTyped'
    BY <1>0, <1>2, <2>1 DEF NoteTyped
  <2>3. StepOf(o)
    BY <1>0, <1>2, <2>1 DEF StepOf, OthersStay
  <2>4. RunInv(o)'
    BY <1>0, <1>2, <2>1 DEF NoteInv, RunInv, Running, HasVoucher
  <2> QED
    BY <2>2, <2>3, <2>4 DEF Keeps
<1> QED
  BY <1>1, <1>2 DEF AwaitNote

LEMMA FinishKeeps ==
  ASSUME NoteInv, NEW o \in Onboarder, ObserveGas(o) \/ DropRun(o)
  PROVE  Keeps(o)
<1>0. NoteTyped /\ Running(o) /\ UNCHANGED <<paid, submitted, executed, notes>>
  BY DEF NoteInv, ObserveGas, DropRun, Running
<1>1. PICK answer \in RunAnswer :
        Ends(o, answer) /\ (answer = "ok" => "gas" \in executed[o])
  BY DEF ObserveGas, Terminal, DropRun, RunAnswer
<1> QED
  BY <1>0, <1>1, EndsEnded, EndingKeeps

LEMMA NextKeeps ==
  ASSUME NoteInv, OnboardingNext
  PROVE  \E o \in Onboarder : Keeps(o)
<1>1. PICK o \in Onboarder :
        \/ StartRun(o) \/ MintVoucher(o) \/ VoucherPaid(o) \/ FetchEvents(o)
        \/ AwaitEvent(o) \/ PrepareProof(o) \/ AwaitHeight(o)
        \/ ExportWitness(o) \/ GenerateProof(o) \/ SubmitProof(o) \/ AwaitNote(o)
        \/ ObserveGas(o) \/ DropRun(o)
        \/ \E leg \in Leg : RootExecutes(o, leg)
  BY DEF OnboardingNext, Leg
<1> QED
  BY <1>1, StartRunKeeps, VoucherKeeps, EventKeeps, ProofKeeps, SubmitKeeps,
     AwaitNoteKeeps, RootExecutesKeeps, FinishKeeps

(***************************************************************************)
(* A step of one run keeps the latch honest.                               *)
(***************************************************************************)
LEMMA LatchStep ==
  ASSUME NoteInv, NEW o \in Onboarder, StepOf(o)
  PROVE  LatchInv'
<1>1. ASSUME NEW p \in Onboarder, Running(p)', p # o
      PROVE  Running(p) /\ minting
  BY <1>1 DEF StepOf, NoteInv, LatchInv, Running
<1>2. CASE Running(o)'
  <2>1. ASSUME NEW p \in Onboarder, Running(p)' PROVE p = o
    BY <1>1, <1>2, <2>1 DEF StepOf, NoteInv, LatchInv, Running
  <2>2. minting'
    BY <1>2 DEF StepOf, NoteInv, LatchInv, Running
  <2> QED
    BY <1>2, <2>1, <2>2 DEF LatchInv
<1>3. CASE ~Running(o)'
  BY <1>1, <1>3 DEF StepOf, NoteInv, LatchInv, Running
<1> QED
  BY <1>2, <1>3

LEMMA InvStep ==
  ASSUME NoteInv, [OnboardingNext]_noteVars
  PROVE  NoteInv'
<1>1. CASE OnboardingNext
  <2>1. PICK o \in Onboarder : Keeps(o)
    BY <1>1, NextKeeps
  <2>2. LatchInv'
    BY <2>1, LatchStep DEF Keeps
  <2>3. ASSUME NEW p \in Onboarder, p # o
        PROVE  RunInv(p)'
    BY <2>1, <2>3 DEF Keeps, StepOf, NoteInv, RunInv, Running
  <2> QED
    BY <2>1, <2>2, <2>3 DEF Keeps, NoteInv
<1>2. CASE UNCHANGED noteVars
  BY <1>2 DEF noteVars, NoteInv, NoteTyped, LatchInv, RunInv, Running
<1> QED
  BY <1>1, <1>2

LEMMA InvAlways == OnboardingSpec => []NoteInv
BY InitHolds, InvStep, PTL DEF OnboardingSpec

-----------------------------------------------------------------------------
(***************************************************************************)
(* However a run ends - by an error at any step or by being dropped - the  *)
(* latch is free exactly when no run is under way, and never two are       *)
(* (MintGuard).                                                            *)
(***************************************************************************)
THEOREM RunsAreSerial == OnboardingSpec => []MintingIsSerial
<1>1. NoteInv => MintingIsSerial
  <2> SUFFICES ASSUME NoteInv PROVE MintingIsSerial
    OBVIOUS
  <2> DEFINE running == {o \in Onboarder : run[o].at # "idle"}
  <2>1. minting = (running # {})
    BY DEF NoteInv, NoteTyped, LatchInv, Running
  <2>2. Cardinality(running) <= 1
    <3>1. CASE running = {}
      BY <3>1, FS_EmptySet
    <3>2. CASE running # {}
      <4>1. PICK o \in running : TRUE
        BY <3>2
      <4>2. running = {o}
        BY <4>1 DEF NoteInv, LatchInv, Running
      <4> QED
        BY <4>2, FS_Singleton
    <3> QED
      BY <3>1, <3>2
  <2> QED
    BY <2>1, <2>2 DEF MintingIsSerial
<1> QED
  BY <1>1, InvAlways, PTL

(***************************************************************************)
(* Whatever fails, gas is paid for only when the note is active, and a run *)
(* that answers ok has used both vouchers it paid for                      *)
(* (deploy_private_note_from_multisig).                                    *)
(***************************************************************************)
THEOREM GasComesLast == OnboardingSpec => []GasFollowsTheNote
<1>1. NoteInv => GasFollowsTheNote
  <2> SUFFICES ASSUME NoteInv, NEW o \in Onboarder
               PROVE  /\ run[o].answer = "ok"
                           => executed[o] = Leg /\ executed[o] = paid[o]
                      /\ "gas" \in paid[o] => "deposit" \in executed[o]
    BY DEF GasFollowsTheNote, Leg
  <2>1. /\ executed[o] \subseteq paid[o] /\ paid[o] \subseteq Leg
        /\ "gas" \in paid[o] => "deposit" \in executed[o]
        /\ run[o].answer = "ok" => "gas" \in executed[o]
    BY DEF NoteInv, NoteTyped, RunInv
  <2> QED
    BY <2>1 DEF Leg
<1> QED
  BY <1>1, InvAlways, PTL

(***************************************************************************)
(* Failing reads alone never make a note short of gas                      *)
(* (read_to_terminal, classify_gas_effect).                                *)
(***************************************************************************)
THEOREM OutagesSayNothing == OnboardingSpec => ShortIsConfirmed
<1>1. ASSUME NoteInv, [OnboardingNext]_noteVars
      PROVE  [\A o \in Onboarder :
                run[o].at = "observe" /\ run'[o].answer = "short"
                  => "gas" \notin executed[o]]_noteVars
  <2> SUFFICES ASSUME OnboardingNext, NEW o \in Onboarder,
                      run[o].at = "observe", run'[o].answer = "short"
               PROVE  "gas" \notin executed[o]
    BY <1>1
  <2>1. run[o].answer = "none" /\ run \in [Onboarder -> Run]
    BY <1>1 DEF NoteInv, RunInv, Running, NoteTyped
  <2>2. ObserveGas(o)
    <3>1. run'[o] # run[o]
      BY <2>1
    <3>2. ASSUME NEW p \in Onboarder, p # o, StepOf(p)
          PROVE  FALSE
      BY <3>1, <3>2 DEF StepOf
    <3>3. ASSUME ~ObserveGas(o), StartRun(o) \/ MintVoucher(o) \/ VoucherPaid(o)
                 \/ FetchEvents(o) \/ AwaitEvent(o) \/ PrepareProof(o) \/ AwaitHeight(o)
                 \/ ExportWitness(o) \/ GenerateProof(o) \/ SubmitProof(o)
                 \/ AwaitNote(o)
          PROVE  FALSE
      BY <3>3 DEF StartRun, MintVoucher, VoucherPaid, FetchEvents, AwaitEvent,
         PrepareProof, AwaitHeight, ExportWitness, GenerateProof, SubmitProof, AwaitNote
    <3>4. ~DropRun(o)
      BY <2>1 DEF DropRun, Ends, Run
    <3>5. ASSUME NEW leg \in Leg, RootExecutes(o, leg)
          PROVE  FALSE
      BY <3>1, <3>5 DEF RootExecutes
    <3>6. ASSUME NEW p \in Onboarder,
                 \/ StartRun(p) \/ MintVoucher(p) \/ VoucherPaid(p) \/ FetchEvents(p)
                 \/ AwaitEvent(p) \/ PrepareProof(p) \/ AwaitHeight(p)
                 \/ ExportWitness(p) \/ GenerateProof(p) \/ SubmitProof(p)
                 \/ AwaitNote(p) \/ ObserveGas(p) \/ DropRun(p)
                 \/ \E leg \in Leg : RootExecutes(p, leg)
          PROVE  StepOf(p)
      BY <1>1, <3>6, StartRunKeeps, VoucherKeeps, EventKeeps, ProofKeeps, SubmitKeeps,
         AwaitNoteKeeps, RootExecutesKeeps, FinishKeeps DEF Keeps
    <3> QED
      BY <3>2, <3>3, <3>4, <3>5, <3>6 DEF OnboardingNext, Leg
  <2> QED
    BY <2>1, <2>2 DEF ObserveGas, Terminal, Ends, Run
<1> QED
  BY <1>1, InvAlways, PTL DEF OnboardingSpec, ShortIsConfirmed
=============================================================================
