------------------------------- MODULE FundBuyer -------------------------------
(***************************************************************************)
(* The tool airegistry_fund_buyer (mcp/airegistry.rs, fund_buyer) against  *)
(* the treasury, a SwarmMultisigWallet.  A call takes the treasury's lock, *)
(* checks that the treasury needs a second confirmation, notes what is     *)
(* queued, sends a signed submitTransaction and polls the queue for the    *)
(* request that was not there before.                                      *)
(*                                                                         *)
(* Only the sending of the message is in the caller's hands: it is         *)
(* executed when a Block Keeper gets to it, up to its expire time, or      *)
(* never, whatever became of the call.  Other custodians use the wallet    *)
(* at the same time, and the process may restart.                          *)
(***************************************************************************)
EXTENDS SwarmMultisig

CONSTANTS
  Call,            \* calls of the tool for one treasury
  CustodianOf,     \* the key each call signs with
  TransferOf,      \* the top-up each call asks for
  Other,           \* custodians who do not use this process
  POLL_SECONDS,    \* how long a call polls (45)
  MESSAGE_LIFE,    \* validity of an external message (60)
  MAX_RESTARTS     \* bound: restarts of the process

Nobody == "nobody"

(* submitTransaction is encoded without the flag that sends all. *)
ASSUME CallAssumption ==
  /\ IsFiniteSet(Call) /\ Nobody \notin Call
  /\ CustodianOf \in [Call -> Key \ {ZeroKey}]
  /\ TransferOf \in [Call -> Transfer]
  /\ \A c \in Call : ~TransferOf[c].sendAll
  /\ Other \subseteq Caller \ Range(CustodianOf)
  /\ POLL_SECONDS \in Nat /\ MESSAGE_LIFE \in Nat /\ MAX_RESTARTS \in Nat

VARIABLES
  calls,      \* where each call is and what it has read
  lock,       \* the treasury's entry of fund_buyer_locks: its holder
  lastStamp,  \* external: time header of the last message accepted
  made,       \* history: the request id each call's message created
  restarts    \* restarts so far

callVars == <<calls, lock, lastStamp, made, restarts>>
allVars == <<vars, callVars>>

NoId == 0
Preflight == {"parameters", "snapshot", "submit"}
Running == Preflight \cup {"poll"}

FInit ==
  /\ Init
  /\ calls = [c \in Call |-> [pc |-> "idle", req |-> 0, before |-> {}, sentAt |-> 0,
                              stamp |-> 0, landed |-> FALSE, id |-> NoId]]
  /\ lock = Nobody
  /\ lastStamp = 0
  /\ made = [c \in Call |-> NoId]
  /\ restarts = 0

At(c, pc) == calls[c].pc = pc
Goto(c, pc) == calls' = [calls EXCEPT ![c].pc = pc]

(* The call returns an error; the lock guard is dropped with it. *)
Fail(c) ==
  /\ Goto(c, "failed")
  /\ lock' = Nobody

-----------------------------------------------------------------------------
(* Operators whose name carries a suffix are plausible bugs used to check  *)
(* that the properties can fail.                                           *)

(***************************************************************************)
(* fund_buyer_locks: one async mutex per treasury, held to the return.     *)
(***************************************************************************)
TakeLock(c) ==
  /\ At(c, "idle") /\ lock = Nobody
  /\ Goto(c, "parameters")
  /\ lock' = c
  /\ UNCHANGED <<vars, lastStamp, made, restarts>>

Governed_Any(req) == TRUE

Governed(req) == req >= 2

(***************************************************************************)
(* treasury_required_confirms.                                             *)
(***************************************************************************)
ReadParameters(c) ==
  /\ At(c, "parameters")
  /\ IF Governed(m_config.req)
     THEN /\ calls' = [calls EXCEPT ![c].pc = "snapshot", ![c].req = m_config.req]
          /\ UNCHANGED lock
     ELSE Fail(c)
  /\ UNCHANGED <<vars, lastStamp, made, restarts>>

(* read_transactions, before the submit. *)
Snapshot(c) ==
  /\ At(c, "snapshot")
  /\ calls' = [calls EXCEPT ![c].pc = "submit",
                            ![c].before = DOMAIN m_transactions]
  /\ UNCHANGED <<vars, lock, lastStamp, made, restarts>>

(***************************************************************************)
(* The rate limit, the policy, an unreadable treasury or a missing key     *)
(* end the call before anything is sent.                                   *)
(***************************************************************************)
Refuse(c) ==
  /\ calls[c].pc \in Preflight
  /\ Fail(c)
  /\ UNCHANGED <<vars, lastStamp, made, restarts>>

NextStamp == Cardinality({c \in Call : calls[c].stamp > 0}) + 1

(***************************************************************************)
(* send_message posts the message and check_send_response reads the        *)
(* answer.  An error may hide that the message was taken.                  *)
(***************************************************************************)
Submit(c) ==
  /\ At(c, "submit")
  /\ \E pc \in {"poll", "failed"} :
       /\ calls' = [calls EXCEPT ![c].pc = pc, ![c].sentAt = now,
                                 ![c].stamp = NextStamp]
       /\ lock' = IF pc = "failed" THEN Nobody ELSE lock
  /\ UNCHANGED <<vars, lastStamp, made, restarts>>

Matches_AnyCreator(c, id) ==
  /\ id \notin calls[c].before
  /\ m_transactions[id].body = Outbound(TransferOf[c])

Matches_AnyAge(c, id) ==
  /\ m_transactions[id].body = Outbound(TransferOf[c])
  /\ IsCustodian(CustodianOf[c])
  /\ m_transactions[id].creator = IndexOf(CustodianOf[c])

(***************************************************************************)
(* A queued request that is new, and has this call's creator, destination  *)
(* and amount.                                                             *)
(***************************************************************************)
Matches(c, id) ==
  /\ id \notin calls[c].before
  /\ m_transactions[id].body = Outbound(TransferOf[c])
  /\ IsCustodian(CustodianOf[c])
  /\ m_transactions[id].creator = IndexOf(CustodianOf[c])

Candidates(c) == {id \in DOMAIN m_transactions : Matches(c, id)}

(***************************************************************************)
(* One round of the polling loop that ends it; a round that finds nothing  *)
(* in time changes nothing.                                                *)
(***************************************************************************)
Found(c) ==
  /\ At(c, "poll")
  /\ \E id \in Candidates(c) :
       /\ Candidates(c) = {id}
       /\ calls' = [calls EXCEPT ![c].pc = "done", ![c].id = id]
  /\ lock' = Nobody
  /\ UNCHANGED <<vars, lastStamp, made, restarts>>

Ambiguous(c) ==
  /\ At(c, "poll")
  /\ Cardinality(Candidates(c)) > 1
  /\ Fail(c)
  /\ UNCHANGED <<vars, lastStamp, made, restarts>>

PollTimesOut(c) ==
  /\ At(c, "poll")
  /\ Candidates(c) = {}
  /\ now > calls[c].sentAt + POLL_SECONDS
  /\ Fail(c)
  /\ UNCHANGED <<vars, lastStamp, made, restarts>>

PollReadFails(c) ==
  /\ At(c, "poll")
  /\ Fail(c)
  /\ UNCHANGED <<vars, lastStamp, made, restarts>>

-----------------------------------------------------------------------------
(* The chain, the other custodians and the process's host *)

(***************************************************************************)
(* The chain executes a call's message: not after its expire time, and     *)
(* only with a time header above the last one accepted, so at most once.   *)
(***************************************************************************)
Deliver(c) ==
  /\ calls[c].stamp > lastStamp
  /\ now < calls[c].sentAt + MESSAGE_LIFE
  /\ SubmitTransaction(CustodianOf[c], TransferOf[c])
  /\ lastStamp' = calls[c].stamp
  /\ calls' = [calls EXCEPT ![c].landed = TRUE]
  /\ made' = [made EXCEPT ![c] =
       IF GenerateId \in DOMAIN m_transactions' THEN GenerateId ELSE NoId]
  /\ UNCHANGED <<lock, restarts>>

(***************************************************************************)
(* Custodians elsewhere submit, and everyone confirms.                     *)
(***************************************************************************)
OthersAct ==
  /\ \/ \E o \in Other, t \in Transfer : SubmitTransaction(o, t)
     \/ \E o \in Caller, id \in DOMAIN m_transactions \cup {0} : ConfirmTransaction(o, id)
     \/ \E o \in Other, args \in UpdateArgs : SubmitDataUpdate(o, args)
     \/ \E o \in Caller, id \in DOMAIN m_data : ConfirmDataUpdate(o, id)
     \/ Tick
  /\ UNCHANGED callVars

Restart ==
  /\ restarts < MAX_RESTARTS
  /\ restarts' = restarts + 1
  /\ calls' = [c \in Call |->
       IF calls[c].pc \in Running THEN [calls[c] EXCEPT !.pc = "failed"]
                                  ELSE calls[c]]
  /\ lock' = Nobody
  /\ UNCHANGED <<vars, lastStamp, made>>

FNext ==
  \/ \E c \in Call :
       \/ TakeLock(c) \/ ReadParameters(c) \/ Snapshot(c) \/ Refuse(c)
       \/ Submit(c) \/ Found(c) \/ Ambiguous(c) \/ PollTimesOut(c)
       \/ PollReadFails(c) \/ Deliver(c)
  \/ OthersAct
  \/ Restart

FSpec == FInit /\ [][FNext]_allVars

-----------------------------------------------------------------------------
(* Properties *)

(***************************************************************************)
(* Type invariant; exactly the lock's holder is between its preflight and  *)
(* its return.                                                             *)
(***************************************************************************)
CallsOK ==
  /\ \A c \in Call : /\ calls[c].pc \in Running \cup {"idle", "failed", "done"}
                     /\ calls[c].before \subseteq Nat
                     /\ calls[c].id \in Nat
  /\ {c \in Call : calls[c].pc \in Running} = {lock} \ {Nobody}

(***************************************************************************)
(* Two top-ups are never told the same transaction id: the second          *)
(* custodian confirms one request for each of them.                        *)
(***************************************************************************)
NoSharedIds ==
  \A c, d \in Call :
    (At(c, "done") /\ At(d, "done") /\ calls[c].id = calls[d].id) => c = d

(***************************************************************************)
(* The id a call returns names a request made by its own message, or by    *)
(* the late message of an earlier call of the same custodian for the same  *)
(* top-up, which had returned an error or the id of yet another request:   *)
(* never by another custodian, nor by a call that is still running, nor by *)
(* one that was told this id.                                              *)
(***************************************************************************)
CorrelationIsSound ==
  \A c \in Call : At(c, "done") =>
    \E d \in Call :
      /\ made[d] = calls[c].id
      /\ \/ d = c
         \/ At(d, "failed")
         \/ At(d, "done") /\ calls[d].id # made[d]
      /\ CustodianOf[d] = CustodianOf[c] /\ TransferOf[d] = TransferOf[c]

(***************************************************************************)
(* Top-ups are kept apart: one at a time under the lock, and each told of  *)
(* a request of its own.                                                   *)
(***************************************************************************)
TopUpsKeptApart == CallsOK /\ NoSharedIds /\ CorrelationIsSound

(***************************************************************************)
(* The message of c is executed and the top-up goes out at once, on the    *)
(* one signature it carries.                                               *)
(***************************************************************************)
ReleasedBySubmit(c) ==
  /\ calls'[c].landed /\ ~calls[c].landed
  /\ sent' # NothingSent
  /\ Cardinality(sent'.signers) < 2

(***************************************************************************)
(* A top-up is released by the signature of its own submit only if the     *)
(* owners lowered the quorum after this call's preflight had read it: the  *)
(* message is executed up to a minute after that read, under the quorum of *)
(* that moment.                                                            *)
(***************************************************************************)
NeverReleasedBySubmit ==
  [][\A c \in Call : ReleasedBySubmit(c) => m_config.req < calls[c].req]_allVars

(***************************************************************************)
(* The id a call returns is the one its own submit created.                *)
(***************************************************************************)
ReturnsItsOwnRequest ==
  \A c \in Call : At(c, "done") => calls[c].id = made[c]
=============================================================================
