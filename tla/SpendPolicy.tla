------------------------------ MODULE SpendPolicy ------------------------------
(***************************************************************************)
(* The spending policy of one wallet and the tools that obey it:           *)
(* send_transaction and confirm_transaction (mcp/tools.rs), and the        *)
(* airegistry tools that submit a transfer with SHELL attached.  Each      *)
(* looks the policy up in gosh.memory, checks the spend, reads a           *)
(* custodian's key and signs a message for the wallet.  The policy may be  *)
(* replaced between any two of these steps, the message may be executed    *)
(* late or never, and the wallet has other users.                          *)
(*                                                                         *)
(* The wallet is the one QuorumWallet describes, its owners fixed and its  *)
(* request ids given out in order: the contract is shown elsewhere never   *)
(* to use an id twice.                                                     *)
(***************************************************************************)
EXTENDS Integers, FiniteSets

CONSTANTS
  Handler,      \* tool calls under way at the same time
  Role,         \* custodians whose keys the tools hold
  Stranger,     \* custodians who do not use these tools
  REQ,          \* confirmations the wallet requires
  Dest,         \* canonical account ids
  MAX_AMOUNT,   \* largest amount
  GAS,          \* AIREGISTRY_GAS_VMSHELL
  Policy,       \* policies the wallet may have
  Change,       \* policies an administrator changes to
  Asked,        \* transfers anyone asks for
  NoPolicy, NoLimit, Unreadable, Nobody, Idle,
  MAX_TX,       \* bound: requests ever made of the wallet
  MAX_INFLIGHT  \* bound: signed messages neither executed nor lost

Custodian == Role \cup Stranger
Amount == 0..MAX_AMOUNT
Body == [dest : Dest, value : Amount, ecc2 : Amount,
         all : BOOLEAN]   \* SENDMSG_ALL_BALANCE, which the tools never set
TxId == 1..MAX_TX

(***************************************************************************)
(* A stored limit may be one parse_nanotoken does not read: a fraction, a  *)
(* negative number, a string, more than 64 bits.                           *)
(***************************************************************************)
ASSUME SpendAssumption ==
  /\ MAX_AMOUNT \in Nat /\ GAS \in Amount
  /\ Asked \subseteq Body /\ Change \subseteq Policy
  /\ IsFiniteSet(Custodian) /\ Role \cap Stranger = {}
  /\ REQ \in 1..Cardinality(Custodian)
  /\ Policy \subseteq [tier : {"standard", "frozen"},
                       max : Amount \cup {NoLimit, Unreadable},
                       allowed : SUBSET Dest, blocked : SUBSET Dest]
  /\ {NoLimit, Unreadable} \cap Amount = {} /\ NoPolicy \notin Policy
  /\ MAX_TX \in Nat /\ MAX_INFLIGHT \in Nat

VARIABLES
  stored,    \* external: the wallet's policy in gosh.memory
  setter,    \* the set_wallet_policy call: what it asks for and whether it is done
  late,      \* external: policies asked for whose call gave up waiting
  told,      \* history: the policy the last set call said is stored
  calls,     \* where each spending call is and what it has read
  inflight,  \* signed messages on their way to the wallet
  queue,     \* the wallet's queued transactions: id -> [body, voters]
  nextId     \* the wallet's next request id

policyVars == <<stored, setter, late, told>>
walletVars == <<queue, nextId>>
vars == <<policyVars, calls, inflight, walletVars>>

Init ==
  /\ stored \in Policy \cup {NoPolicy}
  /\ setter = Nobody /\ late = {} /\ told = Nobody
  /\ calls = [h \in Handler |-> Idle]
  /\ inflight = {}
  /\ queue = [id \in {} |-> id] /\ nextId = 1

-----------------------------------------------------------------------------
(* Operators whose name carries a suffix are plausible bugs used to check  *)
(* that the properties can fail; the specification does not use them.      *)

(* parse_nanotoken: what is not an integer of 64 bits is no limit. *)
ParseLimit(max) == IF max = Unreadable THEN NoLimit ELSE max

(* WalletPolicy::check *)
Permits(p, dest, amount) ==
  /\ p.tier # "frozen"
  /\ ParseLimit(p.max) # NoLimit => amount <= ParseLimit(p.max)
  /\ dest \notin p.blocked
  /\ p.allowed # {} => dest \in p.allowed

(* parse_policy_from_memory: an answer with no fact in it is no restriction. *)
Unrestricted(p) == p = NoPolicy

(***************************************************************************)
(* The amount a submit is checked for: a plain send its value, a forward   *)
(* the SHELL attached, whatever the gas that goes with it.                 *)
(***************************************************************************)
SubmitAmount(kind, body) == IF kind = "send" THEN body.value ELSE body.ecc2

(* read_queued_tx_for_policy: the larger of value and SHELL. *)
ConfirmAmount(body) == IF body.value >= body.ecc2 THEN body.value ELSE body.ecc2

-----------------------------------------------------------------------------
(***************************************************************************)
(* set_wallet_policy: memory ingests the fact in place of the one under    *)
(* the same source id.  The call reports success only on a well-formed     *)
(* answer; if it gives up, memory may still act on the request later.      *)
(***************************************************************************)
SetPolicy(p) ==
  /\ setter = Nobody
  /\ setter' = [policy |-> p, done |-> FALSE, alone |-> late = {}]
  /\ told' = Nobody
  /\ UNCHANGED <<stored, late, calls, inflight, walletVars>>

(* External: from here on lookups find p; the calls under way saw it come. *)
Ingest(p) ==
  /\ stored' = p
  /\ calls' = [h \in Handler |->
                 IF calls[h] = Idle THEN Idle
                 ELSE [calls[h] EXCEPT !.inForce = @ \cup {p}]]
  /\ UNCHANGED <<told, inflight, walletVars>>

IngestAsked ==
  /\ setter # Nobody /\ ~setter.done
  /\ Ingest(setter.policy)
  /\ setter' = [setter EXCEPT !.done = TRUE]
  /\ UNCHANGED late

IngestLate ==
  \E p \in late :
    /\ Ingest(p)
    /\ late' = late \ {p}
    /\ UNCHANGED setter

(* An earlier request that could still be acted on voids the promise. *)
Report == IF setter.alone THEN setter.policy ELSE Nobody

PolicySet_AnyAnswer ==
  /\ setter # Nobody
  /\ told' = Report
  /\ setter' = Nobody
  /\ UNCHANGED <<stored, late, calls, inflight, walletVars>>

PolicySet ==
  /\ setter # Nobody /\ setter.done
  /\ told' = Report
  /\ setter' = Nobody
  /\ UNCHANGED <<stored, late, calls, inflight, walletVars>>

PolicyNotSet ==
  /\ setter # Nobody
  /\ late' = IF setter.done THEN late ELSE late \cup {setter.policy}
  /\ setter' = Nobody
  /\ UNCHANGED <<stored, told, calls, inflight, walletVars>>

-----------------------------------------------------------------------------
(***************************************************************************)
(* A spending call, from the limiter's admission to the signed message.    *)
(* Every await of it may fail, and then nothing is signed.                 *)
(***************************************************************************)
At(h, step) == calls[h] # Idle /\ calls[h].step = step
Goto(h, step) == calls' = [calls EXCEPT ![h].step = step]
Return(h) == calls' = [calls EXCEPT ![h] = Idle]

Begin(h, kind, role, what) ==
  /\ calls[h] = Idle
  /\ calls' = [calls EXCEPT ![h] =
       [kind |-> kind, role |-> role, what |-> what, step |-> "lookup",
        found |-> NoPolicy, inForce |-> {stored}]]
  /\ UNCHANGED <<policyVars, inflight, walletVars>>

SendTransaction(h, role, body) ==
  body.ecc2 = 0 /\ ~body.all /\ Begin(h, "send", role, body)

(* wallet_forward_call, and fund_buyer after its preflight *)
Forward(h, role, body) ==
  body.value = GAS /\ ~body.all /\ Begin(h, "forward", role, body)

ConfirmTransaction(h, role, id) == Begin(h, "confirm", role, [id |-> id])

Fails(h) ==
  /\ calls[h] # Idle
  /\ Return(h)
  /\ UNCHANGED <<policyVars, inflight, walletVars>>

(* get_wallet_policy and the check of a submit (enforce_wallet_policy) *)
LookUpForSubmit(h) ==
  LET what == calls[h].what
  IN  /\ At(h, "lookup") /\ calls[h].kind \in {"send", "forward"}
      /\ IF \/ Unrestricted(stored)
            \/ Permits(stored, what.dest, SubmitAmount(calls[h].kind, what))
         THEN Goto(h, "sign")
         ELSE Return(h)
      /\ UNCHANGED <<policyVars, inflight, walletVars>>

LookUpForConfirm_FrozenOnly(h) ==
  /\ At(h, "lookup") /\ calls[h].kind = "confirm"
  /\ IF ~Unrestricted(stored) /\ stored.tier = "frozen"
     THEN Return(h)
     ELSE Goto(h, "sign")
  /\ UNCHANGED <<policyVars, inflight, walletVars>>

(* A confirmation under a policy goes on to read what it would release. *)
LookUpForConfirm(h) ==
  /\ At(h, "lookup") /\ calls[h].kind = "confirm"
  /\ \/ /\ Unrestricted(stored)
        /\ Goto(h, "sign")
     \/ /\ ~Unrestricted(stored) /\ stored.tier = "frozen"
        /\ Return(h)
     \/ /\ ~Unrestricted(stored) /\ stored.tier # "frozen"
        /\ calls' = [calls EXCEPT ![h] = [@ EXCEPT !.step = "read", !.found = stored]]
  /\ UNCHANGED <<policyVars, inflight, walletVars>>

(* read_queued_tx_for_policy, and the check of what it found *)
ReadQueued(h) ==
  LET id == calls[h].what.id
  IN  /\ At(h, "read")
      /\ IF /\ id \in DOMAIN queue
            /\ Permits(calls[h].found, queue[id].body.dest,
                       ConfirmAmount(queue[id].body))
         THEN Goto(h, "sign")
         ELSE Return(h)
      /\ UNCHANGED <<policyVars, inflight, walletVars>>

(* The role's key is read and the message handed to the network. *)
Sign(h) ==
  /\ At(h, "sign")
  /\ Cardinality(inflight) < MAX_INFLIGHT
  /\ inflight' = inflight \cup
       {[kind |-> calls[h].kind, role |-> calls[h].role,
         what |-> calls[h].what, inForce |-> calls[h].inForce]}
  /\ Return(h)
  /\ UNCHANGED <<policyVars, walletVars>>

-----------------------------------------------------------------------------
(***************************************************************************)
(* The wallet: SwarmMultisigWallet.submitTransaction, confirmTransaction   *)
(* and the expiry of what is queued.  A request that reaches the quorum    *)
(* leaves the queue.                                                       *)
(***************************************************************************)
Without(id) == [other \in DOMAIN queue \ {id} |-> queue[other]]

Put(id, request) ==
  [other \in DOMAIN queue \cup {id} |-> IF other = id THEN request ELSE queue[other]]

Vote(id, body, voters) ==
  queue' = IF Cardinality(voters) >= REQ
           THEN Without(id)
           ELSE Put(id, [body |-> body, voters |-> voters])

(* A request for the whole balance is queued without an amount. *)
Queued(body) == IF body.all THEN [body EXCEPT !.value = 0] ELSE body

(* A wallet that needs one confirmation pays out at once. *)
Submit(custodian, body) ==
  IF REQ = 1
  THEN UNCHANGED walletVars
  ELSE /\ nextId \in TxId
       /\ Vote(nextId, Queued(body), {custodian})
       /\ nextId' = nextId + 1

Confirm(custodian, id) ==
  /\ id \in DOMAIN queue /\ custodian \notin queue[id].voters
  /\ Vote(id, queue[id].body, queue[id].voters \cup {custodian})
  /\ UNCHANGED nextId

Execute(m) ==
  /\ IF m.kind = "confirm" THEN Confirm(m.role, m.what.id) ELSE Submit(m.role, m.what)
  /\ inflight' = inflight \ {m}
  /\ UNCHANGED <<policyVars, calls>>

(* The wallet refuses the message, or the message outlives its expire time. *)
Lost(m) ==
  /\ inflight' = inflight \ {m}
  /\ UNCHANGED <<policyVars, calls, walletVars>>

StrangerActs ==
  /\ \E s \in Stranger :
       \/ \E body \in Asked : Submit(s, body)
       \/ \E id \in DOMAIN queue : Confirm(s, id)
  /\ UNCHANGED <<policyVars, calls, inflight>>

Lapse(id) ==
  /\ queue' = Without(id)
  /\ UNCHANGED <<policyVars, calls, inflight, nextId>>

-----------------------------------------------------------------------------
Next ==
  \/ \E p \in Change : SetPolicy(p)
  \/ IngestAsked \/ IngestLate \/ PolicySet \/ PolicyNotSet
  \/ \E h \in Handler, role \in Role :
       \/ \E body \in Asked :
            SendTransaction(h, role, body) \/ Forward(h, role, body)
       \/ \E id \in TxId : ConfirmTransaction(h, role, id)
  \/ \E h \in Handler :
       \/ LookUpForSubmit(h) \/ LookUpForConfirm(h) \/ ReadQueued(h)
       \/ Sign(h) \/ Fails(h)
  \/ \E m \in inflight : Execute(m) \/ Lost(m)
  \/ StrangerActs
  \/ \E id \in DOMAIN queue : Lapse(id)

Spec == Init /\ [][Next]_vars

-----------------------------------------------------------------------------
(***************************************************************************)
(* Every variable stays in its type.                                       *)
(***************************************************************************)
Policies == Policy \cup {NoPolicy}
Kind == {"send", "forward", "confirm"}
Task(kind) == IF kind = "confirm" THEN [id : TxId] ELSE Body
What == Body \cup [id : TxId]
Message == [kind : Kind, role : Role, what : What, inForce : SUBSET Policies]
Call == [kind : Kind, role : Role, what : What, step : {"lookup", "read", "sign"},
         found : Policies, inForce : SUBSET Policies]

TypeOK ==
  /\ stored \in Policies
  /\ setter \in {Nobody} \cup [policy : Policy, done : BOOLEAN, alone : BOOLEAN]
  /\ late \subseteq Policy
  /\ told \in Policy \cup {Nobody}
  /\ calls \in [Handler -> Call \cup {Idle}]
  /\ inflight \subseteq Message
  /\ \A h \in Handler : calls[h] # Idle => calls[h].what \in Task(calls[h].kind)
  /\ \A m \in inflight : m.what \in Task(m.kind)
  /\ nextId \in 1..MAX_TX + 1
  /\ DOMAIN queue \subseteq 1..nextId - 1
  /\ \A id \in DOMAIN queue :
       /\ queue[id].body \in Body
       /\ queue[id].voters \in (SUBSET Custodian) \ {{}}
       /\ Cardinality(queue[id].voters) < REQ

(***************************************************************************)
(* What a policy means, said once more without the code's parsing: no      *)
(* spend when frozen, none over a limit that is an amount, none to an      *)
(* account blocked, none outside the accounts allowed if any are named.    *)
(***************************************************************************)
Honours(p, dest, amount) ==
  p = NoPolicy \/ /\ p.tier = "standard"
                  /\ p.max \in Amount => p.max >= amount
                  /\ dest \in Dest \ p.blocked
                  /\ p.allowed = {} \/ dest \in p.allowed

(***************************************************************************)
(* A signed message, whenever it is executed, votes only for a transfer    *)
(* that honours a policy in force at some moment of the call that signed   *)
(* it (send_transaction, confirm_transaction, enforce_wallet_policy).  For *)
(* a confirmation that is the transfer queued under its id now, not the    *)
(* one the call read, and the amount is the one the request names: what a  *)
(* request for the whole balance moves is not in it (ReleasesWithinPolicy). *)
(***************************************************************************)
SignedWithinPolicy ==
  \A m \in inflight :
    IF m.kind = "confirm"
    THEN m.what.id \in DOMAIN queue =>
           LET body == queue[m.what.id].body
           IN  \E p \in m.inForce : Honours(p, body.dest, ConfirmAmount(body))
    ELSE \E p \in m.inForce :
           Honours(p, m.what.dest, SubmitAmount(m.kind, m.what))

(* What executing a request may move: the balance may be any amount. *)
Moves(body) == IF body.all THEN Amount ELSE {ConfirmAmount(body)}

(***************************************************************************)
(* "Releasing the second signature must face the SAME destination + amount *)
(* policy the first custodian's submit would" (tools.rs, confirm): a       *)
(* signed confirmation releases only what honours a policy in force during *)
(* its call, whatever the request it is for moves.                         *)
(***************************************************************************)
ReleasesWithinPolicy ==
  \A m \in inflight :
    m.kind = "confirm" /\ m.what.id \in DOMAIN queue =>
      LET body == queue[m.what.id].body
      IN  \E p \in m.inForce : \A amount \in Moves(body) : Honours(p, body.dest, amount)

(***************************************************************************)
(* A policy set_wallet_policy has reported stored is the one every later   *)
(* lookup finds, until another is asked for: no lost or refused request is *)
(* reported as stored (memory.rs, set_wallet_policy).                      *)
(***************************************************************************)
ReportedPolicyHolds == told # Nobody => stored = told
=============================================================================
