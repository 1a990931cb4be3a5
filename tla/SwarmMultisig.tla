---------------------------- MODULE SwarmMultisig ----------------------------
(***************************************************************************)
(* SwarmMultisigWallet.sol: an N-of-M wallet contract.  Custodians are     *)
(* public keys or contract addresses; each has an index, handed out in the *)
(* order of the owner lists.  A transfer or a change of the owners is      *)
(* submitted by a custodian, collects confirmations in a bit mask and      *)
(* takes effect with the confirmation that completes the quorum.  Requests *)
(* expire; expired ones are swept, a bounded number at a time, by the next *)
(* call that touches their queue.                                          *)
(*                                                                         *)
(* Every public function is one action, executed atomically as the chain   *)
(* executes it.  A call that fails a require() leaves no trace, except     *)
(* that a sweep is committed (tvm.commit) before the later checks: those   *)
(* calls are the disjuncts that change only the queue and its mask.  A     *)
(* call that aborts for lack of balance changes nothing: a stutter.        *)
(***************************************************************************)
EXTENDS RequestQueue, Sequences

CONSTANTS
  Key, Address,             \* owner public keys and owner addresses
  ZeroKey, ZeroAddress,     \* the values _initialize rejects
  NoOwner,                  \* an unset optional owner
  Transfer,                 \* transfers a custodian may ask for
  InitArgs, UpdateArgs,     \* owner lists and thresholds passed by callers
  CleanupLimits,            \* values passed to setMaxCleanupOperations
  MAX_QUEUED_REQUESTS, MAX_CUSTODIAN_COUNT, EXPIRATION_TIME,
  DEFAULT_CLEANUP,          \* _max_cleanup_operations after _initialize
  LT_SPAN,                  \* bound: ids generated within one second
  MAX_TIME                  \* bound: seconds since ZERO_TIME

Caller == (Key \cup Address) \ {ZeroKey, ZeroAddress}
Args == [owners_pubkey : Seq(Key), owners_address : Seq(Address),
         reqConfirms : Nat \ {0}, reqConfirmsData : Nat \ {0}]
CustodianIndex == 0..(MAX_CUSTODIAN_COUNT - 1)

(***************************************************************************)
(* A transfer carries a value and whether flag 128 (send all) is set.      *)
(***************************************************************************)
Outbound(t) == IF t.sendAll THEN [t EXCEPT !.value = 0] ELSE t

ASSUME OwnersAssumption ==
  /\ Key \cap Address = {}
  /\ NoOwner \notin Key \cup Address
ASSUME ArgsAssumption == InitArgs \subseteq Args /\ UpdateArgs \subseteq Args
ASSUME TransferAssumption ==
  \A t \in Transfer : t \in [dest : {t.dest}, value : Nat, sendAll : BOOLEAN]
ASSUME LimitsAssumption ==
  /\ MAX_QUEUED_REQUESTS \in Nat \ {0}
  /\ MAX_CUSTODIAN_COUNT \in Nat \ {0}
  /\ EXPIRATION_TIME \in Nat
  /\ DEFAULT_CLEANUP \in Nat
  /\ CleanupLimits \subseteq Nat
  /\ LT_SPAN \in Nat \ {0}
  /\ MAX_TIME \in Nat /\ EXPIRATION_TIME <= MAX_TIME

-----------------------------------------------------------------------------
(* _initialize: the owner lists, keys first, with duplicates dropped. *)

Listed(args) == args.owners_pubkey \o args.owners_address

ListedBefore(owners, o) ==
  {owners[i] : i \in {j \in DOMAIN owners : \A k \in 1..j : owners[k] # o}}

ValidArgs(args) ==
  /\ Len(Listed(args)) \in 1..MAX_CUSTODIAN_COUNT
  /\ \A i \in DOMAIN Listed(args) :
       Listed(args)[i] \notin {ZeroKey, ZeroAddress}

AtMost(n, bound) == IF bound <= n THEN bound ELSE n
AtLeast(n, bound) == IF n <= bound THEN bound ELSE n

OwnerOf(list) == IF list = << >> THEN NoOwner ELSE list[1]

(* Variants, used to check that the properties can fail, carry a suffix. *)
IndexAmong(owners, o) == Cardinality(ListedBefore(owners, o))

DataThreshold_Loose(reqConfirmsData, count, req) == AtMost(reqConfirmsData, count)

DataThreshold(reqConfirmsData, count, req) ==
  AtLeast(AtMost(reqConfirmsData, count), req)

Initialized(args) ==
  LET owners == Listed(args)
      count  == Cardinality(Range(owners))
      req    == AtMost(args.reqConfirms, count)
  IN  [custodians |-> [o \in Range(owners) |-> IndexAmong(owners, o)],
       count      |-> count,
       req        |-> req,
       reqData    |-> DataThreshold(args.reqConfirmsData, count, req),
       ownerKey     |-> OwnerOf(args.owners_pubkey),
       ownerAddress |-> OwnerOf(args.owners_address)]

EmptyMask == [index \in CustodianIndex |-> 0]

-----------------------------------------------------------------------------
VARIABLES
  m_config,            \* m_custodians, their count, thresholds, owner key/address
  m_transactions,      \* queued transfers
  m_data,              \* queued owner updates
  m_requestsMask,      \* transfers queued per custodian index
  m_requestsMaskData,  \* owner updates queued per custodian index
  maxCleanup,          \* _max_cleanup_operations
  now, lt,             \* block.timestamp - ZERO_TIME; low word of tx.logicaltime
  sent                 \* the transfer the last call emitted, if any

vars == <<m_config, m_transactions, m_data, m_requestsMask,
          m_requestsMaskData, maxCleanup, now, lt, sent>>

NothingSent == [id |-> -1]
Sent(id, body, signers) == [id |-> id, body |-> body, signers |-> signers]

(***************************************************************************)
(* Ids order requests by second, then by logical time.  Within a second    *)
(* the logical time only grows (the low word does not wrap), so lt counts  *)
(* the ids handed out since the clock last moved.                          *)
(***************************************************************************)
GenerateId_BySecond == now * LT_SPAN

GenerateId == now * LT_SPAN + lt
ExpirationBound == (now - EXPIRATION_TIME) * LT_SPAN

NotExpired_Unchecked(id) == TRUE

NotExpired(id) == id > ExpirationBound

IsCustodian(c) == c \in DOMAIN m_config.custodians
IndexOf(c) == m_config.custodians[c]

Custodians(indexes) ==
  {c \in DOMAIN m_config.custodians : m_config.custodians[c] \in indexes}

PurgedTransactions == PurgedIds(m_transactions, ExpirationBound, maxCleanup)
PurgedData == PurgedIds(m_data, ExpirationBound, maxCleanup)

LiveTransactions == Without(m_transactions, PurgedTransactions)
LiveMask == ReleaseMask(m_requestsMask, m_transactions, PurgedTransactions)
LiveData == Without(m_data, PurgedData)
LiveMaskData == ReleaseMask(m_requestsMaskData, m_data, PurgedData)

Init ==
  /\ \E args \in InitArgs : ValidArgs(args) /\ m_config = Initialized(args)
  /\ m_transactions = EmptyQueue
  /\ m_data = EmptyQueue
  /\ m_requestsMask = EmptyMask
  /\ m_requestsMaskData = EmptyMask
  /\ maxCleanup = DEFAULT_CLEANUP
  /\ now = EXPIRATION_TIME
  /\ lt = 0
  /\ sent = NothingSent

-----------------------------------------------------------------------------
(* Transfers *)

SendTransaction(c, t) ==
  /\ m_config.count = 1
  /\ m_config.ownerAddress # NoOwner => c = m_config.ownerAddress
  /\ m_config.ownerKey # NoOwner => c = m_config.ownerKey
  /\ sent' = Sent(0, t, {c})
  /\ UNCHANGED <<m_config, m_transactions, m_data, m_requestsMask,
                 m_requestsMaskData, maxCleanup, now, lt>>

SweepTransactionsOnly ==
  /\ m_transactions' = LiveTransactions
  /\ m_requestsMask' = LiveMask
  /\ sent' = NothingSent

MaskAfterSending_Confirmer(mask, txn, c) == DecMaskValue(mask, IndexOf(c))

MaskAfterSending(mask, txn, c) == DecMaskValue(mask, txn.creator)

ConfirmRequest(queue, mask, id, txn, c) ==
  IF ReachesQuorum(txn)
  THEN /\ sent' = Sent(id, txn.body, Custodians(txn.confirmationsMask) \cup {c})
       /\ m_requestsMask' = MaskAfterSending(mask, txn, c)
       /\ m_transactions' = Without(queue, {id})
  ELSE /\ m_transactions' = WithRequest(queue, id, SetConfirmed(txn, IndexOf(c)))
       /\ m_requestsMask' = mask
       /\ sent' = NothingSent

SubmitTransaction(c, t) ==
  /\ IsCustodian(c)
  /\ \/ /\ LiveMask[IndexOf(c)] >= MAX_QUEUED_REQUESTS
        /\ SweepTransactionsOnly
        /\ UNCHANGED lt
     \/ /\ LiveMask[IndexOf(c)] < MAX_QUEUED_REQUESTS
        /\ m_config.req = 1
        /\ m_transactions' = LiveTransactions
        /\ m_requestsMask' = LiveMask
        /\ sent' = Sent(0, Outbound(t), {c})
        /\ UNCHANGED lt
     \/ /\ LiveMask[IndexOf(c)] < MAX_QUEUED_REQUESTS
        /\ m_config.req # 1
        /\ lt < LT_SPAN
        /\ lt' = lt + 1
        /\ ConfirmRequest(LiveTransactions, IncMaskValue(LiveMask, IndexOf(c)),
                          GenerateId,
                          NewRequest(IndexOf(c), m_config.req, Outbound(t)), c)
  /\ UNCHANGED <<m_config, m_data, m_requestsMaskData, maxCleanup, now>>

ConfirmTransaction(c, id) ==
  /\ IsCustodian(c)
  /\ \/ /\ \/ id \notin DOMAIN LiveTransactions
           \/ /\ id \in DOMAIN LiveTransactions
              /\ IsConfirmed(LiveTransactions[id], IndexOf(c))
        /\ SweepTransactionsOnly
     \/ /\ id \in DOMAIN LiveTransactions
        /\ ~IsConfirmed(LiveTransactions[id], IndexOf(c))
        /\ ~NotExpired(id)
        /\ m_transactions' = Without(LiveTransactions, {id})
        /\ m_requestsMask' = LiveMask
        /\ sent' = NothingSent
     \/ /\ id \in DOMAIN LiveTransactions
        /\ ~IsConfirmed(LiveTransactions[id], IndexOf(c))
        /\ NotExpired(id)
        /\ ConfirmRequest(LiveTransactions, LiveMask, id, LiveTransactions[id], c)
  /\ UNCHANGED <<m_config, m_data, m_requestsMaskData, maxCleanup, now, lt>>

-----------------------------------------------------------------------------
(* Owner updates *)

SweepDataOnly ==
  /\ m_data' = LiveData
  /\ m_requestsMaskData' = LiveMaskData
  /\ UNCHANGED <<m_config, m_transactions, m_requestsMask, maxCleanup>>

Initialize_KeepsTransfers(args) ==
  \/ /\ ValidArgs(args)
     /\ m_config' = Initialized(args)
     /\ m_data' = EmptyQueue
     /\ m_requestsMaskData' = EmptyMask
     /\ maxCleanup' = DEFAULT_CLEANUP
     /\ UNCHANGED <<m_transactions, m_requestsMask>>
  \/ /\ ~ValidArgs(args)
     /\ SweepDataOnly

(***************************************************************************)
(* _initialize replaces the owners and empties both queues.  With invalid  *)
(* owner lists it reverts, which undoes all but the committed sweep.       *)
(***************************************************************************)
Initialize(args) ==
  \/ /\ ValidArgs(args)
     /\ m_config' = Initialized(args)
     /\ m_transactions' = EmptyQueue
     /\ m_data' = EmptyQueue
     /\ m_requestsMask' = EmptyMask
     /\ m_requestsMaskData' = EmptyMask
     /\ maxCleanup' = DEFAULT_CLEANUP
  \/ /\ ~ValidArgs(args)
     /\ SweepDataOnly

ConfirmUpdate(queue, mask, id, du, c) ==
  IF ReachesQuorum(du)
  THEN Initialize(du.body)
  ELSE /\ m_data' = WithRequest(queue, id, SetConfirmed(du, IndexOf(c)))
       /\ m_requestsMaskData' = mask
       /\ UNCHANGED <<m_config, m_transactions, m_requestsMask, maxCleanup>>

SubmitDataUpdate(c, args) ==
  /\ IsCustodian(c)
  /\ \/ /\ LiveMaskData[IndexOf(c)] >= MAX_QUEUED_REQUESTS
        /\ SweepDataOnly
        /\ UNCHANGED lt
     \/ /\ LiveMaskData[IndexOf(c)] < MAX_QUEUED_REQUESTS
        /\ m_config.reqData = 1
        /\ Initialize(args)
        /\ UNCHANGED lt
     \/ /\ LiveMaskData[IndexOf(c)] < MAX_QUEUED_REQUESTS
        /\ m_config.reqData # 1
        /\ lt < LT_SPAN
        /\ lt' = lt + 1
        /\ ConfirmUpdate(LiveData, IncMaskValue(LiveMaskData, IndexOf(c)),
                         GenerateId,
                         NewRequest(IndexOf(c), m_config.reqData, args), c)
  /\ sent' = NothingSent
  /\ UNCHANGED now

ConfirmDataUpdate(c, id) ==
  /\ IsCustodian(c)
  /\ \/ /\ \/ id \notin DOMAIN LiveData
           \/ /\ id \in DOMAIN LiveData
              /\ IsConfirmed(LiveData[id], IndexOf(c))
        /\ SweepDataOnly
     \/ /\ id \in DOMAIN LiveData
        /\ ~IsConfirmed(LiveData[id], IndexOf(c))
        /\ ~NotExpired(id)
        /\ m_data' = Without(LiveData, {id})
        /\ m_requestsMaskData' = LiveMaskData
        /\ UNCHANGED <<m_config, m_transactions, m_requestsMask, maxCleanup>>
     \/ /\ id \in DOMAIN LiveData
        /\ ~IsConfirmed(LiveData[id], IndexOf(c))
        /\ NotExpired(id)
        /\ ConfirmUpdate(LiveData, LiveMaskData, id, LiveData[id], c)
  /\ sent' = NothingSent
  /\ UNCHANGED <<now, lt>>

-----------------------------------------------------------------------------
SetMaxCleanupOperations(c, value) ==
  /\ IsCustodian(c)
  /\ maxCleanup' = value
  /\ sent' = NothingSent
  /\ UNCHANGED <<m_config, m_transactions, m_data, m_requestsMask,
                 m_requestsMaskData, now, lt>>

(***************************************************************************)
(* The chain's clock: block.timestamp advances between blocks.             *)
(***************************************************************************)
Tick ==
  /\ now < MAX_TIME
  /\ now' = now + 1
  /\ lt' = 0
  /\ sent' = NothingSent
  /\ UNCHANGED <<m_config, m_transactions, m_data, m_requestsMask,
                 m_requestsMaskData, maxCleanup>>

Next ==
  \/ \E c \in Caller, t \in Transfer : SendTransaction(c, t)
  \/ \E c \in Caller, t \in Transfer : SubmitTransaction(c, t)
  \/ \E c \in Caller, id \in DOMAIN m_transactions \cup {0} : ConfirmTransaction(c, id)
  \/ \E c \in Caller, args \in UpdateArgs : SubmitDataUpdate(c, args)
  \/ \E c \in Caller, id \in DOMAIN m_data \cup {0} : ConfirmDataUpdate(c, id)
  \/ \E c \in Caller, value \in CleanupLimits : SetMaxCleanupOperations(c, value)
  \/ Tick

Spec == Init /\ [][Next]_vars

-----------------------------------------------------------------------------
(* Properties *)

Request(Body) ==
  [creator : CustodianIndex, confirmationsMask : SUBSET CustodianIndex,
   signsRequired : Nat, signsReceived : Nat, body : Body]

IsQueue(queue, Body) ==
  /\ DOMAIN queue \subseteq Nat
  /\ IsFiniteSet(DOMAIN queue)
  /\ \A id \in DOMAIN queue : queue[id] \in Request(Body)

(***************************************************************************)
(* Type invariant: the contract's storage.                                 *)
(***************************************************************************)
TypeOK ==
  /\ m_config.custodians \in [DOMAIN m_config.custodians -> CustodianIndex]
  /\ DOMAIN m_config.custodians \subseteq Caller
  /\ IsFiniteSet(DOMAIN m_config.custodians)
  /\ m_config.count \in 1..MAX_CUSTODIAN_COUNT
  /\ m_config.req \in Nat /\ m_config.reqData \in Nat
  /\ IsQueue(m_transactions, {Outbound(t) : t \in Transfer})
  /\ IsQueue(m_data, UpdateArgs)
  /\ m_requestsMask \in [CustodianIndex -> Int]
  /\ m_requestsMaskData \in [CustodianIndex -> Int]
  /\ maxCleanup \in Nat
  /\ now \in Nat /\ now >= EXPIRATION_TIME
  /\ lt \in 0..LT_SPAN

(***************************************************************************)
(* _initialize leaves thresholds that the owners can meet, never lets the  *)
(* owners be replaced with fewer signatures than a transfer needs, and     *)
(* gives every owner a bit of its own: two owners sharing a confirmation   *)
(* bit would be one vote.                                                  *)
(***************************************************************************)
ThresholdsSane ==
  /\ 1 <= m_config.req
  /\ m_config.req <= m_config.reqData
  /\ m_config.reqData <= m_config.count
  /\ m_config.count = Cardinality(DOMAIN m_config.custodians)
  /\ IsInjective(m_config.custodians)

VotesConsistent(queue, required) ==
  \A id \in DOMAIN queue :
    LET request == queue[id]
    IN  /\ request.creator \in request.confirmationsMask
        /\ request.confirmationsMask \subseteq Range(m_config.custodians)
        /\ request.signsReceived = Cardinality(request.confirmationsMask)
        /\ request.signsReceived < request.signsRequired
        /\ request.signsRequired = required

(***************************************************************************)
(* Whatever was submitted, swept, expired or replaced in between, a queued *)
(* request carries only confirmations of current custodians, one each, its *)
(* creator's among them, counts them correctly, lacks at least one, and    *)
(* needs the quorum now in force: no vote cast under earlier owners        *)
(* survives into the current set, where its bit would be another's.        *)
(***************************************************************************)
VotesAreCurrent ==
  /\ VotesConsistent(m_transactions, m_config.req)
  /\ VotesConsistent(m_data, m_config.reqData)

MaskCovers(mask, queue) ==
  \A index \in CustodianIndex :
    /\ Cardinality(QueuedBy(queue, index)) <= mask[index]
    /\ mask[index] <= MAX_QUEUED_REQUESTS

(***************************************************************************)
(* Each byte of the request masks is at least the number of requests its   *)
(* custodian has queued and at most MAX_QUEUED_REQUESTS.  So no decrement, *)
(* in a sweep or on execution, ever borrows from the next custodian's      *)
(* byte, no increment carries into it, and no custodian holds more than    *)
(* MAX_QUEUED_REQUESTS requests.                                           *)
(***************************************************************************)
MasksNeverBorrow ==
  /\ MaskCovers(m_requestsMask, m_transactions)
  /\ MaskCovers(m_requestsMaskData, m_data)

(***************************************************************************)
(* A transfer leaves the wallet only with the signatures of at least       *)
(* m_defaultRequiredConfirmations distinct custodians; sendTransaction's   *)
(* shortcut past the queue is no exception.                                *)
(***************************************************************************)
SentWithQuorum ==
  sent # NothingSent =>
    /\ sent.signers \subseteq DOMAIN m_config.custodians
    /\ Cardinality(sent.signers) >= m_config.req

(***************************************************************************)
(* Every id in a queue is older than the next id: an id that has left a    *)
(* queue is never handed out again, so nothing is executed twice.          *)
(***************************************************************************)
IdsNeverReused ==
  \A id \in DOMAIN m_transactions \cup DOMAIN m_data : id < GenerateId

(***************************************************************************)
(* The masks count the queued requests, as the comment at _getMaskValue    *)
(* says.                                                                   *)
(***************************************************************************)
MasksCountQueued ==
  \A index \in CustodianIndex :
    /\ m_requestsMask[index] = Cardinality(QueuedBy(m_transactions, index))
    /\ m_requestsMaskData[index] = Cardinality(QueuedBy(m_data, index))

(***************************************************************************)
(* A transfer request past its hour is never sent, even when a bounded     *)
(* sweep has left it in the queue; what is sent is what was queued.        *)
(***************************************************************************)
OnlyLiveTransfersLeave ==
  [][sent'.id > 0 =>
       /\ sent'.id > ExpirationBound
       /\ sent'.id \in DOMAIN m_transactions
       /\ sent'.body = m_transactions[sent'.id].body]_vars

(***************************************************************************)
(* When replacing the owners takes a quorum, they are only ever replaced   *)
(* by the lists of a queued update that has not expired.                   *)
(***************************************************************************)
OnlyLiveUpdatesApply ==
  [][(m_config' # m_config /\ m_config.reqData > 1) =>
       \E id \in DOMAIN m_data :
         /\ id > ExpirationBound
         /\ m_config' = Initialized(m_data[id].body)]_vars

(***************************************************************************)
(* A live transfer request is never lost: it leaves the queue by being     *)
(* sent, or because the owners were replaced.                              *)
(***************************************************************************)
LiveRequestsAreKept ==
  [][\A id \in DOMAIN m_transactions \ DOMAIN m_transactions' :
       \/ id <= ExpirationBound
       \/ sent'.id = id
       \/ /\ m_transactions' = EmptyQueue
          /\ m_data' = EmptyQueue
          /\ m_config.reqData = 1 \/ m_data # EmptyQueue]_vars
=============================================================================
