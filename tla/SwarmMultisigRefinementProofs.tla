-------------------- MODULE SwarmMultisigRefinementProofs --------------------
(***************************************************************************)
(* The wallet contract implements QuorumWallet, for any owners, limits and *)
(* clock: every call is a vote, a direct transfer of a sole owner, or lets *)
(* requests lapse.                                                         *)
(***************************************************************************)
EXTENDS SwarmMultisigRefinement, SwarmMultisigProofs

(***************************************************************************)
(* The abstract wallet counts voters as the contract does.                 *)
(***************************************************************************)
LEMMA SameCount == \A S : Quorum!Cardinality(S) = Cardinality(S)
  BY DEF Cardinality, Quorum!Cardinality

(***************************************************************************)
(* Adding a custodian's bit to a mask adds that custodian to its voters.   *)
(***************************************************************************)
LEMMA VotersGrow ==
  ASSUME ConfigInv(m_config), NEW c, IsCustodian(c), NEW mask
  PROVE  /\ Custodians(mask \cup {IndexOf(c)}) = Custodians(mask) \cup {c}
         /\ IndexOf(c) \notin mask => c \notin Custodians(mask)
  BY DEF Custodians, IsCustodian, IndexOf, ConfigInv, IsInjective

(***************************************************************************)
(* The abstract requests, id by id.                                        *)
(***************************************************************************)
LEMMA AbstractRequests ==
  /\ DOMAIN AbstractTransfers = DOMAIN m_transactions
  /\ \A id \in DOMAIN m_transactions :
       AbstractTransfers[id] =
         [body |-> m_transactions[id].body,
          voters |-> Custodians(m_transactions[id].confirmationsMask)]
  /\ DOMAIN AbstractUpdates = DOMAIN m_data
  /\ \A id \in DOMAIN m_data :
       AbstractUpdates[id] =
         [body |-> TermsFor(m_data[id].body),
          voters |-> Custodians(m_data[id].confirmationsMask)]
  BY DEF AbstractTransfers, AbstractUpdates

(***************************************************************************)
(* The same after a step that leaves the owners.                           *)
(***************************************************************************)
LEMMA AbstractRequestsAfter ==
  ASSUME UNCHANGED m_config
  PROVE  /\ DOMAIN AbstractTransfers' = DOMAIN m_transactions'
         /\ \A id \in DOMAIN m_transactions' :
              AbstractTransfers'[id] =
                [body |-> m_transactions'[id].body,
                 voters |-> Custodians(m_transactions'[id].confirmationsMask)]
         /\ DOMAIN AbstractUpdates' = DOMAIN m_data'
         /\ \A id \in DOMAIN m_data' :
              AbstractUpdates'[id] =
                [body |-> TermsFor(m_data'[id].body),
                 voters |-> Custodians(m_data'[id].confirmationsMask)]
         /\ UNCHANGED TermsOf(m_config)
  BY DEF AbstractTransfers, AbstractUpdates, Custodians, TermsFor, TermsOf

(***************************************************************************)
(* Requests that a step drops from a queue lapse; id may be voted on.      *)
(***************************************************************************)
LapsesBut(queue, id) ==
  \A other \in DOMAIN queue' \ {id} :
    other \in DOMAIN queue /\ queue'[other] = queue[other]

(***************************************************************************)
(* Requests dropped from a queue lapse in the abstract wallet.             *)
(***************************************************************************)
LEMMA QueuesLapse ==
  ASSUME UNCHANGED m_config, NEW id
  PROVE  /\ LapsesBut(m_transactions, id) =>
              Quorum!OthersMayLapse(AbstractTransfers, id)
         /\ LapsesBut(m_data, id) =>
              Quorum!OthersMayLapse(AbstractUpdates, id)
  BY AbstractRequests, AbstractRequestsAfter
  DEF LapsesBut, Quorum!OthersMayLapse

(***************************************************************************)
(* A step that only drops requests is a lapse.                             *)
(***************************************************************************)
LEMMA OnlyLapses ==
  ASSUME UNCHANGED m_config, sent' = NothingSent,
         LapsesBut(m_transactions, -1), LapsesBut(m_data, -1)
  PROVE  Quorum!Lapse
  BY QueuesLapse, AbstractRequestsAfter DEF Quorum!Lapse, Quorum!Nothing, NothingSent

-----------------------------------------------------------------------------
(* Transfers *)

(***************************************************************************)
(* ConfirmRequest votes for the request it is given, whether it was queued *)
(* before or is new.                                                       *)
(***************************************************************************)
LEMMA ConfirmRequestVotes ==
  ASSUME IInv, NEW c, IsCustodian(c), NEW id, NEW mask,
         NEW request \in Request(TransferBody),
         ~IsConfirmed(request, IndexOf(c)),
         request.confirmationsMask \subseteq Range(m_config.custodians),
         request.signsReceived = Cardinality(request.confirmationsMask),
         request.signsRequired = m_config.req,
         IF id \in DOMAIN m_transactions
         THEN request = m_transactions[id]
         ELSE request.confirmationsMask = {},
         ConfirmRequest(LiveTransactions, mask, id, request, c),
         UNCHANGED <<m_config, m_data>>
  PROVE  Quorum!VoteTransfer(c, id, request.body)
  <1> DEFINE old == Custodians(request.confirmationsMask)
             voters == old \cup {c}
  <1>1. Quorum!Votes(AbstractTransfers, id) = old
    BY AbstractRequests DEF Quorum!Votes, Custodians
  <1>2. /\ c \in DOMAIN m_config.custodians /\ c \notin old
        /\ Custodians(request.confirmationsMask \cup {IndexOf(c)}) = voters
    BY VotersGrow DEF IInv, IsCustodian, IsConfirmed
  <1>3. /\ Cardinality(voters) = request.signsReceived + 1
        /\ request.signsReceived \in Nat
    <2>1. /\ IsFiniteSet(old)
          /\ Cardinality(old) = Cardinality(request.confirmationsMask)
      BY VotersCount DEF IInv
    <2>2. Cardinality(voters) = Cardinality(old) + 1
      BY <1>2, <2>1, FS_AddElement
    <2> QED BY <2>1, <2>2 DEF Request
  <1>4. id \in DOMAIN AbstractTransfers => AbstractTransfers[id].body = request.body
    BY AbstractRequests
  <1>5. UNCHANGED <<TermsOf(m_config), AbstractUpdates>>
    BY AbstractRequestsAfter DEF AbstractUpdates, Custodians, TermsFor, TermsOf
  <1>6. /\ TermsOf(m_config).owners = DOMAIN m_config.custodians
        /\ TermsOf(m_config).quorum = m_config.req
    BY DEF TermsOf
  <1>7. CASE ReachesQuorum(request)
    <2>1. /\ sent' = Sent(id, request.body, voters)
          /\ m_transactions' = Without(LiveTransactions, {id})
      BY <1>7 DEF ConfirmRequest
    <2>2. id \notin DOMAIN m_transactions' /\ LapsesBut(m_transactions, id)
      BY <2>1, SweepTakesExpired DEF LapsesBut, Without, Restrict
    <2>3. /\ id \notin DOMAIN AbstractTransfers'
          /\ Quorum!OthersMayLapse(AbstractTransfers, id)
      BY <2>2, AbstractRequestsAfter, QueuesLapse
    <2>4. Cardinality(voters) >= m_config.req
      BY <1>3, <1>7 DEF ReachesQuorum
    <2> HIDE DEF old, voters
    <2> QED BY <1>1, <1>2, <1>4, <1>5, <1>6, <2>1, <2>3, <2>4, SameCount
            DEF Quorum!VoteTransfer, Sent, voters
  <1>8. CASE ~ReachesQuorum(request)
    <2>1. /\ sent' = NothingSent
          /\ m_transactions' =
               WithRequest(LiveTransactions, id, SetConfirmed(request, IndexOf(c)))
      BY <1>8 DEF ConfirmRequest
    <2>2. LapsesBut(m_transactions, id)
      BY <2>1, SweepTakesExpired DEF LapsesBut, WithRequest
    <2>3. /\ SetConfirmed(request, IndexOf(c)).body = request.body
          /\ SetConfirmed(request, IndexOf(c)).confirmationsMask
               = request.confirmationsMask \cup {IndexOf(c)}
      BY DEF SetConfirmed, Request
    <2>4. /\ id \in DOMAIN m_transactions'
          /\ m_transactions'[id] = SetConfirmed(request, IndexOf(c))
      BY <2>1 DEF WithRequest
    <2>5. /\ id \in DOMAIN AbstractTransfers'
          /\ AbstractTransfers'[id] = [body |-> request.body, voters |-> voters]
      <3>1. /\ m_transactions'[id].body = request.body
            /\ Custodians(m_transactions'[id].confirmationsMask) = voters
        BY <1>2, <2>3, <2>4
      <3> HIDE DEF voters
      <3> QED BY <2>4, <3>1, AbstractRequestsAfter
    <2>7. Quorum!OthersMayLapse(AbstractTransfers, id)
      BY <2>2, QueuesLapse
    <2>6. Cardinality(voters) < m_config.req
      BY <1>3, <1>8 DEF ReachesQuorum, IInv, ConfigInv
    <2> HIDE DEF old, voters
    <2> QED BY <1>1, <1>2, <1>4, <1>5, <1>6, <2>1, <2>5, <2>6, <2>7, SameCount
            DEF Quorum!VoteTransfer, Quorum!Nothing, NothingSent, voters
  <1> QED BY <1>7, <1>8

(***************************************************************************)
(* The ids of the abstract wallet cover those the contract generates.      *)
(***************************************************************************)
LEMMA IdsAreCovered ==
  ASSUME IInv
  PROVE  /\ GenerateId \in 0..((MAX_TIME + 1) * LT_SPAN)
         /\ DOMAIN m_transactions \subseteq 0..((MAX_TIME + 1) * LT_SPAN)
         /\ DOMAIN m_data \subseteq 0..((MAX_TIME + 1) * LT_SPAN)
         /\ GenerateId \notin DOMAIN m_transactions
         /\ GenerateId \notin DOMAIN m_data
         /\ 0 \in 0..((MAX_TIME + 1) * LT_SPAN)
  <1> DEFINE top == (MAX_TIME + 1) * LT_SPAN
  <1>1. /\ now \in Nat /\ now <= MAX_TIME /\ MAX_TIME \in Nat
        /\ LT_SPAN \in Nat /\ lt \in Nat /\ lt <= LT_SPAN
    BY LimitsAssumption DEF IInv, ClockInv
  <1>2. top \in Nat /\ GenerateId \in Nat /\ GenerateId <= top
    <2>1. now * LT_SPAN + (MAX_TIME - now) * LT_SPAN = MAX_TIME * LT_SPAN
      BY <1>1
    <2>2. (MAX_TIME - now) * LT_SPAN \in Nat /\ now * LT_SPAN \in Nat
      BY <1>1
    <2>3. top = MAX_TIME * LT_SPAN + LT_SPAN
      BY <1>1
    <2> QED BY <1>1, <2>1, <2>2, <2>3 DEF GenerateId
  <1>3. /\ DOMAIN m_transactions \subseteq Nat /\ DOMAIN m_data \subseteq Nat
        /\ \A id \in DOMAIN m_transactions \cup DOMAIN m_data : id < GenerateId
    BY DEF IInv, TransactionsInv, DataInv, QueueInv, IsQueue
  <1> HIDE DEF top
  <1>4. \A id \in DOMAIN m_transactions \cup DOMAIN m_data : id \in 0..top
    BY <1>2, <1>3
  <1>5. GenerateId \notin DOMAIN m_transactions \cup DOMAIN m_data
    BY <1>2, <1>3
  <1>6. GenerateId \in 0..top /\ 0 \in 0..top
    BY <1>2
  <1> QED BY <1>4, <1>5, <1>6 DEF top

(***************************************************************************)
(* Whatever is asked of or done to a queue keeps bodies the abstract       *)
(* wallet knows.                                                           *)
(***************************************************************************)
Bodies == Transfer \cup {Outbound(t) : t \in Transfer}
Ids == 0..((MAX_TIME + 1) * LT_SPAN)

(***************************************************************************)
(* sendTransaction: with one owner, the caller is it.                      *)
(***************************************************************************)
LEMMA SendTransactionMaps ==
  ASSUME IInv, NEW c \in Caller, NEW t \in Transfer, SendTransaction(c, t)
  PROVE  Quorum!SoleOwnerSends(c, t)
  <1>1. c \in DOMAIN m_config.custodians
    BY DEF SendTransaction, IInv, ConfigInv
  <1>2. DOMAIN m_config.custodians = {c}
    <2>1. /\ IsFiniteSet(DOMAIN m_config.custodians)
          /\ Cardinality(DOMAIN m_config.custodians) = 1
      BY DEF SendTransaction, IInv, ConfigInv
    <2> QED BY <1>1, <2>1, FS_Singleton
  <1>3. UNCHANGED <<TermsOf(m_config), AbstractTransfers, AbstractUpdates>>
    BY DEF SendTransaction, AbstractTransfers, AbstractUpdates, Custodians, TermsFor,
           TermsOf
  <1> QED BY <1>2, <1>3 DEF Quorum!SoleOwnerSends, SendTransaction, Sent, TermsOf

(***************************************************************************)
(* With a quorum of one nothing is ever queued.                            *)
(***************************************************************************)
LEMMA NoQueueUnderQuorumOfOne ==
  ASSUME IInv
  PROVE  /\ m_config.req = 1 => DOMAIN m_transactions = {}
         /\ m_config.reqData = 1 => DOMAIN m_data = {}
  <1>1. ASSUME NEW queue, NEW Body, IsQueue(queue, Body), NEW indexes,
               VotesInv(queue, 1, indexes), NEW id \in DOMAIN queue
        PROVE  FALSE
    <2>1. /\ queue[id].confirmationsMask \in SUBSET CustodianIndex
          /\ queue[id].creator \in queue[id].confirmationsMask
          /\ Cardinality(queue[id].confirmationsMask) < 1
      BY <1>1 DEF IsQueue, Request, VotesInv
    <2>2. /\ IsFiniteSet(queue[id].confirmationsMask)
          /\ Cardinality(queue[id].confirmationsMask) = 0
      BY <2>1, IndexSetsAreFinite
    <2> QED BY <2>1, <2>2, FS_EmptySet
  <1> QED BY <1>1 DEF IInv, TransactionsInv, DataInv, QueueInv

(***************************************************************************)
(* submitTransaction: a refusal only sweeps, a quorum of one sends at      *)
(* once, and otherwise a new request gets its first vote.                  *)
(***************************************************************************)
LEMMA SubmitTransactionMaps ==
  ASSUME IInv, NEW c \in Caller, NEW t \in Transfer, SubmitTransaction(c, t)
  PROVE  Quorum!Lapse \/ \E id \in Ids : Quorum!VoteTransfer(c, id, Outbound(t))
  <1>1. UNCHANGED <<m_config, m_data>> /\ IsCustodian(c)
    BY DEF SubmitTransaction
  <1>2. CASE SweepTransactionsOnly
    <2>1. LapsesBut(m_transactions, -1) /\ LapsesBut(m_data, -1)
      BY <1>1, <1>2, SweepTakesExpired DEF SweepTransactionsOnly, LapsesBut
    <2> QED BY <1>1, <1>2, <2>1, OnlyLapses DEF SweepTransactionsOnly
  <1>3. CASE /\ m_config.req = 1
             /\ m_transactions' = LiveTransactions
             /\ sent' = Sent(0, Outbound(t), {c})
    <2>1. DOMAIN m_transactions = {} /\ DOMAIN m_transactions' = {}
      BY <1>3, NoQueueUnderQuorumOfOne, SweepTakesExpired
    <2>2. /\ DOMAIN AbstractTransfers = {} /\ DOMAIN AbstractTransfers' = {}
          /\ UNCHANGED <<TermsOf(m_config), AbstractUpdates>>
      BY <1>1, <2>1, AbstractRequests, AbstractRequestsAfter
         DEF AbstractUpdates, Custodians, TermsFor, TermsOf
    <2>3. /\ Quorum!Votes(AbstractTransfers, 0) = {}
          /\ Quorum!OthersMayLapse(AbstractTransfers, 0)
      BY <2>2 DEF Quorum!Votes, Quorum!OthersMayLapse
    <2>4. Cardinality({c}) = 1
      BY FS_Singleton
    <2>5. /\ TermsOf(m_config).owners = DOMAIN m_config.custodians
          /\ TermsOf(m_config).quorum = 1
      BY <1>3 DEF TermsOf
    <2>6. Quorum!Cardinality({c}) >= TermsOf(m_config).quorum
      BY <2>4, <2>5, SameCount
    <2>7. sent' = [id |-> 0, body |-> Outbound(t), signers |-> {c}]
      BY <1>3 DEF Sent
    <2>8. c \in TermsOf(m_config).owners
      BY <1>1, <2>5 DEF IsCustodian
    <2>9. Quorum!VoteTransfer(c, 0, Outbound(t))
      BY <2>2, <2>3, <2>6, <2>7, <2>8 DEF Quorum!VoteTransfer
    <2> QED BY <2>9, IdsAreCovered DEF Ids
  <1>4. CASE /\ m_config.req # 1
             /\ ConfirmRequest(LiveTransactions, IncMaskValue(LiveMask, IndexOf(c)),
                               GenerateId,
                               NewRequest(IndexOf(c), m_config.req, Outbound(t)), c)
    <2> DEFINE request == NewRequest(IndexOf(c), m_config.req, Outbound(t))
    <2>1. request \in Request(TransferBody)
      BY <1>1 DEF NewRequest, Request, TransferBody, IInv, ConfigInv, IsCustodian, IndexOf
    <2>2. /\ request.confirmationsMask = {} /\ request.signsReceived = 0
          /\ request.signsRequired = m_config.req /\ request.body = Outbound(t)
      BY DEF NewRequest
    <2>3. /\ ~IsConfirmed(request, IndexOf(c))
          /\ request.confirmationsMask \subseteq Range(m_config.custodians)
          /\ request.signsReceived = Cardinality(request.confirmationsMask)
      BY <2>2, FS_EmptySet DEF IsConfirmed
    <2>4. PICK id \in Ids : id = GenerateId
      BY IdsAreCovered DEF Ids
    <2>5. /\ id \notin DOMAIN m_transactions
          /\ ConfirmRequest(LiveTransactions, IncMaskValue(LiveMask, IndexOf(c)),
                            id, request, c)
      BY <1>4, <2>4, IdsAreCovered
    <2> HIDE DEF request
    <2>6. Quorum!VoteTransfer(c, id, request.body)
      BY <1>1, <2>1, <2>2, <2>3, <2>5, ConfirmRequestVotes
    <2> QED BY <2>2, <2>6
  <1> QED BY <1>2, <1>3, <1>4 DEF SubmitTransaction

(***************************************************************************)
(* confirmTransaction: a refusal and the removal of an expired request     *)
(* are lapses, anything else is a vote.                                    *)
(***************************************************************************)
LEMMA ConfirmTransactionMaps ==
  ASSUME IInv, NEW c \in Caller, NEW id, ConfirmTransaction(c, id)
  PROVE  \/ Quorum!Lapse
         \/ /\ id \in DOMAIN m_transactions
            /\ Quorum!VoteTransfer(c, id, m_transactions[id].body)
  <1>1. UNCHANGED <<m_config, m_data>> /\ IsCustodian(c)
    BY DEF ConfirmTransaction
  <1>2. CASE /\ sent' = NothingSent
             /\ \/ m_transactions' = LiveTransactions
                \/ m_transactions' = Without(LiveTransactions, {id})
    <2>1. LapsesBut(m_transactions, -1) /\ LapsesBut(m_data, -1)
      BY <1>1, <1>2, SweepTakesExpired DEF LapsesBut, Without, Restrict
    <2> QED BY <1>1, <1>2, <2>1, OnlyLapses
  <1>3. CASE /\ id \in DOMAIN LiveTransactions
             /\ ~IsConfirmed(LiveTransactions[id], IndexOf(c))
             /\ ConfirmRequest(LiveTransactions, LiveMask, id, LiveTransactions[id], c)
    <2> DEFINE request == m_transactions[id]
    <2>1. id \in DOMAIN m_transactions /\ LiveTransactions[id] = request
      BY <1>3, SweepTakesExpired
    <2>2. /\ request \in Request(TransferBody)
          /\ request.confirmationsMask \subseteq Range(m_config.custodians)
          /\ request.signsReceived = Cardinality(request.confirmationsMask)
          /\ request.signsRequired = m_config.req
      BY <2>1 DEF IInv, TransactionsInv, QueueInv, IsQueue, VotesInv
    <2> HIDE DEF request
    <2>3. Quorum!VoteTransfer(c, id, request.body)
      BY <1>1, <1>3, <2>1, <2>2, ConfirmRequestVotes DEF request
    <2> QED BY <2>1, <2>3 DEF request
  <1> QED BY <1>2, <1>3 DEF ConfirmTransaction, SweepTransactionsOnly

-----------------------------------------------------------------------------
(* Owner updates *)

(***************************************************************************)
(* Requests that a sweep or a refusal drops from the updates lapse.        *)
(***************************************************************************)
LEMMA SweepDataLapses ==
  ASSUME SweepDataOnly, sent' = NothingSent
  PROVE  Quorum!Lapse
  <1>1. UNCHANGED m_config
    BY DEF SweepDataOnly
  <1>2. LapsesBut(m_transactions, -1) /\ LapsesBut(m_data, -1)
    BY SweepTakesExpired DEF SweepDataOnly, LapsesBut
  <1> QED BY <1>1, <1>2, OnlyLapses

(***************************************************************************)
(* Once _initialize has the votes it needs it is the vote that puts new    *)
(* terms in force, or reverts and leaves only the sweep.                   *)
(***************************************************************************)
LEMMA InitializeMaps ==
  ASSUME NEW c, NEW id, NEW args \in UpdateArgs, Initialize(args),
         sent' = NothingSent,
         c \in TermsOf(m_config).owners \ Quorum!Votes(AbstractUpdates, id),
         id \in DOMAIN AbstractUpdates => AbstractUpdates[id].body = TermsFor(args),
         Cardinality(Quorum!Votes(AbstractUpdates, id) \cup {c})
           >= TermsOf(m_config).quorumData
  PROVE  Quorum!Lapse \/ Quorum!VoteUpdate(c, id, TermsFor(args))
  <1>1. CASE ~ValidArgs(args)
    BY <1>1, SweepDataLapses DEF Initialize
  <1>2. CASE ValidArgs(args)
    <2>1. /\ m_config' = Initialized(args)
          /\ m_transactions' = EmptyQueue /\ m_data' = EmptyQueue
      BY <1>2 DEF Initialize
    <2>2. TermsOf(m_config)' = TermsFor(args)
      BY <1>2, <2>1 DEF TermsOf, TermsFor
    <2>3. TermsFor(args) # NoOwner
      BY <1>2, TermsAssumption DEF TermsFor
    <2>4. AbstractTransfers' = Quorum!Empty /\ AbstractUpdates' = Quorum!Empty
      BY <2>1 DEF AbstractTransfers, AbstractUpdates, EmptyQueue, Quorum!Empty
    <2> QED BY <2>2, <2>3, <2>4, SameCount
            DEF Quorum!VoteUpdate, Quorum!Nothing, NothingSent
  <1> QED BY <1>1, <1>2

(***************************************************************************)
(* ConfirmUpdate votes for the owner lists it is given, whether they were  *)
(* queued before or are new; if the contract must refuse them, the last    *)
(* vote has no effect.                                                     *)
(***************************************************************************)
LEMMA ConfirmUpdateVotes ==
  ASSUME IInv, NEW c, IsCustodian(c), NEW id, NEW mask,
         NEW request \in Request(UpdateArgs),
         ~IsConfirmed(request, IndexOf(c)),
         request.confirmationsMask \subseteq Range(m_config.custodians),
         request.signsReceived = Cardinality(request.confirmationsMask),
         request.signsRequired = m_config.reqData,
         IF id \in DOMAIN m_data
         THEN request = m_data[id]
         ELSE request.confirmationsMask = {},
         ConfirmUpdate(LiveData, mask, id, request, c),
         sent' = NothingSent
  PROVE  Quorum!Lapse \/ Quorum!VoteUpdate(c, id, TermsFor(request.body))
  <1> DEFINE old == Custodians(request.confirmationsMask)
             voters == old \cup {c}
  <1>1. Quorum!Votes(AbstractUpdates, id) = old
    BY AbstractRequests DEF Quorum!Votes, Custodians
  <1>2. /\ c \in DOMAIN m_config.custodians /\ c \notin old
        /\ Custodians(request.confirmationsMask \cup {IndexOf(c)}) = voters
    BY VotersGrow DEF IInv, IsCustodian, IsConfirmed
  <1>3. /\ Cardinality(voters) = request.signsReceived + 1
        /\ request.signsReceived \in Nat
    <2>1. /\ IsFiniteSet(old)
          /\ Cardinality(old) = Cardinality(request.confirmationsMask)
      BY VotersCount DEF IInv
    <2>2. Cardinality(voters) = Cardinality(old) + 1
      BY <1>2, <2>1, FS_AddElement
    <2> QED BY <2>1, <2>2 DEF Request
  <1>4. id \in DOMAIN AbstractUpdates =>
          AbstractUpdates[id].body = TermsFor(request.body)
    BY AbstractRequests
  <1>5. /\ TermsOf(m_config).owners = DOMAIN m_config.custodians
        /\ TermsOf(m_config).quorumData = m_config.reqData
    BY DEF TermsOf
  <1>6. CASE ReachesQuorum(request)
    <2>1. Initialize(request.body) /\ request.body \in UpdateArgs
      BY <1>6 DEF ConfirmUpdate, Request
    <2>2. Cardinality(voters) >= m_config.reqData
      BY <1>3, <1>6 DEF ReachesQuorum
    <2> HIDE DEF old
    <2> QED BY <1>1, <1>2, <1>4, <1>5, <2>1, <2>2, InitializeMaps
  <1>7. CASE ~ReachesQuorum(request)
    <2>1. /\ m_data' = WithRequest(LiveData, id, SetConfirmed(request, IndexOf(c)))
          /\ UNCHANGED <<m_config, m_transactions>>
      BY <1>7 DEF ConfirmUpdate
    <2>2. LapsesBut(m_data, id)
      BY <2>1, SweepTakesExpired DEF LapsesBut, WithRequest
    <2>3. /\ SetConfirmed(request, IndexOf(c)).body = request.body
          /\ SetConfirmed(request, IndexOf(c)).confirmationsMask
               = request.confirmationsMask \cup {IndexOf(c)}
      BY DEF SetConfirmed, Request
    <2>4. /\ id \in DOMAIN m_data'
          /\ m_data'[id] = SetConfirmed(request, IndexOf(c))
      BY <2>1 DEF WithRequest
    <2>5. /\ id \in DOMAIN AbstractUpdates'
          /\ AbstractUpdates'[id] =
               [body |-> TermsFor(request.body), voters |-> voters]
      <3>1. /\ m_data'[id].body = request.body
            /\ Custodians(m_data'[id].confirmationsMask) = voters
        BY <1>2, <2>3, <2>4
      <3> HIDE DEF voters
      <3> QED BY <2>1, <2>4, <3>1, AbstractRequestsAfter
    <2>6. Quorum!OthersMayLapse(AbstractUpdates, id)
      BY <2>1, <2>2, QueuesLapse
    <2>7. UNCHANGED <<TermsOf(m_config), AbstractTransfers>>
      BY <2>1 DEF AbstractTransfers, Custodians, TermsOf
    <2>8. Cardinality(voters) < m_config.reqData
      BY <1>3, <1>7 DEF ReachesQuorum, IInv, ConfigInv
    <2> HIDE DEF old, voters
    <2> QED BY <1>1, <1>2, <1>4, <1>5, <2>5, <2>6, <2>7, <2>8, SameCount
            DEF Quorum!VoteUpdate, Quorum!Nothing, NothingSent, voters
  <1> QED BY <1>6, <1>7

(***************************************************************************)
(* submitDataUpdate: a refusal sweeps, one signature replaces the owners,  *)
(* otherwise a new request gets its first vote.                            *)
(***************************************************************************)
LEMMA SubmitDataUpdateMaps ==
  ASSUME IInv, NEW c \in Caller, NEW args \in UpdateArgs, SubmitDataUpdate(c, args)
  PROVE  Quorum!Lapse \/ \E id \in Ids : Quorum!VoteUpdate(c, id, TermsFor(args))
  <1>1. sent' = NothingSent /\ IsCustodian(c)
    BY DEF SubmitDataUpdate
  <1>2. CASE SweepDataOnly
    BY <1>1, <1>2, SweepDataLapses
  <1>3. CASE m_config.reqData = 1 /\ Initialize(args)
    <2>1. DOMAIN AbstractUpdates = {}
      BY <1>3, NoQueueUnderQuorumOfOne, AbstractRequests
    <2>2. Quorum!Votes(AbstractUpdates, 0) = {}
      BY <2>1 DEF Quorum!Votes
    <2>3. Cardinality({c}) = 1
      BY FS_Singleton
    <2>4. c \in TermsOf(m_config).owners /\ TermsOf(m_config).quorumData = 1
      BY <1>1, <1>3 DEF TermsOf, IsCustodian
    <2>5. /\ c \in TermsOf(m_config).owners \ Quorum!Votes(AbstractUpdates, 0)
          /\ Quorum!Votes(AbstractUpdates, 0) \cup {c} = {c}
      BY <2>2, <2>4
    <2>6. Cardinality(Quorum!Votes(AbstractUpdates, 0) \cup {c})
            >= TermsOf(m_config).quorumData
      BY <2>3, <2>4, <2>5
    <2>7. 0 \notin DOMAIN AbstractUpdates
      BY <2>1
    <2>8. Initialize(args) /\ sent' = NothingSent
      BY <1>1, <1>3
    <2>9. Quorum!Lapse \/ Quorum!VoteUpdate(c, 0, TermsFor(args))
      BY <2>5, <2>6, <2>7, <2>8, InitializeMaps
    <2> QED BY <2>9, IdsAreCovered DEF Ids
  <1>4. CASE /\ m_config.reqData # 1
             /\ ConfirmUpdate(LiveData, IncMaskValue(LiveMaskData, IndexOf(c)),
                              GenerateId,
                              NewRequest(IndexOf(c), m_config.reqData, args), c)
    <2> DEFINE request == NewRequest(IndexOf(c), m_config.reqData, args)
    <2>1. request \in Request(UpdateArgs)
      BY <1>1 DEF NewRequest, Request, IInv, ConfigInv, IsCustodian, IndexOf
    <2>2. /\ request.confirmationsMask = {} /\ request.signsReceived = 0
          /\ request.signsRequired = m_config.reqData /\ request.body = args
      BY DEF NewRequest
    <2>3. /\ ~IsConfirmed(request, IndexOf(c))
          /\ request.confirmationsMask \subseteq Range(m_config.custodians)
          /\ request.signsReceived = Cardinality(request.confirmationsMask)
      BY <2>2, FS_EmptySet DEF IsConfirmed
    <2>4. PICK id \in Ids : id = GenerateId
      BY IdsAreCovered DEF Ids
    <2>5. /\ id \notin DOMAIN m_data
          /\ ConfirmUpdate(LiveData, IncMaskValue(LiveMaskData, IndexOf(c)),
                           id, request, c)
      BY <1>4, <2>4, IdsAreCovered
    <2> HIDE DEF request
    <2>6. Quorum!Lapse \/ Quorum!VoteUpdate(c, id, TermsFor(request.body))
      BY <1>1, <2>1, <2>2, <2>3, <2>5, ConfirmUpdateVotes
    <2> QED BY <2>2, <2>6
  <1> QED BY <1>2, <1>3, <1>4 DEF SubmitDataUpdate

(***************************************************************************)
(* confirmDataUpdate: as for transfers.                                    *)
(***************************************************************************)
LEMMA ConfirmDataUpdateMaps ==
  ASSUME IInv, NEW c \in Caller, NEW id, ConfirmDataUpdate(c, id)
  PROVE  \/ Quorum!Lapse
         \/ /\ id \in DOMAIN m_data
            /\ Quorum!VoteUpdate(c, id, TermsFor(m_data[id].body))
  <1>1. sent' = NothingSent /\ IsCustodian(c)
    BY DEF ConfirmDataUpdate
  <1>2. CASE SweepDataOnly
    BY <1>1, <1>2, SweepDataLapses
  <1>3. CASE /\ m_data' = Without(LiveData, {id})
             /\ UNCHANGED <<m_config, m_transactions>>
    <2>1. LapsesBut(m_transactions, -1) /\ LapsesBut(m_data, -1)
      BY <1>3, SweepTakesExpired DEF LapsesBut, Without, Restrict
    <2> QED BY <1>1, <1>3, <2>1, OnlyLapses
  <1>4. CASE /\ id \in DOMAIN LiveData
             /\ ~IsConfirmed(LiveData[id], IndexOf(c))
             /\ ConfirmUpdate(LiveData, LiveMaskData, id, LiveData[id], c)
    <2> DEFINE request == m_data[id]
    <2>1. id \in DOMAIN m_data /\ LiveData[id] = request
      BY <1>4, SweepTakesExpired
    <2>2. /\ request \in Request(UpdateArgs)
          /\ request.confirmationsMask \subseteq Range(m_config.custodians)
          /\ request.signsReceived = Cardinality(request.confirmationsMask)
          /\ request.signsRequired = m_config.reqData
      BY <2>1 DEF IInv, DataInv, QueueInv, IsQueue, VotesInv
    <2> HIDE DEF request
    <2>3. Quorum!Lapse \/ Quorum!VoteUpdate(c, id, TermsFor(request.body))
      BY <1>1, <1>4, <2>1, <2>2, ConfirmUpdateVotes DEF request
    <2> QED BY <2>1, <2>3 DEF request
  <1> QED BY <1>2, <1>3, <1>4 DEF ConfirmDataUpdate

-----------------------------------------------------------------------------
(* The refinement *)

(***************************************************************************)
(* The wallet starts with the terms its constructor was given.             *)
(***************************************************************************)
LEMMA InitMaps == Init => Quorum!AInit
  <1> SUFFICES ASSUME Init PROVE Quorum!AInit
    OBVIOUS
  <1>1. PICK args \in InitArgs : ValidArgs(args) /\ m_config = Initialized(args)
    BY DEF Init
  <1>2. TermsOf(m_config) = TermsFor(args) /\ TermsFor(args) # NoOwner
    BY <1>1, TermsAssumption DEF TermsFor
  <1>3. AbstractTransfers = Quorum!Empty /\ AbstractUpdates = Quorum!Empty
    BY DEF Init, AbstractTransfers, AbstractUpdates, EmptyQueue, Quorum!Empty
  <1> QED BY <1>2, <1>3 DEF Init, Quorum!AInit, Quorum!Nothing, NothingSent

(***************************************************************************)
(* What custodians ask for is known to the abstract wallet.                *)
(***************************************************************************)
LEMMA BodiesAreKnown ==
  ASSUME IInv
  PROVE  /\ \A id \in DOMAIN m_transactions : m_transactions[id].body \in Bodies
         /\ \A id \in DOMAIN m_data : m_data[id].body \in UpdateArgs
  BY DEF IInv, TransactionsInv, DataInv, QueueInv, IsQueue, Request, TransferBody,
         Bodies

(***************************************************************************)
(* Every step of the contract is one of the abstract wallet.               *)
(***************************************************************************)
LEMMA NextMaps == IInv /\ Next => Quorum!ANext
  <1> SUFFICES ASSUME IInv, Next PROVE Quorum!ANext
    OBVIOUS
  <1> DEFINE terms == {TermsFor(args) : args \in InitArgs \cup UpdateArgs} \ {NoOwner}
  <1>1. ASSUME NEW c \in Caller, NEW t \in Transfer, SendTransaction(c, t)
        PROVE  Quorum!ANext
    BY <1>1, SendTransactionMaps DEF Quorum!ANext
  <1>2. ASSUME NEW c \in Caller, NEW t \in Transfer, SubmitTransaction(c, t)
        PROVE  Quorum!ANext
    BY <1>2, SubmitTransactionMaps DEF Quorum!ANext, Ids
  <1>3. ASSUME NEW c \in Caller, NEW id \in DOMAIN m_transactions \cup {0},
               ConfirmTransaction(c, id)
        PROVE  Quorum!ANext
    <2>1. CASE Quorum!Lapse
      BY <2>1 DEF Quorum!ANext
    <2>2. CASE /\ id \in DOMAIN m_transactions
               /\ Quorum!VoteTransfer(c, id, m_transactions[id].body)
      <3>1. PICK body \in Bodies : body = m_transactions[id].body
        BY <2>2, BodiesAreKnown
      <3>2. id \in Ids /\ Quorum!VoteTransfer(c, id, body)
        BY <2>2, <3>1, IdsAreCovered DEF Ids
      <3> QED BY <3>1, <3>2 DEF Quorum!ANext, Bodies, Ids
    <2> QED BY <1>3, <2>1, <2>2, ConfirmTransactionMaps
  <1>4. ASSUME NEW c \in Caller, NEW id \in Ids, NEW args \in UpdateArgs,
               Quorum!VoteUpdate(c, id, TermsFor(args))
        PROVE  Quorum!ANext
    <2>1. PICK body \in terms \cup {NoOwner} : body = TermsFor(args)
      OBVIOUS
    <2>2. Quorum!VoteUpdate(c, id, body)
      BY <1>4, <2>1
    <2> QED BY <2>1, <2>2 DEF Quorum!ANext, Ids
  <1>5. ASSUME NEW c \in Caller, NEW args \in UpdateArgs, SubmitDataUpdate(c, args)
        PROVE  Quorum!ANext
    <2>1. CASE Quorum!Lapse
      BY <2>1 DEF Quorum!ANext
    <2>2. CASE \E id \in Ids : Quorum!VoteUpdate(c, id, TermsFor(args))
      BY <1>4, <2>2
    <2> QED BY <1>5, <2>1, <2>2, SubmitDataUpdateMaps
  <1>6. ASSUME NEW c \in Caller, NEW id \in DOMAIN m_data \cup {0},
               ConfirmDataUpdate(c, id)
        PROVE  Quorum!ANext
    <2>1. CASE Quorum!Lapse
      BY <2>1 DEF Quorum!ANext
    <2>2. CASE /\ id \in DOMAIN m_data
               /\ Quorum!VoteUpdate(c, id, TermsFor(m_data[id].body))
      <3>1. PICK args \in UpdateArgs : args = m_data[id].body
        BY <2>2, BodiesAreKnown
      <3>2. id \in Ids /\ Quorum!VoteUpdate(c, id, TermsFor(args))
        BY <2>2, <3>1, IdsAreCovered DEF Ids
      <3> QED BY <1>4, <3>2
    <2> QED BY <1>6, <2>1, <2>2, ConfirmDataUpdateMaps
  <1>7. ASSUME UNCHANGED <<m_config, m_transactions, m_data>>, sent' = NothingSent
        PROVE  Quorum!ANext
    <2>1. LapsesBut(m_transactions, -1) /\ LapsesBut(m_data, -1)
      BY <1>7 DEF LapsesBut
    <2> QED BY <1>7, <2>1, OnlyLapses DEF Quorum!ANext
  <1>8. ASSUME Tick \/ \E c \in Caller, value \in CleanupLimits :
                          SetMaxCleanupOperations(c, value)
        PROVE  Quorum!ANext
    BY <1>7, <1>8 DEF Tick, SetMaxCleanupOperations
  <1> QED BY <1>1, <1>2, <1>3, <1>5, <1>6, <1>8 DEF Next

(***************************************************************************)
(* The contract's indexes, packed masks, bounded sweeps and committed      *)
(* refusals implement a wallet in which nothing leaves and nobody takes    *)
(* over without the votes of the owners in force.                          *)
(***************************************************************************)
THEOREM WalletImplementsQuorum == Spec => ImplementsQuorumWallet
  <1>1. UNCHANGED vars => UNCHANGED Quorum!avars
    BY DEF vars, Quorum!avars, AbstractTransfers, AbstractUpdates, Custodians,
           TermsFor, TermsOf
  <1>2. IInv /\ [Next]_vars => [Quorum!ANext]_(Quorum!avars)
    BY <1>1, NextMaps
  <1> QED BY <1>2, InitMaps, InitEstablishesIInv, NextKeepsIInv, PTL
          DEF Spec, ImplementsQuorumWallet, Quorum!ASpec
=============================================================================
