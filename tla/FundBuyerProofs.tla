---------------------------- MODULE FundBuyerProofs ----------------------------
(***************************************************************************)
(* Proofs about fund_buyer for any number of calls and custodians, with    *)
(* the treasury and its owners as in SwarmMultisigProofs.                  *)
(***************************************************************************)
EXTENDS FundBuyer, SwarmMultisigProofs

-----------------------------------------------------------------------------
(* What a step of the treasury does to its queue of transfers *)

(***************************************************************************)
(* Every request queued now was queued before, by the same custodian for   *)
(* the same transfer, except perhaps one under the next id.                *)
(***************************************************************************)
GrowsBy(creator, body) ==
  \A id \in DOMAIN m_transactions' :
    \/ /\ id \in DOMAIN m_transactions
       /\ m_transactions'[id].creator = m_transactions[id].creator
       /\ m_transactions'[id].body = m_transactions[id].body
    \/ /\ id = GenerateId
       /\ m_transactions'[id].creator = creator
       /\ m_transactions'[id].body = body

Shrinks ==
  \A id \in DOMAIN m_transactions' :
    /\ id \in DOMAIN m_transactions
    /\ m_transactions'[id].creator = m_transactions[id].creator
    /\ m_transactions'[id].body = m_transactions[id].body

(***************************************************************************)
(* What submitTransaction leaves in the queue, and that it sends nothing   *)
(* at once when more than one signature is required.                       *)
(***************************************************************************)
LEMMA SubmissionGrows ==
  ASSUME IInv, NEW c, NEW t, SubmitTransaction(c, t)
  PROVE  /\ IsCustodian(c) /\ m_config' = m_config
         /\ GrowsBy(IndexOf(c), Outbound(t))
         /\ m_config.req # 1 => sent' = NothingSent
  <1>1. IsCustodian(c) /\ m_config' = m_config
    BY DEF SubmitTransaction
  <1>2. m_transactions' = LiveTransactions =>
          GrowsBy(IndexOf(c), Outbound(t))
    BY SweepTakesExpired DEF GrowsBy
  <1>3. CASE SweepTransactionsOnly
    BY <1>1, <1>2, <1>3 DEF SweepTransactionsOnly
  <1>4. CASE m_config.req = 1 /\ m_transactions' = LiveTransactions
    BY <1>1, <1>2, <1>4
  <1>5. CASE /\ m_config.req # 1
             /\ ConfirmRequest(LiveTransactions, IncMaskValue(LiveMask, IndexOf(c)),
                               GenerateId,
                               NewRequest(IndexOf(c), m_config.req, Outbound(t)), c)
    <2> DEFINE new == NewRequest(IndexOf(c), m_config.req, Outbound(t))
               request == SetConfirmed(new, IndexOf(c))
    <2>1. m_config.req \in Nat /\ 1 <= m_config.req
      BY DEF IInv, ConfigInv
    <2>2. ~ReachesQuorum(new)
      BY <1>5, <2>1 DEF ReachesQuorum, NewRequest
    <2>3. /\ m_transactions' = WithRequest(LiveTransactions, GenerateId, request)
          /\ sent' = NothingSent
      BY <1>5, <2>2 DEF ConfirmRequest
    <2>4. request.creator = IndexOf(c) /\ request.body = Outbound(t)
      BY DEF SetConfirmed, NewRequest
    <2> HIDE DEF request
    <2>5. GrowsBy(IndexOf(c), Outbound(t))
      BY <2>3, <2>4, SweepTakesExpired DEF WithRequest, GrowsBy
    <2> QED BY <1>1, <2>3, <2>5
  <1> QED BY <1>3, <1>4, <1>5 DEF SubmitTransaction

(***************************************************************************)
(* confirmTransaction adds no request and rewrites none but for its votes. *)
(***************************************************************************)
LEMMA ConfirmationShrinks ==
  ASSUME NEW c, NEW id, ConfirmTransaction(c, id)
  PROVE  m_config' = m_config /\ Shrinks
  <1>1. m_config' = m_config
    BY DEF ConfirmTransaction
  <1>2. CASE SweepTransactionsOnly
    BY <1>1, <1>2, SweepTakesExpired DEF SweepTransactionsOnly, Shrinks
  <1>3. CASE m_transactions' = Without(LiveTransactions, {id})
    BY <1>1, <1>3, SweepTakesExpired DEF Without, Restrict, Shrinks
  <1>4. CASE /\ id \in DOMAIN LiveTransactions
             /\ ConfirmRequest(LiveTransactions, LiveMask, id, LiveTransactions[id], c)
    <2> DEFINE voted == SetConfirmed(LiveTransactions[id], IndexOf(c))
    <2>1. CASE ReachesQuorum(LiveTransactions[id])
      BY <1>3, <1>4, <2>1 DEF ConfirmRequest
    <2>2. CASE ~ReachesQuorum(LiveTransactions[id])
      <3>1. m_transactions' = WithRequest(LiveTransactions, id, voted)
        BY <1>4, <2>2 DEF ConfirmRequest
      <3>2. /\ voted.creator = LiveTransactions[id].creator
            /\ voted.body = LiveTransactions[id].body
        BY DEF SetConfirmed
      <3> HIDE DEF voted
      <3> QED BY <1>1, <1>4, <3>1, <3>2, SweepTakesExpired DEF WithRequest, Shrinks
    <2> QED BY <2>1, <2>2
  <1> QED BY <1>2, <1>3, <1>4 DEF ConfirmTransaction

(***************************************************************************)
(* An owner update leaves the transfers alone, or voids them all.          *)
(***************************************************************************)
LEMMA UpdateKeepsOrVoids ==
  ASSUME \/ \E c, args : SubmitDataUpdate(c, args)
         \/ \E c, id : ConfirmDataUpdate(c, id)
  PROVE  \/ m_config' = m_config /\ m_transactions' = m_transactions
         \/ m_transactions' = EmptyQueue
  BY DEF SubmitDataUpdate, ConfirmDataUpdate, ConfirmUpdate, Initialize, SweepDataOnly

(***************************************************************************)
(* No step of the treasury hands out an id twice.                          *)
(***************************************************************************)
LEMMA IdsOnlyGrow ==
  ASSUME IInv,
         \/ \E c, t : SubmitTransaction(c, t)
         \/ \E c, id : ConfirmTransaction(c, id)
         \/ \E c, args : SubmitDataUpdate(c, args)
         \/ \E c, id : ConfirmDataUpdate(c, id)
         \/ Tick
  PROVE  GenerateId \in Nat /\ GenerateId' \in Nat /\ GenerateId <= GenerateId'
  <1>1. CASE Tick
    BY <1>1, TickPassesIds DEF IInv
  <1>2. CASE ~Tick
    <2>1. now' = now
      BY <1>2 DEF SubmitTransaction, ConfirmTransaction, SubmitDataUpdate,
                  ConfirmDataUpdate
    <2>2. ASSUME NEW c, NEW t, SubmitTransaction(c, t)
          PROVE  UNCHANGED lt \/ (lt < LT_SPAN /\ lt' = lt + 1)
      BY <2>2 DEF SubmitTransaction
    <2>3. ASSUME NEW c, NEW args, SubmitDataUpdate(c, args)
          PROVE  UNCHANGED lt \/ (lt < LT_SPAN /\ lt' = lt + 1)
      BY <2>3 DEF SubmitDataUpdate
    <2>4. ASSUME NEW c, NEW id, ConfirmTransaction(c, id) \/ ConfirmDataUpdate(c, id)
          PROVE  UNCHANGED lt
      BY <2>4 DEF ConfirmTransaction, ConfirmDataUpdate
    <2>5. UNCHANGED lt \/ (lt < LT_SPAN /\ lt' = lt + 1)
      BY <1>2, <2>2, <2>3, <2>4
    <2>6. lt \in 0..LT_SPAN
      BY DEF IInv, ClockInv
    <2>7. lt' \in 0..LT_SPAN /\ lt <= lt'
      BY <2>5, <2>6, LimitsAssumption
    <2> QED BY <2>1, <2>7, NextIdGrows DEF IInv
  <1> QED BY <1>1, <1>2

-----------------------------------------------------------------------------
(* The inductive invariant *)

Unsent == {"idle"} \cup Preflight
Looking == {"submit", "poll"}

CallRecord ==
  [pc : Running \cup {"idle", "failed", "done"}, req : Nat, before : SUBSET Nat,
   sentAt : Nat, stamp : Nat, landed : BOOLEAN, id : Nat]

CallsTyped ==
  /\ calls \in [Call -> CallRecord]
  /\ lock \in Call \cup {Nobody}
  /\ \A c \in Call : calls[c].pc \in Running <=> lock = c
  /\ lastStamp \in Nat
  /\ made \in [Call -> Nat]

(***************************************************************************)
(* A message is executed after it was sent, and at most once.              *)
(***************************************************************************)
MessageInv(c) ==
  /\ calls[c].pc \in Unsent => calls[c].stamp = 0 /\ ~calls[c].landed
  /\ calls[c].landed => calls[c].stamp <= lastStamp

(***************************************************************************)
(* A queued request of a call's custodian was made by a message of a call. *)
(***************************************************************************)
RequestsAreMade ==
  \A id \in DOMAIN m_transactions, c \in Call :
    /\ IsCustodian(CustodianOf[c])
    /\ m_transactions[id].creator = IndexOf(CustodianOf[c])
    => \E d \in Call :
         /\ calls[d].landed /\ made[d] = id
         /\ CustodianOf[d] = CustodianOf[c]
         /\ m_transactions[id].body = Outbound(TransferOf[d])

(***************************************************************************)
(* An id that was returned is old, and not new to a call that still looks  *)
(* for its own.                                                            *)
(***************************************************************************)
ToldInv ==
  \A d \in Call : At(d, "done") =>
    /\ calls[d].id < GenerateId
    /\ \A c \in Call : calls[c].pc \in Looking =>
         calls[d].id \notin DOMAIN m_transactions \ calls[c].before

(* CorrelationIsSound, and the message it speaks of was executed. *)
Correlated(c) ==
  \E d \in Call :
    /\ calls[d].landed /\ made[d] = calls[c].id
    /\ \/ d = c
       \/ At(d, "failed")
       \/ At(d, "done") /\ calls[d].id # made[d]
    /\ CustodianOf[d] = CustodianOf[c] /\ TransferOf[d] = TransferOf[c]

FInv ==
  /\ IInv
  /\ CallsTyped
  /\ \A c \in Call : MessageInv(c)
  /\ RequestsAreMade
  /\ ToldInv
  /\ NoSharedIds
  /\ \A c \in Call : At(c, "done") => Correlated(c)

(***************************************************************************)
(* At first nothing is queued and no one has called.                       *)
(***************************************************************************)
LEMMA FInitEstablishesFInv == FInit => FInv
  <1> SUFFICES ASSUME FInit
               PROVE  FInv
    OBVIOUS
  <1>1. IInv
    BY InitEstablishesIInv DEF FInit
  <1>2. calls = [c \in Call |-> [pc |-> "idle", req |-> 0, before |-> {}, sentAt |-> 0,
                                stamp |-> 0, landed |-> FALSE, id |-> 0]]
    BY DEF FInit, NoId
  <1>3. \A c \in Call : calls[c].pc = "idle" /\ calls[c].stamp = 0 /\ ~calls[c].landed
    BY <1>2
  <1>4. CallsTyped
    BY <1>2, <1>3, CallAssumption
    DEF FInit, CallsTyped, CallRecord, Running, Preflight, NoId
  <1>5. DOMAIN m_transactions = {}
    BY DEF FInit, Init, EmptyQueue
  <1>6. \A c \in Call : MessageInv(c) /\ ~At(c, "done")
    BY <1>3 DEF MessageInv, At
  <1> QED BY <1>1, <1>4, <1>5, <1>6 DEF FInv, RequestsAreMade, ToldInv, NoSharedIds

-----------------------------------------------------------------------------
(* Steps of a call *)

(***************************************************************************)
(* A step that neither returns an id nor touches the treasury.             *)
(***************************************************************************)
QuietFor(c) ==
  /\ calls'[c].landed = calls[c].landed
  /\ calls'[c].id = calls[c].id
  /\ calls'[c].pc = "done" <=> calls[c].pc = "done"
  /\ calls[c].pc = "failed" => calls'[c].pc = "failed"
  /\ calls'[c].pc \in Looking =>
       \/ calls'[c].before = DOMAIN m_transactions
       \/ calls[c].pc \in Looking /\ calls'[c].before = calls[c].before
  /\ calls'[c].pc \in Unsent => calls[c].pc \in Unsent
  /\ \/ calls'[c].stamp = calls[c].stamp
     \/ calls[c].pc \in Unsent /\ calls'[c].pc \notin Unsent

(***************************************************************************)
(* Such a step keeps the invariant.                                        *)
(***************************************************************************)
LEMMA QuietStep ==
  ASSUME FInv, CallsTyped', UNCHANGED <<vars, lastStamp, made>>,
         \A c \in Call : QuietFor(c)
  PROVE  FInv'
  <1> USE DEF QuietFor
  <1>1. /\ m_config' = m_config /\ m_transactions' = m_transactions
        /\ lastStamp' = lastStamp /\ made' = made /\ now' = now /\ lt' = lt
    BY DEF vars
  <1>2. IInv'
    BY NextKeepsIInv DEF FInv
  <1>3. ASSUME NEW c \in Call
        PROVE  MessageInv(c)'
    BY <1>1, <1>3 DEF FInv, MessageInv
  <1>4. RequestsAreMade'
    BY <1>1 DEF FInv, RequestsAreMade, IsCustodian, IndexOf
  <1>5. ToldInv'
    BY <1>1 DEF FInv, ToldInv, At, GenerateId
  <1>6. NoSharedIds'
    BY DEF FInv, NoSharedIds, At
  <1>7. ASSUME NEW c \in Call, At(c, "done")'
        PROVE  Correlated(c)'
    <2>1. Correlated(c)
      BY <1>7 DEF FInv, At
    <2> QED BY <1>1, <2>1 DEF Correlated, At
  <1> QED BY <1>2, <1>3, <1>4, <1>5, <1>6, <1>7 DEF FInv

(***************************************************************************)
(* Changing where one call stands leaves the others and its other fields.  *)
(***************************************************************************)
LEMMA GotoMoves ==
  ASSUME CallsTyped, NEW c \in Call, NEW pc \in Running \cup {"idle", "failed", "done"},
         Goto(c, pc)
  PROVE  /\ calls' \in [Call -> CallRecord]
         /\ \A d \in Call \ {c} : calls'[d] = calls[d]
         /\ calls'[c].pc = pc /\ calls'[c].before = calls[c].before
         /\ calls'[c].stamp = calls[c].stamp /\ calls'[c].landed = calls[c].landed
         /\ calls'[c].id = calls[c].id /\ calls'[c].req = calls[c].req
  BY DEF CallsTyped, CallRecord, Goto

(***************************************************************************)
(* One call's record is replaced.                                          *)
(***************************************************************************)
LEMMA OneCallMoves ==
  ASSUME CallsTyped, NEW c \in Call, NEW r \in CallRecord,
         calls' = [calls EXCEPT ![c] = r]
  PROVE  /\ calls' \in [Call -> CallRecord] /\ calls'[c] = r
         /\ \A d \in Call \ {c} : calls'[d] = calls[d]
  BY DEF CallsTyped

(***************************************************************************)
(* What the preflight notes.                                               *)
(***************************************************************************)
LEMMA ParametersRead ==
  ASSUME FInv, NEW c \in Call, ReadParameters(c), ~Fail(c)
  PROVE  /\ calls' \in [Call -> CallRecord] /\ UNCHANGED lock
         /\ \A d \in Call \ {c} : calls'[d] = calls[d]
         /\ calls'[c].pc = "snapshot" /\ calls'[c].req = m_config.req
         /\ Governed(m_config.req)
         /\ calls'[c].stamp = calls[c].stamp /\ calls'[c].landed = calls[c].landed
         /\ calls'[c].id = calls[c].id
  <1> DEFINE r == [calls[c] EXCEPT !.pc = "snapshot", !.req = m_config.req]
  <1>1. /\ Governed(m_config.req) /\ UNCHANGED lock
        /\ calls' = [calls EXCEPT ![c].pc = "snapshot", ![c].req = m_config.req]
    BY DEF ReadParameters
  <1>2. calls[c] \in CallRecord /\ "snapshot" \in Running /\ m_config.req \in Nat
    BY DEF FInv, CallsTyped, Running, Preflight, IInv, ConfigInv
  <1>3. /\ r \in CallRecord /\ r.pc = "snapshot" /\ r.req = m_config.req
        /\ r.stamp = calls[c].stamp /\ r.landed = calls[c].landed /\ r.id = calls[c].id
    BY <1>2 DEF CallRecord
  <1>4. calls' = [calls EXCEPT ![c] = r]
    BY <1>1 DEF FInv, CallsTyped
  <1> HIDE DEF r
  <1>5. /\ calls' \in [Call -> CallRecord] /\ calls'[c] = r
        /\ \A d \in Call \ {c} : calls'[d] = calls[d]
    BY <1>3, <1>4, OneCallMoves DEF FInv
  <1> QED BY <1>1, <1>3, <1>5

(***************************************************************************)
(* While it holds the lock, a call may go from one running phase to        *)
(* another that is no earlier.                                             *)
(***************************************************************************)
LEMMA RunsOn ==
  ASSUME FInv, NEW c \in Call, calls[c].pc \in Running, UNCHANGED <<vars, lastStamp, made>>,
         calls' \in [Call -> CallRecord], UNCHANGED lock,
         \A d \in Call \ {c} : calls'[d] = calls[d],
         calls'[c].pc \in Running, QuietFor(c)
  PROVE  FInv'
  <1>1. CallsTyped'
    BY DEF FInv, CallsTyped
  <1>2. \A d \in Call \ {c} : QuietFor(d)
    BY DEF QuietFor
  <1> QED BY <1>1, <1>2, QuietStep

(***************************************************************************)
(* A call that fails drops its lock.                                       *)
(***************************************************************************)
LEMMA FailKeepsFInv ==
  ASSUME FInv, NEW c \in Call, calls[c].pc \in Running, Fail(c),
         UNCHANGED <<vars, lastStamp, made>>
  PROVE  FInv'
  <1>1. /\ calls' \in [Call -> CallRecord]
        /\ \A d \in Call \ {c} : calls'[d] = calls[d]
        /\ calls'[c].pc = "failed"
        /\ calls'[c].stamp = calls[c].stamp /\ calls'[c].landed = calls[c].landed
        /\ calls'[c].id = calls[c].id
    BY GotoMoves DEF FInv, Fail
  <1>2. lock = c /\ lock' = Nobody /\ calls[c].pc # "done"
    BY DEF FInv, CallsTyped, Fail, Running, Preflight
  <1>3. CallsTyped'
    BY <1>1, <1>2, CallAssumption DEF FInv, CallsTyped, Running, Preflight
  <1>4. \A d \in Call : QuietFor(d)
    BY <1>1, <1>2 DEF QuietFor, Looking, Unsent, Preflight
  <1> QED BY <1>3, <1>4, QuietStep

(***************************************************************************)
(* The steps of a call up to its message.                                  *)
(***************************************************************************)
LEMMA PreflightKeepsFInv ==
  ASSUME FInv, NEW c \in Call,
         TakeLock(c) \/ ReadParameters(c) \/ Snapshot(c) \/ Refuse(c)
  PROVE  FInv'
  <1>1. UNCHANGED <<vars, lastStamp, made>>
    BY DEF TakeLock, ReadParameters, Snapshot, Refuse
  <1>2. CASE TakeLock(c)
    <2>1. /\ calls' \in [Call -> CallRecord]
          /\ \A d \in Call \ {c} : calls'[d] = calls[d]
          /\ calls'[c].pc = "parameters"
          /\ calls'[c].stamp = calls[c].stamp /\ calls'[c].landed = calls[c].landed
          /\ calls'[c].id = calls[c].id
      BY <1>2, GotoMoves DEF FInv, TakeLock, Running, Preflight
    <2>2. calls[c].pc = "idle" /\ lock = Nobody /\ lock' = c
      BY <1>2 DEF TakeLock, At
    <2>3. CallsTyped'
      BY <1>1, <2>1, <2>2, CallAssumption DEF FInv, CallsTyped, Running, Preflight
    <2>4. \A d \in Call : QuietFor(d)
      BY <2>1, <2>2 DEF QuietFor, Looking, Unsent, Preflight
    <2> QED BY <1>1, <2>3, <2>4, QuietStep
  <1>3. CASE ReadParameters(c)
    <2>1. calls[c].pc = "parameters" /\ calls[c].pc \in Running
      BY <1>3 DEF ReadParameters, At, Running, Preflight
    <2>2. CASE ~Fail(c)
      <3>1. /\ calls' \in [Call -> CallRecord] /\ UNCHANGED lock
            /\ \A d \in Call \ {c} : calls'[d] = calls[d]
            /\ calls'[c].pc = "snapshot"
            /\ calls'[c].stamp = calls[c].stamp /\ calls'[c].landed = calls[c].landed
            /\ calls'[c].id = calls[c].id
        BY <1>3, <2>2, ParametersRead
      <3>2. QuietFor(c) /\ calls'[c].pc \in Running
        BY <2>1, <3>1 DEF QuietFor, Looking, Unsent, Running, Preflight
      <3> QED BY <1>1, <2>1, <3>1, <3>2, RunsOn
    <2>3. CASE Fail(c)
      BY <1>1, <2>1, <2>3, FailKeepsFInv
    <2> QED BY <2>2, <2>3
  <1>4. CASE Snapshot(c)
    <2>1. /\ calls[c].pc = "snapshot" /\ calls[c].pc \in Running /\ UNCHANGED lock
          /\ calls' = [calls EXCEPT ![c].pc = "submit",
                                    ![c].before = DOMAIN m_transactions]
      BY <1>4 DEF Snapshot, At, Running, Preflight
    <2>2. DOMAIN m_transactions \subseteq Nat
      BY DEF FInv, IInv, TransactionsInv, QueueInv, IsQueue
    <2>3. /\ calls' \in [Call -> CallRecord]
          /\ \A d \in Call \ {c} : calls'[d] = calls[d]
          /\ calls'[c].pc = "submit" /\ calls'[c].before = DOMAIN m_transactions
          /\ calls'[c].stamp = calls[c].stamp /\ calls'[c].landed = calls[c].landed
          /\ calls'[c].id = calls[c].id
      <3> DEFINE r == [calls[c] EXCEPT !.pc = "submit", !.before = DOMAIN m_transactions]
      <3>1. calls[c] \in CallRecord /\ "submit" \in Running
        BY DEF FInv, CallsTyped, Running, Preflight
      <3>2. /\ r \in CallRecord /\ r.pc = "submit" /\ r.before = DOMAIN m_transactions
            /\ r.stamp = calls[c].stamp /\ r.landed = calls[c].landed /\ r.id = calls[c].id
        BY <2>2, <3>1 DEF CallRecord
      <3>3. calls' = [calls EXCEPT ![c] = r]
        BY <2>1 DEF FInv, CallsTyped
      <3> HIDE DEF r
      <3> QED BY <3>2, <3>3, OneCallMoves DEF FInv
    <2>4. QuietFor(c) /\ calls'[c].pc \in Running
      BY <2>1, <2>3 DEF QuietFor, Looking, Unsent, Running, Preflight
    <2> QED BY <1>1, <2>1, <2>3, <2>4, RunsOn
  <1>5. CASE Refuse(c)
    BY <1>1, <1>5, FailKeepsFInv DEF Refuse, Running
  <1> QED BY <1>2, <1>3, <1>4, <1>5

(***************************************************************************)
(* A time header is a positive number.                                     *)
(***************************************************************************)
LEMMA StampIsPositive ==
  NextStamp \in Nat /\ NextStamp > 0
  <1> DEFINE stamped == {c \in Call : calls[c].stamp > 0}
  <1>1. stamped \in SUBSET Call
    OBVIOUS
  <1>2. Cardinality(stamped) \in Nat
    BY <1>1, CallAssumption, FS_Subset, FS_CardinalityType
  <1> QED BY <1>2 DEF NextStamp

(***************************************************************************)
(* Sending the message: the call goes on to poll, or fails.                *)
(***************************************************************************)
LEMMA SubmitKeepsFInv ==
  ASSUME FInv, NEW c \in Call, Submit(c)
  PROVE  FInv'
  <1>1. PICK pc \in {"poll", "failed"} :
          /\ calls' = [calls EXCEPT ![c].pc = pc, ![c].sentAt = now, ![c].stamp = NextStamp]
          /\ lock' = IF pc = "failed" THEN Nobody ELSE lock
    BY DEF Submit
  <1>2. calls[c].pc = "submit" /\ lock = c /\ UNCHANGED <<vars, lastStamp, made>>
    BY DEF Submit, At, FInv, CallsTyped, Running, Preflight
  <1>3. now \in Nat /\ NextStamp \in Nat
    BY StampIsPositive DEF FInv, IInv, ClockInv
  <1>4. /\ calls' \in [Call -> CallRecord]
        /\ \A d \in Call \ {c} : calls'[d] = calls[d]
        /\ calls'[c].pc = pc /\ calls'[c].before = calls[c].before
        /\ calls'[c].landed = calls[c].landed /\ calls'[c].id = calls[c].id
    <2> HIDE DEF NextStamp
    <2> DEFINE r == [calls[c] EXCEPT !.pc = pc, !.sentAt = now, !.stamp = NextStamp]
    <2>1. calls[c] \in CallRecord /\ pc \in Running \cup {"idle", "failed", "done"}
      BY DEF FInv, CallsTyped, Running, Preflight
    <2>2. /\ r \in CallRecord /\ r.pc = pc /\ r.before = calls[c].before
          /\ r.landed = calls[c].landed /\ r.id = calls[c].id
      BY <1>3, <2>1 DEF CallRecord
    <2>3. calls' = [calls EXCEPT ![c] = r]
      BY <1>1 DEF FInv, CallsTyped
    <2> HIDE DEF r
    <2> QED BY <2>2, <2>3, OneCallMoves DEF FInv
  <1>5. CallsTyped'
    BY <1>1, <1>2, <1>4, CallAssumption DEF FInv, CallsTyped, Running, Preflight
  <1>6. \A d \in Call : QuietFor(d)
    BY <1>2, <1>4 DEF QuietFor, Looking, Unsent, Preflight
  <1> QED BY <1>2, <1>5, <1>6, QuietStep

(***************************************************************************)
(* Polling that ends without an id.                                        *)
(***************************************************************************)
LEMMA PollingFailsKeepsFInv ==
  ASSUME FInv, NEW c \in Call, Ambiguous(c) \/ PollTimesOut(c) \/ PollReadFails(c)
  PROVE  FInv'
  BY FailKeepsFInv DEF Ambiguous, PollTimesOut, PollReadFails, At, Running

(***************************************************************************)
(* A restart ends every call that was running, and forgets the lock.       *)
(***************************************************************************)
LEMMA RestartKeepsFInv ==
  ASSUME FInv, Restart
  PROVE  FInv'
  <1>1. /\ calls' = [c \in Call |->
             IF calls[c].pc \in Running THEN [calls[c] EXCEPT !.pc = "failed"]
                                        ELSE calls[c]]
        /\ lock' = Nobody /\ UNCHANGED <<vars, lastStamp, made>>
    BY DEF Restart
  <1>2. ASSUME NEW c \in Call
        PROVE  /\ calls'[c] \in CallRecord
               /\ calls'[c].pc \notin Running
               /\ QuietFor(c)
    <2>1. calls[c] \in CallRecord
      BY DEF FInv, CallsTyped
    <2>2. CASE calls[c].pc \in Running
      <3>1. calls'[c] = [calls[c] EXCEPT !.pc = "failed"]
        BY <1>1, <2>2
      <3>2. calls[c].pc # "done" /\ calls[c].pc # "failed"
        BY <2>2 DEF Running, Preflight
      <3> QED BY <2>1, <3>1, <3>2
              DEF CallRecord, QuietFor, Looking, Unsent, Running, Preflight
    <2>3. CASE calls[c].pc \notin Running
      <3>1. calls'[c] = calls[c]
        BY <1>1, <2>3
      <3> QED BY <2>1, <2>3, <3>1 DEF QuietFor, Looking, Running, Preflight
    <2> QED BY <2>2, <2>3
  <1>3. CallsTyped'
    BY <1>1, <1>2, CallAssumption DEF FInv, CallsTyped
  <1> QED BY <1>1, <1>2, <1>3, QuietStep

(***************************************************************************)
(* Distinct custodians have distinct indexes.                              *)
(***************************************************************************)
LEMMA IndexTellsCustodian ==
  ASSUME IInv, NEW b, NEW c, IsCustodian(b), IsCustodian(c), IndexOf(b) = IndexOf(c)
  PROVE  b = c
  BY DEF IInv, ConfigInv, IsInjective, IsCustodian, IndexOf

(***************************************************************************)
(* Polling that finds its one candidate.  Whoever made that request had    *)
(* its message executed, so it is this call or one that has returned; and  *)
(* it was not told this id, because the id is new to the poller.           *)
(***************************************************************************)
LEMMA FoundKeepsFInv ==
  ASSUME FInv, NEW c \in Call, Found(c)
  PROVE  FInv'
  <1>1. /\ calls[c].pc = "poll" /\ calls[c].pc \in Running /\ lock' = Nobody
        /\ UNCHANGED <<vars, lastStamp, made>>
    BY DEF Found, At, Running
  <1>2. PICK id \in Candidates(c) :
          calls' = [calls EXCEPT ![c].pc = "done", ![c].id = id]
    BY DEF Found
  <1>3. /\ id \in DOMAIN m_transactions /\ id \notin calls[c].before
        /\ m_transactions[id].body = Outbound(TransferOf[c])
        /\ IsCustodian(CustodianOf[c])
        /\ m_transactions[id].creator = IndexOf(CustodianOf[c])
    BY DEF Candidates, Matches
  <1>4. id \in Nat /\ id < GenerateId
    BY <1>3 DEF FInv, IInv, TransactionsInv, QueueInv, IsQueue
  <1>5. /\ calls' \in [Call -> CallRecord]
        /\ \A d \in Call \ {c} : calls'[d] = calls[d]
        /\ calls'[c].pc = "done" /\ calls'[c].id = id
        /\ calls'[c].stamp = calls[c].stamp /\ calls'[c].landed = calls[c].landed
    <2> DEFINE r == [calls[c] EXCEPT !.pc = "done", !.id = id]
    <2>1. calls[c] \in CallRecord
      BY DEF FInv, CallsTyped
    <2>2. /\ r \in CallRecord /\ r.pc = "done" /\ r.id = id
          /\ r.stamp = calls[c].stamp /\ r.landed = calls[c].landed
      BY <1>4, <2>1 DEF CallRecord
    <2>3. calls' = [calls EXCEPT ![c] = r]
      BY <1>2 DEF FInv, CallsTyped
    <2> HIDE DEF r
    <2> QED BY <2>2, <2>3, OneCallMoves DEF FInv
  <1>6. \A d \in Call : d # c => calls[d].pc \notin Running
    BY <1>1 DEF FInv, CallsTyped
  <1>7. \A d \in Call : calls'[d].pc \notin Running
    BY <1>5, <1>6 DEF Running, Preflight
  <1>8. CallsTyped'
    BY <1>1, <1>5, <1>7, CallAssumption DEF FInv, CallsTyped
  <1>9. PICK d \in Call : /\ calls[d].landed /\ made[d] = id
                         /\ CustodianOf[d] = CustodianOf[c]
                         /\ m_transactions[id].body = Outbound(TransferOf[d])
    BY <1>3 DEF FInv, RequestsAreMade
  <1>10. TransferOf[d] = TransferOf[c]
    BY <1>3, <1>9, CallAssumption DEF Outbound
  <1>11. \A e \in Call : At(e, "done") => calls[e].id # id
    BY <1>1, <1>3 DEF FInv, ToldInv, Looking
  <1>12. /\ IInv' /\ GenerateId' = GenerateId /\ RequestsAreMade'
         /\ made' = made /\ lastStamp' = lastStamp
    BY <1>1, <1>5, NextKeepsIInv
    DEF FInv, vars, GenerateId, RequestsAreMade, IsCustodian, IndexOf
  <1>13. ASSUME NEW e \in Call
         PROVE  MessageInv(e)'
    BY <1>1, <1>5, <1>12 DEF FInv, MessageInv, Unsent, Preflight
  <1>14. ToldInv'
    <2>1. \A e \in Call : At(e, "done")' => calls'[e].id < GenerateId
      BY <1>4, <1>5 DEF FInv, ToldInv, At
    <2> QED BY <1>7, <1>12, <2>1 DEF ToldInv, Looking, Running, Preflight
  <1>15. NoSharedIds'
    BY <1>5, <1>11 DEF FInv, NoSharedIds, At
  <1>16. ASSUME NEW e \in Call, At(e, "done")'
         PROVE  Correlated(e)'
    <2>1. CASE e = c
      <3>1. calls[d].pc \notin {"idle"} \cup Preflight
        BY <1>9 DEF FInv, MessageInv, Unsent
      <3>2. d # c => At(d, "failed") \/ At(d, "done")
        BY <1>6, <3>1 DEF FInv, CallsTyped, CallRecord, At
      <3>3. d # c => calls'[d] = calls[d]
        BY <1>5
      <3> QED BY <1>5, <1>9, <1>10, <1>11, <1>12, <2>1, <3>2, <3>3
              DEF Correlated, At
    <2>2. CASE e # c
      <3>1. Correlated(e) /\ calls'[e] = calls[e]
        BY <1>5, <1>16, <2>2 DEF FInv, At
      <3> QED BY <1>1, <1>5, <1>12, <2>2, <3>1 DEF Correlated, At
    <2> QED BY <2>1, <2>2
  <1> QED BY <1>8, <1>12, <1>13, <1>14, <1>15, <1>16 DEF FInv

-----------------------------------------------------------------------------
(* Steps of the chain *)

(***************************************************************************)
(* Whether or not a step adds a request under the next id, an id that was  *)
(* returned stays old.                                                     *)
(***************************************************************************)
LEMMA ToldStaysOld ==
  ASSUME FInv, GenerateId \in Nat, GenerateId' \in Nat, GenerateId <= GenerateId',
         \A c \in Call : /\ calls'[c].pc = calls[c].pc /\ calls'[c].id = calls[c].id
                        /\ calls'[c].before = calls[c].before,
         DOMAIN m_transactions' \subseteq DOMAIN m_transactions \cup {GenerateId}
  PROVE  ToldInv'
  <1>1. \A d \in Call : calls[d].id \in Nat
    BY DEF FInv, CallsTyped, CallRecord
  <1>2. \A d \in Call : At(d, "done") => calls[d].id < GenerateId'
    BY <1>1 DEF FInv, ToldInv
  <1>3. ASSUME NEW d \in Call, At(d, "done"), NEW c \in Call, calls[c].pc \in Looking
        PROVE  calls[d].id \notin DOMAIN m_transactions' \ calls[c].before
    <2>1. calls[d].id # GenerateId
      BY <1>1, <1>3 DEF FInv, ToldInv
    <2> QED BY <1>3, <2>1 DEF FInv, ToldInv
  <1> QED BY <1>2, <1>3 DEF ToldInv, At

(***************************************************************************)
(* The chain executes a call's message.                                    *)
(***************************************************************************)
LEMMA DeliverKeepsFInv ==
  ASSUME FInv, NEW e \in Call, Deliver(e)
  PROVE  FInv'
  <1>1. /\ calls[e].stamp > lastStamp /\ lastStamp' = calls[e].stamp
        /\ SubmitTransaction(CustodianOf[e], TransferOf[e])
        /\ calls' = [calls EXCEPT ![e].landed = TRUE]
        /\ made' = [made EXCEPT ![e] =
              IF GenerateId \in DOMAIN m_transactions' THEN GenerateId ELSE NoId]
        /\ UNCHANGED lock
    BY DEF Deliver
  <1>2. TransferOf[e] \in Transfer
    BY CallAssumption
  <1>3. IInv'
    BY <1>1, <1>2, SubmitTransactionStep DEF FInv
  <1>4. GenerateId \in Nat /\ GenerateId' \in Nat /\ GenerateId <= GenerateId'
    BY <1>1, IdsOnlyGrow DEF FInv
  <1>5. /\ IsCustodian(CustodianOf[e]) /\ m_config' = m_config
        /\ GrowsBy(IndexOf(CustodianOf[e]), Outbound(TransferOf[e]))
    BY <1>1, SubmissionGrows DEF FInv
  <1>6. calls[e].stamp \in Nat /\ lastStamp \in Nat
    BY DEF FInv, CallsTyped, CallRecord
  <1>7. ~calls[e].landed /\ calls[e].pc \notin Unsent
    BY <1>1, <1>6 DEF FInv, MessageInv
  <1>8. /\ calls' \in [Call -> CallRecord]
        /\ \A d \in Call : /\ calls'[d].pc = calls[d].pc /\ calls'[d].id = calls[d].id
                           /\ calls'[d].before = calls[d].before
                           /\ calls'[d].stamp = calls[d].stamp
                           /\ d # e => calls'[d].landed = calls[d].landed
        /\ calls'[e].landed
    <2> DEFINE r == [calls[e] EXCEPT !.landed = TRUE]
    <2>1. calls[e] \in CallRecord
      BY DEF FInv, CallsTyped
    <2>2. /\ r \in CallRecord /\ r.landed /\ r.pc = calls[e].pc /\ r.id = calls[e].id
          /\ r.before = calls[e].before /\ r.stamp = calls[e].stamp
      BY <2>1 DEF CallRecord
    <2>3. calls' = [calls EXCEPT ![e] = r]
      BY <1>1 DEF FInv, CallsTyped
    <2> HIDE DEF r
    <2> QED BY <2>2, <2>3, OneCallMoves DEF FInv
  <1>9. /\ made' \in [Call -> Nat]
        /\ \A d \in Call : d # e => made'[d] = made[d]
        /\ GenerateId \in DOMAIN m_transactions' => made'[e] = GenerateId
    <2> HIDE DEF GenerateId
    <2> QED BY <1>1, <1>4 DEF FInv, CallsTyped, NoId
  <1>10. CallsTyped'
    BY <1>1, <1>6, <1>8, <1>9 DEF FInv, CallsTyped
  <1>11. ASSUME NEW d \in Call
         PROVE  MessageInv(d)'
    <2>1. calls[d].stamp \in Nat
      BY DEF FInv, CallsTyped, CallRecord
    <2>2. CASE d = e
      BY <1>1, <1>6, <1>7, <1>8, <2>2 DEF MessageInv
    <2>3. CASE d # e
      BY <1>1, <1>6, <1>8, <2>1, <2>3 DEF FInv, MessageInv
    <2> QED BY <2>2, <2>3
  <1>12. RequestsAreMade'
    <2> SUFFICES ASSUME NEW id \in DOMAIN m_transactions', NEW c \in Call,
                        IsCustodian(CustodianOf[c]),
                        m_transactions'[id].creator = IndexOf(CustodianOf[c])
                 PROVE  \E d \in Call :
                          /\ calls'[d].landed /\ made'[d] = id
                          /\ CustodianOf[d] = CustodianOf[c]
                          /\ m_transactions'[id].body = Outbound(TransferOf[d])
      BY <1>5 DEF RequestsAreMade, IsCustodian, IndexOf
    <2>1. CASE /\ id \in DOMAIN m_transactions
               /\ m_transactions'[id].creator = m_transactions[id].creator
               /\ m_transactions'[id].body = m_transactions[id].body
      <3>1. /\ RequestsAreMade /\ id \in DOMAIN m_transactions
            /\ m_transactions[id].creator = IndexOf(CustodianOf[c])
        BY <2>1 DEF FInv
      <3>2. PICK d \in Call : /\ calls[d].landed /\ made[d] = id
                             /\ CustodianOf[d] = CustodianOf[c]
                             /\ m_transactions[id].body = Outbound(TransferOf[d])
        BY <3>1 DEF RequestsAreMade
      <3>3. d # e
        BY <1>7, <3>2
      <3> QED BY <1>8, <1>9, <2>1, <3>2, <3>3
    <2>2. CASE /\ id = GenerateId
               /\ m_transactions'[id].creator = IndexOf(CustodianOf[e])
               /\ m_transactions'[id].body = Outbound(TransferOf[e])
      <3>1. CustodianOf[e] = CustodianOf[c]
        BY <1>5, <2>2, IndexTellsCustodian DEF FInv
      <3> QED BY <1>8, <1>9, <2>2, <3>1
    <2> QED BY <1>5, <2>1, <2>2 DEF GrowsBy
  <1>13. ToldInv'
    <2>1. DOMAIN m_transactions' \subseteq DOMAIN m_transactions \cup {GenerateId}
      BY <1>5 DEF GrowsBy
    <2> QED BY <1>4, <1>8, <2>1, ToldStaysOld
  <1>14. NoSharedIds'
    BY <1>8 DEF FInv, NoSharedIds, At
  <1>15. ASSUME NEW c \in Call, At(c, "done")'
         PROVE  Correlated(c)'
    <2>1. Correlated(c)
      BY <1>8, <1>15 DEF FInv, At
    <2> QED BY <1>7, <1>8, <1>9, <2>1 DEF Correlated, At
  <1> QED BY <1>3, <1>10, <1>11, <1>12, <1>13, <1>14, <1>15 DEF FInv

(***************************************************************************)
(* A step of the treasury that no call's custodian submits to.             *)
(***************************************************************************)
LeavesCallsAlone ==
  \/ m_transactions' = EmptyQueue
  \/ /\ m_config' = m_config
     /\ \A id \in DOMAIN m_transactions' :
          \/ /\ id \in DOMAIN m_transactions
             /\ m_transactions'[id].creator = m_transactions[id].creator
             /\ m_transactions'[id].body = m_transactions[id].body
          \/ /\ id = GenerateId
             /\ \A c \in Call : IsCustodian(CustodianOf[c]) =>
                  m_transactions'[id].creator # IndexOf(CustodianOf[c])

(***************************************************************************)
(* Such a step keeps the invariant.                                        *)
(***************************************************************************)
LEMMA OthersKeepFInv ==
  ASSUME FInv, IInv', UNCHANGED callVars, LeavesCallsAlone,
         GenerateId \in Nat, GenerateId' \in Nat, GenerateId <= GenerateId'
  PROVE  FInv'
  <1>1. /\ calls' = calls /\ lock' = lock /\ lastStamp' = lastStamp /\ made' = made
    BY DEF callVars
  <1>2. CallsTyped' /\ NoSharedIds'
    BY <1>1 DEF FInv, CallsTyped, NoSharedIds, At
  <1>3. \A c \in Call : MessageInv(c)' /\ (At(c, "done")' => Correlated(c)')
    BY <1>1 DEF FInv, MessageInv, Correlated, At
  <1>4. RequestsAreMade'
    <2> SUFFICES ASSUME m_config' = m_config, NEW id \in DOMAIN m_transactions',
                        NEW c \in Call, IsCustodian(CustodianOf[c]),
                        m_transactions'[id].creator = IndexOf(CustodianOf[c])
                 PROVE  \E d \in Call :
                          /\ calls[d].landed /\ made[d] = id
                          /\ CustodianOf[d] = CustodianOf[c]
                          /\ m_transactions'[id].body = Outbound(TransferOf[d])
      BY <1>1 DEF LeavesCallsAlone, EmptyQueue, RequestsAreMade, IsCustodian, IndexOf
    <2>1. /\ id \in DOMAIN m_transactions
          /\ m_transactions'[id].creator = m_transactions[id].creator
          /\ m_transactions'[id].body = m_transactions[id].body
      BY DEF LeavesCallsAlone, EmptyQueue
    <2>2. /\ RequestsAreMade /\ id \in DOMAIN m_transactions
          /\ m_transactions[id].creator = IndexOf(CustodianOf[c])
      BY <2>1 DEF FInv
    <2>3. PICK d \in Call : /\ calls[d].landed /\ made[d] = id
                           /\ CustodianOf[d] = CustodianOf[c]
                           /\ m_transactions[id].body = Outbound(TransferOf[d])
      BY <2>2 DEF RequestsAreMade
    <2> QED BY <2>1, <2>3
  <1>5. ToldInv'
    <2>1. DOMAIN m_transactions' \subseteq DOMAIN m_transactions \cup {GenerateId}
      BY DEF LeavesCallsAlone, EmptyQueue
    <2> QED BY <1>1, <2>1, ToldStaysOld
  <1> QED BY <1>2, <1>3, <1>4, <1>5 DEF FInv

(***************************************************************************)
(* Whatever the other custodians do is such a step.                        *)
(***************************************************************************)
LEMMA OthersActKeepsFInv ==
  ASSUME FInv, OthersAct
  PROVE  FInv'
  <1>1. UNCHANGED callVars /\ IInv
    BY DEF OthersAct, FInv
  <1>2. GenerateId \in Nat /\ GenerateId' \in Nat /\ GenerateId <= GenerateId'
    BY <1>1, IdsOnlyGrow DEF OthersAct
  <1>3. ASSUME NEW o \in Other, NEW t \in Transfer, SubmitTransaction(o, t)
        PROVE  IInv' /\ LeavesCallsAlone
    <2>1. IInv'
      BY <1>1, <1>3, SubmitTransactionStep
    <2>2. /\ IsCustodian(o) /\ m_config' = m_config
          /\ GrowsBy(IndexOf(o), Outbound(t))
      BY <1>1, <1>3, SubmissionGrows
    <2>3. \A c \in Call : CustodianOf[c] # o
      BY CallAssumption DEF Range
    <2>4. \A c \in Call : IsCustodian(CustodianOf[c]) => IndexOf(o) # IndexOf(CustodianOf[c])
      BY <1>1, <2>2, <2>3, IndexTellsCustodian
    <2> QED BY <2>1, <2>2, <2>4 DEF GrowsBy, LeavesCallsAlone
  <1>4. ASSUME NEW o \in Caller, NEW id, ConfirmTransaction(o, id)
        PROVE  IInv' /\ LeavesCallsAlone
    BY <1>1, <1>4, ConfirmTransactionStep, ConfirmationShrinks
    DEF Shrinks, LeavesCallsAlone
  <1>5. ASSUME NEW o \in Other, NEW args \in UpdateArgs, SubmitDataUpdate(o, args)
        PROVE  IInv' /\ LeavesCallsAlone
    BY <1>1, <1>5, SubmitDataUpdateStep, UpdateKeepsOrVoids DEF LeavesCallsAlone
  <1>6. ASSUME NEW o \in Caller, NEW id, ConfirmDataUpdate(o, id)
        PROVE  IInv' /\ LeavesCallsAlone
    BY <1>1, <1>6, ConfirmDataUpdateStep, UpdateKeepsOrVoids DEF LeavesCallsAlone
  <1>7. ASSUME Tick
        PROVE  IInv' /\ LeavesCallsAlone
    BY <1>1, <1>7, TickStep DEF Tick, LeavesCallsAlone
  <1>8. IInv' /\ LeavesCallsAlone
    BY <1>3, <1>4, <1>5, <1>6, <1>7 DEF OthersAct
  <1> QED BY <1>1, <1>2, <1>8, OthersKeepFInv

-----------------------------------------------------------------------------
(* The theorems *)

(***************************************************************************)
(* Every step keeps the invariant.                                         *)
(***************************************************************************)
LEMMA FNextKeepsFInv == FInv /\ [FNext]_allVars => FInv'
  <1> SUFFICES ASSUME FInv, [FNext]_allVars
               PROVE  FInv'
    OBVIOUS
  <1>1. ASSUME NEW c \in Call,
               TakeLock(c) \/ ReadParameters(c) \/ Snapshot(c) \/ Refuse(c)
        PROVE  FInv'
    BY <1>1, PreflightKeepsFInv
  <1>2. ASSUME NEW c \in Call, Submit(c)
        PROVE  FInv'
    BY <1>2, SubmitKeepsFInv
  <1>3. ASSUME NEW c \in Call, Found(c)
        PROVE  FInv'
    BY <1>3, FoundKeepsFInv
  <1>4. ASSUME NEW c \in Call, Ambiguous(c) \/ PollTimesOut(c) \/ PollReadFails(c)
        PROVE  FInv'
    BY <1>4, PollingFailsKeepsFInv
  <1>5. ASSUME NEW c \in Call, Deliver(c)
        PROVE  FInv'
    BY <1>5, DeliverKeepsFInv
  <1>6. CASE OthersAct
    BY <1>6, OthersActKeepsFInv
  <1>7. CASE Restart
    BY <1>7, RestartKeepsFInv
  <1>8. CASE UNCHANGED allVars
    <2>1. UNCHANGED <<vars, lastStamp, made, calls, lock>>
      BY <1>8 DEF allVars, callVars
    <2>2. CallsTyped'
      BY <2>1 DEF FInv, CallsTyped
    <2>3. \A c \in Call : QuietFor(c)
      BY <2>1 DEF QuietFor
    <2> QED BY <2>1, <2>2, <2>3, QuietStep
  <1> QED BY <1>1, <1>2, <1>3, <1>4, <1>5, <1>6, <1>7, <1>8 DEF FNext

(***************************************************************************)
(* One call per treasury at a time, no id returned twice, and every id     *)
(* returned the caller's own or one of its custodian's for the same        *)
(* top-up that no one was told of: for any number of calls, messages that  *)
(* arrive late or never, other custodians, owner updates and restarts.     *)
(***************************************************************************)
THEOREM TopUpsStayApart == FSpec => []TopUpsKeptApart
  <1>1. FInv => TopUpsKeptApart
    <2> SUFFICES ASSUME FInv
                 PROVE  TopUpsKeptApart
      OBVIOUS
    <2>1. \A c \in Call : /\ calls[c].pc \in Running \cup {"idle", "failed", "done"}
                         /\ calls[c].before \subseteq Nat
                         /\ calls[c].id \in Nat
      BY DEF FInv, CallsTyped, CallRecord
    <2>2. {c \in Call : calls[c].pc \in Running} = {lock} \ {Nobody}
      BY CallAssumption DEF FInv, CallsTyped
    <2>3. CorrelationIsSound
      BY DEF FInv, Correlated, CorrelationIsSound
    <2> QED BY <2>1, <2>2, <2>3 DEF FInv, CallsOK, TopUpsKeptApart
  <1> QED BY <1>1, FInitEstablishesFInv, FNextKeepsFInv, PTL DEF FSpec

-----------------------------------------------------------------------------
(* The promise of the preflight *)

Sends(c) ==
  \/ calls[c].pc \in {"snapshot", "submit", "poll"}
  \/ calls[c].stamp # 0

(* Whoever sends has read a quorum of two or more. *)
SendsGoverned == \A c \in Call : Sends(c) => Governed(calls[c].req)

(***************************************************************************)
(* Only the execution of its message lands a call, and only the preflight  *)
(* lets one send, or changes what it has read.                             *)
(***************************************************************************)
LEMMA CallMoves ==
  ASSUME FInv, [FNext]_allVars, NEW d \in Call
  PROVE  /\ calls'[d].landed # calls[d].landed => Deliver(d)
         /\ Sends(d)' => \/ Sends(d) /\ calls'[d].req = calls[d].req
                         \/ Governed(calls'[d].req)
  <1> DEFINE stays == calls'[d].landed = calls[d].landed
             goes == Sends(d)' => \/ Sends(d) /\ calls'[d].req = calls[d].req
                                  \/ Governed(calls'[d].req)
  <1>1. calls \in [Call -> CallRecord]
    BY DEF FInv, CallsTyped
  <1>2. ASSUME NEW c \in Call, NEW pc \in Running \cup {"idle", "failed", "done"},
               Goto(c, pc), Sends(c) \/ pc \notin {"snapshot", "submit", "poll"}
        PROVE  stays /\ goes
    <2>1. /\ \A e \in Call \ {c} : calls'[e] = calls[e]
          /\ calls'[c].pc = pc /\ calls'[c].req = calls[c].req
          /\ calls'[c].stamp = calls[c].stamp /\ calls'[c].landed = calls[c].landed
      BY <1>2, GotoMoves DEF FInv
    <2> QED BY <1>2, <2>1 DEF Sends
  <1>3. ASSUME NEW c \in Call, Fail(c)
        PROVE  stays /\ goes
    BY <1>2, <1>3 DEF Fail
  <1>4. ASSUME NEW c \in Call, TakeLock(c)
        PROVE  stays /\ goes
    BY <1>2, <1>4 DEF TakeLock, Running, Preflight
  <1>5. ASSUME NEW c \in Call, ReadParameters(c)
        PROVE  stays /\ goes
    <2>1. CASE Fail(c)
      BY <1>3, <2>1
    <2>2. CASE ~Fail(c)
      <3>1. /\ \A e \in Call \ {c} : calls'[e] = calls[e]
            /\ Governed(calls'[c].req) /\ calls'[c].landed = calls[c].landed
        BY <1>5, <2>2, ParametersRead
      <3> QED BY <3>1 DEF Sends
    <2> QED BY <2>1, <2>2
  <1>6. ASSUME NEW c \in Call, Snapshot(c)
        PROVE  stays /\ goes
    <2>1. /\ calls[c].pc = "snapshot"
          /\ calls' = [calls EXCEPT ![c].pc = "submit",
                                    ![c].before = DOMAIN m_transactions]
      BY <1>6 DEF Snapshot, At
    <2>2. /\ calls'[d].stamp = calls[d].stamp /\ calls'[d].landed = calls[d].landed
          /\ calls'[d].req = calls[d].req /\ (d # c => calls'[d].pc = calls[d].pc)
      BY <1>1, <2>1 DEF CallRecord
    <2> QED BY <2>1, <2>2 DEF Sends
  <1>7. ASSUME NEW c \in Call, Submit(c)
        PROVE  stays /\ goes
    <2>1. /\ calls[c].pc = "submit"
          /\ \E pc \in {"poll", "failed"} :
               calls' = [calls EXCEPT ![c].pc = pc, ![c].sentAt = now,
                                      ![c].stamp = NextStamp]
      BY <1>7 DEF Submit, At
    <2>2. /\ calls'[d].landed = calls[d].landed /\ calls'[d].req = calls[d].req
          /\ d # c => calls'[d].pc = calls[d].pc /\ calls'[d].stamp = calls[d].stamp
      <3> HIDE DEF NextStamp
      <3> QED BY <1>1, <2>1 DEF CallRecord
    <2> QED BY <2>1, <2>2 DEF Sends
  <1>8. ASSUME NEW c \in Call, Found(c)
        PROVE  stays /\ goes
    <2>1. /\ calls[c].pc = "poll"
          /\ \E id : calls' = [calls EXCEPT ![c].pc = "done", ![c].id = id]
      BY <1>8 DEF Found, At
    <2>2. /\ calls'[d].stamp = calls[d].stamp /\ calls'[d].landed = calls[d].landed
          /\ calls'[d].req = calls[d].req /\ (d # c => calls'[d].pc = calls[d].pc)
      BY <1>1, <2>1 DEF CallRecord
    <2> QED BY <2>1, <2>2 DEF Sends
  <1>9. ASSUME NEW c \in Call, Refuse(c) \/ Ambiguous(c) \/ PollTimesOut(c) \/ PollReadFails(c)
        PROVE  stays /\ goes
    BY <1>3, <1>9 DEF Refuse, Ambiguous, PollTimesOut, PollReadFails
  <1>10. ASSUME NEW c \in Call, Deliver(c)
         PROVE  (calls'[d].landed # calls[d].landed => Deliver(d)) /\ goes
    <2>1. calls' = [calls EXCEPT ![c].landed = TRUE]
      BY <1>10 DEF Deliver
    <2>2. /\ calls'[d].pc = calls[d].pc /\ calls'[d].stamp = calls[d].stamp
          /\ calls'[d].req = calls[d].req
          /\ d # c => calls'[d].landed = calls[d].landed
      BY <1>1, <2>1 DEF CallRecord
    <2> QED BY <1>10, <2>2 DEF Sends
  <1>11. ASSUME OthersAct \/ UNCHANGED allVars
         PROVE  stays /\ goes
    <2>1. calls' = calls
      BY <1>11 DEF OthersAct, allVars, callVars
    <2> QED BY <2>1 DEF Sends
  <1>12. ASSUME Restart
         PROVE  stays /\ goes
    <2>1. calls'[d] = IF calls[d].pc \in Running THEN [calls[d] EXCEPT !.pc = "failed"]
                                                 ELSE calls[d]
      BY <1>12 DEF Restart
    <2>2. /\ calls'[d].stamp = calls[d].stamp /\ calls'[d].landed = calls[d].landed
          /\ calls'[d].pc \in {calls[d].pc, "failed"} /\ calls'[d].req = calls[d].req
      BY <1>1, <2>1 DEF CallRecord
    <2> QED BY <2>2 DEF Sends
  <1> QED BY <1>4, <1>5, <1>6, <1>7, <1>8, <1>9, <1>10, <1>11, <1>12 DEF FNext

(***************************************************************************)
(* A top-up is released by the signature of its own submit, however late   *)
(* that is executed, only if the quorum has been lowered since the call's  *)
(* preflight read it: for any number of calls and custodians and whatever  *)
(* the owners agree to.                                                    *)
(***************************************************************************)
THEOREM SubmitNeverReleases == FSpec => NeverReleasedBySubmit
  <1>1. FInit => SendsGoverned
    BY DEF FInit, SendsGoverned, Sends
  <1>2. ASSUME FInv, SendsGoverned, [FNext]_allVars
        PROVE  SendsGoverned'
    <2>1. ASSUME NEW c \in Call, Sends(c)'
          PROVE  Governed(calls'[c].req)
      BY <1>2, <2>1, CallMoves DEF SendsGoverned
    <2> QED BY <2>1 DEF SendsGoverned, Governed
  <1>3. ASSUME FInv, SendsGoverned, [FNext]_allVars,
               NEW c \in Call, ReleasedBySubmit(c)
        PROVE  m_config.req < calls[c].req
    <2>1. Deliver(c) /\ sent' # NothingSent
      BY <1>3, CallMoves DEF ReleasedBySubmit
    <2>2. /\ calls[c].stamp \in Nat /\ lastStamp \in Nat /\ calls[c].req \in Nat
          /\ calls[c].stamp > lastStamp
      BY <1>3, <2>1 DEF Deliver, FInv, CallsTyped, CallRecord
    <2>3. calls[c].req >= 2
      BY <1>3, <2>2 DEF SendsGoverned, Sends, Governed
    <2>4. m_config.req = 1
      BY <1>3, <2>1, SubmissionGrows DEF Deliver, FInv
    <2> QED BY <2>2, <2>3, <2>4
  <1>4. FInv /\ SendsGoverned /\ [FNext]_allVars =>
          [\A c \in Call : ReleasedBySubmit(c) => m_config.req < calls[c].req]_allVars
    BY <1>3
  <1> QED BY <1>1, <1>2, <1>4, FInitEstablishesFInv, FNextKeepsFInv, PTL
          DEF FSpec, NeverReleasedBySubmit
=============================================================================
