--------------------------- MODULE SpendPolicyProofs ---------------------------
(***************************************************************************)
(* Proofs about SpendPolicy for every set of policies, callers, accounts   *)
(* and amounts, and wallets of any size.                                   *)
(***************************************************************************)
EXTENDS SpendPolicy, FiniteSetTheorems, TLAPS

(***************************************************************************)
(* What makes signing c's request right, now and for as long as the wallet *)
(* goes on: a confirmation without a policy is free; one under a policy    *)
(* read a request the wallet has already made, so the request under its id *)
(* is that one or is gone for good.                                        *)
(***************************************************************************)
JustifiedIn(c, requests, next) ==
  IF c.kind = "confirm"
  THEN \/ NoPolicy \in c.inForce
       \/ /\ c.what.id < next
          /\ c.what.id \in DOMAIN requests =>
               \E p \in c.inForce :
                 Honours(p, requests[c.what.id].body.dest,
                         ConfirmAmount(requests[c.what.id].body))
  ELSE \E p \in c.inForce : Honours(p, c.what.dest, SubmitAmount(c.kind, c.what))

Justified(c) == JustifiedIn(c, queue, nextId)

CallInv(h) ==
  calls[h] # Idle =>
    /\ stored \in calls[h].inForce
    /\ calls[h].step = "read" =>
         /\ calls[h].kind = "confirm"
         /\ calls[h].found \in Policy \cap calls[h].inForce
    /\ calls[h].step = "sign" => Justified(calls[h])

SpendInv ==
  /\ TypeOK
  /\ \A h \in Handler : CallInv(h)
  /\ \A m \in inflight : Justified(m)

(***************************************************************************)
(* A request of a set call that found nothing outstanding is the only one  *)
(* memory can act on until the next one is made.                           *)
(***************************************************************************)
SetInv ==
  /\ told # Nobody => setter = Nobody /\ late = {} /\ stored = told
  /\ setter # Nobody /\ setter.alone =>
       late = {} /\ (setter.done => stored = setter.policy)

(***************************************************************************)
(* The wallet makes new requests under new ids and alters none.            *)
(***************************************************************************)
GoesOn(requests, next, requests2, next2) ==
  /\ next \in Int /\ next2 \in Int /\ next <= next2
  /\ DOMAIN requests \subseteq Int /\ DOMAIN requests2 \subseteq Int
  /\ \A id \in DOMAIN requests2 :
       id < next => /\ id \in DOMAIN requests
                    /\ requests2[id].body = requests[id].body

-----------------------------------------------------------------------------
(***************************************************************************)
(* Lemmas about the policy: amounts have their type, and the check of the  *)
(* code admits only what the policy means.                                 *)
(***************************************************************************)
LEMMA Amounts ==
  ASSUME NEW body \in Body, NEW kind
  PROVE  SubmitAmount(kind, body) \in Amount /\ ConfirmAmount(body) \in Amount
BY DEF Body, SubmitAmount, ConfirmAmount

LEMMA PolicyFields ==
  ASSUME NEW p \in Policy
  PROVE  /\ p.tier \in {"standard", "frozen"}
         /\ p.max \in Amount \cup {NoLimit, Unreadable}
         /\ p.allowed \in SUBSET Dest /\ p.blocked \in SUBSET Dest
BY SpendAssumption DEF SpendAssumption

LEMMA CheckHonours ==
  ASSUME NEW p \in Policy, NEW dest \in Dest, NEW amount \in Amount,
         Permits(p, dest, amount)
  PROVE  Honours(p, dest, amount)
<1>1. p.max \in Amount => ParseLimit(p.max) = p.max /\ p.max # NoLimit
  BY SpendAssumption DEF SpendAssumption, ParseLimit
<1>2. p.max \in Amount => p.max >= amount
  BY <1>1, SpendAssumption DEF Permits, SpendAssumption, Amount
<1>3. p.tier = "standard"
  BY PolicyFields DEF Permits
<1> QED
  BY <1>2, <1>3 DEF Permits, Honours

(***************************************************************************)
(* What is justified stays so while policies come into force and the       *)
(* wallet goes on.                                                         *)
(***************************************************************************)
LEMMA JustifiedStays ==
  ASSUME NEW c, NEW d, NEW requests, NEW next, NEW requests2, NEW next2,
         JustifiedIn(c, requests, next),
         d.kind = c.kind, d.what = c.what, c.inForce \subseteq d.inForce,
         d.kind = "confirm" => d.what \in [id : TxId],
         GoesOn(requests, next, requests2, next2)
  PROVE  JustifiedIn(d, requests2, next2)
<1>1. CASE d.kind # "confirm"
  BY <1>1 DEF JustifiedIn
<1>2. CASE d.kind = "confirm"
  <2>1. d.what.id \in Int
    BY <1>2 DEF TxId
  <2>2. CASE NoPolicy \in c.inForce
    BY <1>2, <2>2 DEF JustifiedIn
  <2>3. CASE NoPolicy \notin c.inForce
    <3>1. /\ d.what.id < next
          /\ d.what.id \in DOMAIN requests =>
               \E p \in c.inForce :
                 Honours(p, requests[d.what.id].body.dest,
                         ConfirmAmount(requests[d.what.id].body))
      BY <1>2, <2>3 DEF JustifiedIn
    <3>2. d.what.id < next2
      BY <2>1, <3>1 DEF GoesOn
    <3>3. ASSUME d.what.id \in DOMAIN requests2
          PROVE  /\ d.what.id \in DOMAIN requests
                 /\ requests2[d.what.id].body = requests[d.what.id].body
      BY <3>1, <3>3 DEF GoesOn
    <3> QED
      BY <1>2, <3>1, <3>2, <3>3 DEF JustifiedIn
  <2> QED
    BY <2>2, <2>3
<1> QED
  BY <1>1, <1>2

-----------------------------------------------------------------------------
(***************************************************************************)
(* Type correctness.                                                       *)
(***************************************************************************)
PolicyTyped ==
  /\ stored \in Policies
  /\ setter \in {Nobody} \cup [policy : Policy, done : BOOLEAN, alone : BOOLEAN]
  /\ late \subseteq Policy
  /\ told \in Policy \cup {Nobody}

CallTyped(c) == c \in Call /\ c.what \in Task(c.kind)

CallsTyped ==
  /\ calls \in [Handler -> Call \cup {Idle}]
  /\ \A h \in Handler : calls[h] # Idle => CallTyped(calls[h])

InflightTyped ==
  /\ inflight \subseteq Message
  /\ \A m \in inflight : m.what \in Task(m.kind)

RequestTyped(request) ==
  /\ request.body \in Body
  /\ request.voters \in (SUBSET Custodian) \ {{}}
  /\ Cardinality(request.voters) < REQ

QueueTyped ==
  /\ nextId \in 1..MAX_TX + 1
  /\ DOMAIN queue \subseteq 1..nextId - 1
  /\ \A id \in DOMAIN queue : RequestTyped(queue[id])

LEMMA TypeParts ==
  TypeOK <=> PolicyTyped /\ CallsTyped /\ InflightTyped /\ QueueTyped
BY DEF TypeOK, PolicyTyped, CallsTyped, CallTyped, InflightTyped, QueueTyped,
       RequestTyped

(* A step of one call changes no other call. *)
LEMMA OneCallTyped ==
  ASSUME CallsTyped, NEW h \in Handler, NEW c,
         CallTyped(c) \/ c = Idle,
         calls' = [calls EXCEPT ![h] = c]
  PROVE  CallsTyped'
BY DEF CallsTyped, CallTyped

LEMMA BeginTyped ==
  ASSUME PolicyTyped, CallsTyped, NEW h \in Handler, NEW kind \in Kind,
         NEW role \in Role, NEW what \in Task(kind), Begin(h, kind, role, what)
  PROVE  CallsTyped'
<1> DEFINE c == [kind |-> kind, role |-> role, what |-> what, step |-> "lookup",
                 found |-> NoPolicy, inForce |-> {stored}]
<1>1. CallTyped(c)
  BY DEF PolicyTyped, CallTyped, Call, What, Task, Policies
<1>2. calls' = [calls EXCEPT ![h] = c]
  BY DEF Begin
<1> QED
  BY <1>1, <1>2 DEF CallsTyped, CallTyped

LEMMA StepTyped ==
  ASSUME CallsTyped, NEW h \in Handler, NEW step \in {"lookup", "read", "sign"},
         calls[h] # Idle, Goto(h, step)
  PROVE  CallsTyped'
<1>1. CallTyped(calls[h])
  BY DEF CallsTyped
<1>2. CallTyped([calls[h] EXCEPT !.step = step])
  BY <1>1 DEF CallTyped, Call
<1>3. calls' = [calls EXCEPT ![h] = [calls[h] EXCEPT !.step = step]]
  BY DEF Goto, CallsTyped
<1> QED
  BY <1>2, <1>3 DEF CallsTyped, CallTyped

LEMMA ReturnTyped ==
  ASSUME CallsTyped, NEW h \in Handler, Return(h)
  PROVE  CallsTyped'
BY DEF CallsTyped, CallTyped, Return

LEMMA IngestTyped ==
  ASSUME CallsTyped, NEW p \in Policy, Ingest(p)
  PROVE  CallsTyped'
<1>1. \A h \in Handler : calls[h] # Idle =>
        CallTyped([calls[h] EXCEPT !.inForce = @ \cup {p}])
  BY DEF CallsTyped, CallTyped, Call, Policies
<1>2. calls' = [h \in Handler |->
                  IF calls[h] = Idle THEN Idle
                  ELSE [calls[h] EXCEPT !.inForce = @ \cup {p}]]
  BY DEF Ingest
<1> QED
  BY <1>1, <1>2 DEF CallsTyped, CallTyped

(* A vote keeps the queue typed: below the quorum it stays, else it goes. *)
LEMMA VoteTyped ==
  ASSUME QueueTyped, NEW id \in TxId, id < nextId', nextId' \in 1..MAX_TX + 1,
         nextId <= nextId', NEW body \in Body,
         NEW voters \in (SUBSET Custodian) \ {{}}, Vote(id, body, voters)
  PROVE  QueueTyped'
<1>1. Cardinality(voters) \in Int /\ REQ \in Int
  <2>1. IsFiniteSet(voters) /\ Cardinality(Custodian) \in Nat
    BY SpendAssumption, FS_Subset, FS_CardinalityType DEF SpendAssumption
  <2> QED
    BY <2>1, SpendAssumption, FS_CardinalityType DEF SpendAssumption
<1>2. nextId \in Int /\ DOMAIN queue \subseteq 1..nextId' - 1
  BY SpendAssumption DEF QueueTyped, SpendAssumption
<1>3. CASE Cardinality(voters) >= REQ
  <2>1. queue' = Without(id)
    BY <1>3 DEF Vote
  <2> QED
    BY <1>2, <2>1 DEF QueueTyped, Without, RequestTyped
<1>4. CASE ~(Cardinality(voters) >= REQ)
  <2> DEFINE request == [body |-> body, voters |-> voters]
  <2>1. queue' = Put(id, request)
    BY <1>4 DEF Vote
  <2>2. RequestTyped(request)
    BY <1>1, <1>4 DEF RequestTyped
  <2>3. DOMAIN queue' \subseteq 1..nextId' - 1
    BY <1>2, <2>1 DEF Put, TxId
  <2>4. \A other \in DOMAIN queue' :
          queue'[other] = IF other = id THEN request ELSE queue[other]
    BY <2>1 DEF Put
  <2>5. \A other \in DOMAIN queue' : other # id => other \in DOMAIN queue
    BY <2>1 DEF Put
  <2> HIDE DEF request
  <2> QED
    BY <2>2, <2>3, <2>4, <2>5 DEF QueueTyped, RequestTyped
<1> QED
  BY <1>3, <1>4

-----------------------------------------------------------------------------
(***************************************************************************)
(* Whatever the wallet does, its queue stays typed and it goes on.         *)
(***************************************************************************)
WalletOK ==
  QueueTyped' /\ GoesOn(queue, nextId, queue', nextId')

LEMMA QueueNumbers ==
  ASSUME QueueTyped
  PROVE  /\ MAX_TX \in Nat /\ nextId \in Nat
         /\ \A id \in DOMAIN queue : id \in Nat /\ id < nextId
BY SpendAssumption DEF QueueTyped, SpendAssumption

LEMMA VoteGoesOn ==
  ASSUME QueueTyped, NEW id \in TxId, NEW body, NEW voters, Vote(id, body, voters),
         nextId' \in Nat, nextId <= nextId',
         id < nextId => id \in DOMAIN queue /\ body = queue[id].body
  PROVE  GoesOn(queue, nextId, queue', nextId')
<1>1. id \in Nat
  BY DEF TxId
<1>2. DOMAIN queue' \subseteq DOMAIN queue \cup {id}
  BY DEF Vote, Without, Put
<1>3. \A other \in DOMAIN queue' :
        other # id => queue'[other] = queue[other]
  BY DEF Vote, Without, Put
<1>4. id \in DOMAIN queue' => queue'[id].body = body
  BY DEF Vote, Without, Put
<1> QED
  BY <1>1, <1>2, <1>3, <1>4, QueueNumbers DEF GoesOn

LEMMA SameWalletOK ==
  ASSUME QueueTyped, UNCHANGED walletVars
  PROVE  WalletOK
<1>1. QueueTyped'
  BY DEF QueueTyped, RequestTyped, walletVars
<1>2. GoesOn(queue, nextId, queue', nextId')
  BY QueueNumbers DEF GoesOn, walletVars
<1> QED
  BY <1>1, <1>2 DEF WalletOK

LEMMA SubmitOK ==
  ASSUME QueueTyped, NEW s \in Custodian, NEW body \in Body, Submit(s, body)
  PROVE  WalletOK
<1> SUFFICES ASSUME REQ # 1
             PROVE  WalletOK
  BY SameWalletOK DEF Submit
<1>1. nextId \in TxId /\ nextId' = nextId + 1 /\ Vote(nextId, Queued(body), {s})
  BY DEF Submit
<1>7. Queued(body) \in Body
  <2>1. 0 \in Amount
    BY SpendAssumption DEF Amount
  <2> QED
    BY <2>1 DEF Queued, Body
<1>2. MAX_TX \in Nat
  BY QueueNumbers
<1>3. nextId' \in 1..MAX_TX + 1 /\ nextId < nextId' /\ nextId <= nextId'
  BY <1>1, <1>2 DEF TxId
<1>4. {s} \in (SUBSET Custodian) \ {{}}
  OBVIOUS
<1>5. QueueTyped'
  BY <1>1, <1>3, <1>4, <1>7, VoteTyped
<1>6. GoesOn(queue, nextId, queue', nextId')
  BY <1>1, <1>2, <1>3, VoteGoesOn DEF TxId
<1> QED
  BY <1>5, <1>6 DEF WalletOK

LEMMA ConfirmOK ==
  ASSUME QueueTyped, NEW s \in Custodian, NEW id, Confirm(s, id)
  PROVE  WalletOK
<1> DEFINE voters == queue[id].voters \cup {s}
           body == queue[id].body
<1>1. /\ id \in DOMAIN queue /\ nextId' = nextId
      /\ Vote(id, body, voters)
  BY DEF Confirm
<1>2. RequestTyped(queue[id]) /\ nextId \in 1..MAX_TX + 1
  BY <1>1 DEF QueueTyped
<1>3. MAX_TX \in Nat /\ nextId \in Nat /\ id \in Nat /\ id < nextId /\ id >= 1
  BY <1>1, QueueNumbers DEF QueueTyped
<1>4. id \in TxId
  BY <1>2, <1>3 DEF TxId
<1>5. voters \in (SUBSET Custodian) \ {{}} /\ body \in Body
  BY <1>2 DEF RequestTyped
<1>6. body = queue[id].body
  OBVIOUS
<1> HIDE DEF voters, body
<1>7. QueueTyped'
  BY <1>1, <1>2, <1>3, <1>4, <1>5, VoteTyped
<1>8. GoesOn(queue, nextId, queue', nextId')
  BY <1>1, <1>3, <1>4, <1>6, VoteGoesOn
<1> QED
  BY <1>7, <1>8 DEF WalletOK

LEMMA LapseOK ==
  ASSUME QueueTyped, NEW id, Lapse(id)
  PROVE  WalletOK
<1>1. queue' = Without(id) /\ nextId' = nextId
  BY DEF Lapse
<1>2. QueueTyped'
  BY <1>1 DEF QueueTyped, RequestTyped, Without
<1>3. GoesOn(queue, nextId, queue', nextId')
  BY <1>1, QueueNumbers DEF GoesOn, Without
<1> QED
  BY <1>2, <1>3 DEF WalletOK

LEMMA WalletSteps ==
  ASSUME TypeOK, [Next]_vars
  PROVE  WalletOK
<1>1. QueueTyped /\ InflightTyped /\ \A body \in Asked : body \in Body
  BY TypeParts, SpendAssumption DEF SpendAssumption
<1>2. ASSUME NEW m \in inflight, Execute(m)
      PROVE  WalletOK
  <2>1. m.role \in Custodian /\ m.what \in Task(m.kind)
    BY <1>1 DEF InflightTyped, Message, Custodian
  <2>2. CASE m.kind = "confirm"
    BY <1>1, <1>2, <2>1, <2>2, ConfirmOK DEF Execute
  <2>3. CASE m.kind # "confirm"
    BY <1>1, <1>2, <2>1, <2>3, SubmitOK DEF Execute, Task
  <2> QED
    BY <2>2, <2>3
<1>3. ASSUME StrangerActs
      PROVE  WalletOK
  BY <1>1, <1>3, SubmitOK, ConfirmOK DEF StrangerActs, Custodian
<1>4. ASSUME NEW id \in DOMAIN queue, Lapse(id)
      PROVE  WalletOK
  BY <1>1, <1>4, LapseOK
<1>5. CASE UNCHANGED walletVars
  BY <1>1, <1>5, SameWalletOK
<1> QED
  BY <1>2, <1>3, <1>4, <1>5 DEF Next, vars, SetPolicy, IngestAsked, IngestLate,
     Ingest, PolicySet, PolicyNotSet, SendTransaction, Forward,
     ConfirmTransaction, Begin, LookUpForSubmit, LookUpForConfirm, ReadQueued,
     Sign, Fails, Lost

(***************************************************************************)
(* A step of call h, or a step that is no call's and brings no policy.     *)
(***************************************************************************)
CallStep(h) ==
  \/ \E role \in Role :
       \/ \E body \in Asked : SendTransaction(h, role, body) \/ Forward(h, role, body)
       \/ \E id \in TxId : ConfirmTransaction(h, role, id)
  \/ LookUpForSubmit(h) \/ LookUpForConfirm(h) \/ ReadQueued(h)
  \/ Sign(h) \/ Fails(h)

PolicyStep == IngestAsked \/ IngestLate

OtherStep ==
  /\ UNCHANGED <<calls, stored>>
  /\ inflight' \subseteq inflight

LEMMA Steps ==
  ASSUME [Next]_vars
  PROVE  (\E h \in Handler : CallStep(h)) \/ PolicyStep \/ OtherStep
BY DEF Next, CallStep, PolicyStep, OtherStep, vars, policyVars, SetPolicy, PolicySet,
       PolicyNotSet, Execute, Lost, StrangerActs, Lapse

LEMMA PolicyStepTyped ==
  ASSUME PolicyTyped, [Next]_vars
  PROVE  PolicyTyped'
<1>1. \A p \in Change : p \in Policy
  BY SpendAssumption DEF SpendAssumption
<1>2. CASE UNCHANGED policyVars
  BY <1>2 DEF PolicyTyped, policyVars
<1>3. ASSUME NEW p \in Change, SetPolicy(p)
      PROVE  PolicyTyped'
  BY <1>1, <1>3 DEF PolicyTyped, SetPolicy
<1>4. CASE IngestAsked
  BY <1>4 DEF PolicyTyped, IngestAsked, Ingest, Policies
<1>5. CASE IngestLate
  BY <1>5 DEF PolicyTyped, IngestLate, Ingest, Policies
<1>6. CASE PolicySet
  BY <1>6 DEF PolicyTyped, PolicySet, Report
<1>7. CASE PolicyNotSet
  BY <1>7 DEF PolicyTyped, PolicyNotSet
<1> QED
  BY <1>2, <1>3, <1>4, <1>5, <1>6, <1>7 DEF Next, vars, SendTransaction, Forward,
     ConfirmTransaction, Begin, LookUpForSubmit, LookUpForConfirm, ReadQueued,
     Sign, Fails, Execute, Lost, StrangerActs, Lapse

LEMMA IngestedPolicy ==
  ASSUME PolicyTyped, PolicyStep
  PROVE  /\ \E p \in Policy : Ingest(p)
         /\ UNCHANGED <<inflight, walletVars>>
BY DEF PolicyTyped, PolicyStep, IngestAsked, IngestLate, Ingest

LEMMA CallStepTyped ==
  ASSUME PolicyTyped, CallsTyped, NEW h \in Handler, CallStep(h)
  PROVE  CallsTyped'
<1>1. \A body \in Asked : body \in Body
  BY SpendAssumption DEF SpendAssumption
<1>2. ASSUME NEW role \in Role, NEW body \in Asked,
             SendTransaction(h, role, body) \/ Forward(h, role, body)
      PROVE  CallsTyped'
  <2>1. body \in Task("send") /\ body \in Task("forward")
    BY <1>1 DEF Task
  <2> QED
    BY <1>2, <2>1, BeginTyped DEF SendTransaction, Forward, Kind
<1>3. ASSUME NEW role \in Role, NEW id \in TxId, ConfirmTransaction(h, role, id)
      PROVE  CallsTyped'
  <2>1. [id |-> id] \in Task("confirm")
    BY DEF Task
  <2> QED
    BY <1>3, <2>1, BeginTyped DEF ConfirmTransaction, Kind
<1>4. CASE LookUpForSubmit(h)
  BY <1>4, StepTyped, ReturnTyped DEF LookUpForSubmit, At
<1>5. CASE LookUpForConfirm(h)
  <2>1. CASE /\ stored # NoPolicy /\ stored.tier # "frozen"
             /\ calls' = [calls EXCEPT ![h] =
                            [@ EXCEPT !.step = "read", !.found = stored]]
    <3> DEFINE c == [calls[h] EXCEPT !.step = "read", !.found = stored]
    <3>1. CallTyped(calls[h])
      BY <1>5 DEF CallsTyped, LookUpForConfirm, At
    <3>2. CallTyped(c)
      BY <3>1 DEF CallTyped, Call, PolicyTyped
    <3>3. calls' = [calls EXCEPT ![h] = c]
      BY <2>1 DEF CallsTyped
    <3> QED
      BY <3>2, <3>3 DEF CallsTyped, CallTyped
  <2> QED
    BY <1>5, <2>1, StepTyped, ReturnTyped DEF LookUpForConfirm, At, Unrestricted
<1>6. CASE ReadQueued(h)
  BY <1>6, StepTyped, ReturnTyped DEF ReadQueued, At
<1>7. CASE Sign(h) \/ Fails(h)
  BY <1>7, ReturnTyped DEF Sign, Fails
<1> QED
  BY <1>2, <1>3, <1>4, <1>5, <1>6, <1>7 DEF CallStep

(* What Sign makes of a call is a message. *)
Signed(c) == [kind |-> c.kind, role |-> c.role, what |-> c.what, inForce |-> c.inForce]

LEMMA OnlySignSends ==
  ASSUME NEW h \in Handler, CallStep(h)
  PROVE  \/ inflight' = inflight
         \/ /\ At(h, "sign")
            /\ inflight' = inflight \cup {Signed(calls[h])}
BY DEF CallStep, SendTransaction, Forward, ConfirmTransaction, Begin, LookUpForSubmit,
       LookUpForConfirm, ReadQueued, Sign, Fails, Signed

LEMMA TypeStep ==
  ASSUME TypeOK, [Next]_vars
  PROVE  TypeOK'
<1>1. PolicyTyped /\ CallsTyped /\ InflightTyped /\ QueueTyped
  BY TypeParts
<1>2. PolicyTyped' /\ QueueTyped'
  BY <1>1, PolicyStepTyped, WalletSteps DEF WalletOK
<1>3. ASSUME NEW h \in Handler, CallStep(h)
      PROVE  CallsTyped' /\ InflightTyped'
  <2>1. CallsTyped'
    BY <1>1, <1>3, CallStepTyped
  <2>2. ASSUME calls[h] # Idle
        PROVE  Signed(calls[h]) \in Message /\ calls[h].what \in Task(calls[h].kind)
    BY <1>1, <2>2 DEF CallsTyped, CallTyped, Call, Message, Signed
  <2>3. InflightTyped'
    BY <1>1, <1>3, <2>2, OnlySignSends DEF InflightTyped, At, Signed
  <2> QED
    BY <2>1, <2>3
<1>4. ASSUME PolicyStep
      PROVE  CallsTyped' /\ InflightTyped'
  <2>1. PICK p \in Policy : Ingest(p) /\ inflight' = inflight
    BY <1>1, <1>4, IngestedPolicy
  <2> QED
    BY <1>1, <2>1, IngestTyped DEF InflightTyped
<1>5. ASSUME OtherStep
      PROVE  CallsTyped' /\ InflightTyped'
  BY <1>1, <1>5 DEF OtherStep, CallsTyped, CallTyped, InflightTyped
<1>6. (PolicyTyped /\ CallsTyped /\ InflightTyped /\ QueueTyped)'
  BY <1>2, <1>3, <1>4, <1>5, Steps
<1> QED
  BY <1>6 DEF TypeOK, PolicyTyped, CallsTyped, CallTyped, InflightTyped, QueueTyped,
              RequestTyped

LEMMA InitTyped == Init => TypeOK
BY SpendAssumption DEF Init, TypeOK, Policies, SpendAssumption

(***************************************************************************)
(* Every variable of the policy, the calls, the messages and the wallet    *)
(* stays in its type (tools.rs, memory.rs, the queue of the wallet).       *)
(***************************************************************************)
THEOREM TypeCorrect == Spec => []TypeOK
BY InitTyped, TypeStep, PTL DEF Spec

-----------------------------------------------------------------------------
(***************************************************************************)
(* Signing within the policy.                                              *)
(***************************************************************************)
CallsInv == \A h \in Handler : CallInv(h)
InflightInv == \A m \in inflight : Justified(m)

(* A message is as justified as the call that signed it. *)
LEMMA SignedJustified ==
  ASSUME NEW c, NEW requests, NEW next, JustifiedIn(c, requests, next)
  PROVE  JustifiedIn(Signed(c), requests, next)
BY DEF JustifiedIn, Signed, SubmitAmount

(* What a call justified, and a message, outlive a step that alters neither. *)
LEMMA SameCallStays ==
  ASSUME TypeOK, [Next]_vars, NEW h \in Handler, CallInv(h),
         calls'[h] = calls[h], stored' = stored
  PROVE  CallInv(h)'
<1>1. CASE calls[h] = Idle
  BY <1>1 DEF CallInv
<1>2. CASE calls[h] # Idle
  <2>1. calls[h].kind = "confirm" => calls[h].what \in [id : TxId]
    BY <1>2, TypeParts DEF CallsTyped, CallTyped, Task
  <2>2. GoesOn(queue, nextId, queue', nextId')
    BY WalletSteps DEF WalletOK
  <2>3. ASSUME calls[h].step = "sign"
        PROVE  JustifiedIn(calls[h], queue', nextId')
    <3>1. JustifiedIn(calls[h], queue, nextId)
      BY <1>2, <2>3 DEF CallInv, Justified
    <3> QED
      BY <2>1, <2>2, <3>1, JustifiedStays
  <2> QED
    BY <1>2, <2>3 DEF CallInv, Justified
<1> QED
  BY <1>1, <1>2

LEMMA MessagesStay ==
  ASSUME TypeOK, [Next]_vars, NEW m \in inflight, Justified(m)
  PROVE  JustifiedIn(m, queue', nextId')
<1>1. m.kind = "confirm" => m.what \in [id : TxId]
  BY TypeParts DEF InflightTyped, Task
<1>2. GoesOn(queue, nextId, queue', nextId')
  BY WalletSteps DEF WalletOK
<1>3. JustifiedIn(m, queue, nextId)
  BY DEF Justified
<1> QED
  BY <1>1, <1>2, <1>3, JustifiedStays

(* The two checks of the code, and what they establish. *)
LEMMA SubmitCheck ==
  ASSUME TypeOK, NEW h \in Handler, CallInv(h), LookUpForSubmit(h)
  PROVE  \/ Return(h)
         \/ /\ Goto(h, "sign")
            /\ Justified(calls[h])
<1> DEFINE c == calls[h]
<1>1. /\ c # Idle /\ c.kind \in {"send", "forward"}
      /\ \/ Return(h)
         \/ /\ Goto(h, "sign")
            /\ \/ stored = NoPolicy
               \/ Permits(stored, c.what.dest, SubmitAmount(c.kind, c.what))
  BY DEF LookUpForSubmit, At, Unrestricted
<1>2. c.what \in Body /\ stored \in Policies /\ stored \in c.inForce
  BY <1>1, TypeParts DEF CallsTyped, CallTyped, Task, PolicyTyped, CallInv
<1>3. SubmitAmount(c.kind, c.what) \in Amount /\ c.what.dest \in Dest
  BY <1>2, Amounts DEF Body
<1>4. ASSUME stored # NoPolicy, Permits(stored, c.what.dest, SubmitAmount(c.kind, c.what))
      PROVE  Honours(stored, c.what.dest, SubmitAmount(c.kind, c.what))
  BY <1>2, <1>3, <1>4, CheckHonours DEF Policies
<1>5. stored = NoPolicy => Honours(stored, c.what.dest, SubmitAmount(c.kind, c.what))
  BY DEF Honours
<1> HIDE DEF c
<1>6. Goto(h, "sign") /\ ~Return(h) => JustifiedIn(c, queue, nextId)
  BY <1>1, <1>2, <1>4, <1>5 DEF JustifiedIn
<1> QED
  BY <1>1, <1>6 DEF Justified, c

LEMMA ConfirmCheck ==
  ASSUME TypeOK, NEW h \in Handler, CallInv(h), ReadQueued(h)
  PROVE  \/ Return(h)
         \/ /\ Goto(h, "sign")
            /\ Justified(calls[h])
<1> DEFINE c == calls[h]
           body == queue[c.what.id].body
<1>1. /\ c # Idle /\ c.step = "read"
      /\ \/ Return(h)
         \/ /\ Goto(h, "sign")
            /\ c.what.id \in DOMAIN queue
            /\ Permits(c.found, body.dest, ConfirmAmount(body))
  BY DEF ReadQueued, At
<1>2. c.kind = "confirm" /\ c.found \in Policy /\ c.found \in c.inForce
  BY <1>1 DEF CallInv
<1>3. ASSUME c.what.id \in DOMAIN queue
      PROVE  body \in Body /\ body.dest \in Dest /\ c.what.id < nextId
  BY <1>3, TypeParts, QueueNumbers DEF QueueTyped, RequestTyped, Body
<1>4. ASSUME c.what.id \in DOMAIN queue, Permits(c.found, body.dest, ConfirmAmount(body))
      PROVE  Honours(c.found, body.dest, ConfirmAmount(body))
  <2>1. ConfirmAmount(body) \in Amount
    BY <1>3, <1>4, Amounts
  <2> HIDE DEF body
  <2> QED
    BY <1>2, <1>3, <1>4, <2>1, CheckHonours
<1>5. Goto(h, "sign") /\ ~Return(h) => JustifiedIn(c, queue, nextId)
  BY <1>1, <1>2, <1>3, <1>4 DEF JustifiedIn
<1> QED
  BY <1>1, <1>5 DEF Justified

LEMMA FreeConfirm ==
  ASSUME TypeOK, NEW h \in Handler, CallInv(h), LookUpForConfirm(h)
  PROVE  \/ Return(h)
         \/ /\ Goto(h, "sign")
            /\ Justified(calls[h])
         \/ /\ calls[h].kind = "confirm"
            /\ stored \in Policy \cap calls[h].inForce
            /\ calls' = [calls EXCEPT ![h] = [@ EXCEPT !.step = "read", !.found = stored]]
<1>1. calls[h].kind = "confirm" /\ stored \in Policies /\ stored \in calls[h].inForce
  BY TypeParts DEF LookUpForConfirm, At, PolicyTyped, CallInv
<1>2. stored = NoPolicy => Justified(calls[h])
  BY <1>1 DEF Justified, JustifiedIn
<1> QED
  BY <1>1, <1>2 DEF LookUpForConfirm, Policies, Unrestricted

LEMMA CallStepFrame ==
  ASSUME CallsTyped, NEW h \in Handler, CallStep(h)
  PROVE  /\ UNCHANGED <<stored, queue, nextId>>
         /\ \A other \in Handler \ {h} : calls'[other] = calls[other]
<1>1. PICK c : calls' = [calls EXCEPT ![h] = c]
  <2>1. CASE LookUpForConfirm(h)
    BY <2>1 DEF LookUpForConfirm, Goto, Return
  <2>2. CASE LookUpForSubmit(h) \/ ReadQueued(h)
    BY <2>2 DEF LookUpForSubmit, ReadQueued, Goto, Return
  <2> QED
    BY <2>1, <2>2 DEF CallStep, SendTransaction, Forward, ConfirmTransaction, Begin,
       Sign, Fails, Return
<1>2. UNCHANGED <<stored, queue, nextId>>
  BY DEF CallStep, SendTransaction, Forward, ConfirmTransaction, Begin,
     LookUpForSubmit, LookUpForConfirm, ReadQueued, Sign, Fails, policyVars, walletVars
<1> QED
  BY <1>1, <1>2 DEF CallsTyped

LEMMA ReturnKeeps ==
  ASSUME CallsTyped, NEW h \in Handler, Return(h)
  PROVE  CallInv(h)'
BY DEF CallsTyped, Return, CallInv

LEMMA ToSignKeeps ==
  ASSUME CallsTyped, NEW h \in Handler, calls[h] # Idle, CallInv(h),
         Goto(h, "sign"), Justified(calls[h]), UNCHANGED <<stored, queue, nextId>>
  PROVE  CallInv(h)'
<1>1. calls[h] \in Call
  BY DEF CallsTyped, CallTyped
<1>2. /\ calls'[h].kind = calls[h].kind /\ calls'[h].what = calls[h].what
      /\ calls'[h].inForce = calls[h].inForce /\ calls'[h].step = "sign"
  BY <1>1 DEF CallsTyped, Call, Goto
<1>3. Justified(calls[h])'
  BY <1>2 DEF Justified, JustifiedIn, SubmitAmount
<1> QED
  BY <1>2, <1>3 DEF CallInv

LEMMA ActingCall ==
  ASSUME TypeOK, NEW h \in Handler, CallInv(h), CallStep(h)
  PROVE  CallInv(h)'
<1>1. CallsTyped /\ UNCHANGED <<stored, queue, nextId>>
  BY TypeParts, CallStepFrame
<1>2. ASSUME NEW kind, NEW role, NEW what, Begin(h, kind, role, what)
      PROVE  CallInv(h)'
  BY <1>1, <1>2 DEF Begin, CallInv, CallsTyped
<1>3. CASE LookUpForSubmit(h)
  BY <1>1, <1>3, SubmitCheck, ReturnKeeps, ToSignKeeps DEF LookUpForSubmit, At
<1>4. CASE ReadQueued(h)
  BY <1>1, <1>4, ConfirmCheck, ReturnKeeps, ToSignKeeps DEF ReadQueued, At
<1>5. CASE LookUpForConfirm(h)
  <2>1. CASE /\ calls[h].kind = "confirm"
             /\ stored \in Policy \cap calls[h].inForce
             /\ calls' = [calls EXCEPT ![h] =
                            [@ EXCEPT !.step = "read", !.found = stored]]
    <3>1. calls[h] \in Call
      BY <1>1, <1>5 DEF LookUpForConfirm, At, CallsTyped, CallTyped
    <3>2. /\ calls'[h].kind = calls[h].kind /\ calls'[h].step = "read"
          /\ calls'[h].inForce = calls[h].inForce /\ calls'[h].found = stored
      BY <1>1, <2>1, <3>1 DEF CallsTyped, Call
    <3> QED
      BY <1>1, <2>1, <3>2 DEF CallInv
  <2> QED
    BY <1>1, <1>5, <2>1, FreeConfirm, ReturnKeeps, ToSignKeeps DEF LookUpForConfirm, At
<1>6. CASE Sign(h) \/ Fails(h)
  BY <1>1, <1>6, ReturnKeeps DEF Sign, Fails
<1> QED
  BY <1>2, <1>3, <1>4, <1>5, <1>6 DEF CallStep, SendTransaction, Forward,
     ConfirmTransaction

LEMMA IngestKeeps ==
  ASSUME TypeOK, NEW p \in Policy, Ingest(p), NEW h \in Handler, CallInv(h)
  PROVE  CallInv(h)'
<1>1. CallsTyped /\ UNCHANGED <<queue, nextId>>
  BY TypeParts DEF Ingest, walletVars
<1>2. CASE calls[h] = Idle
  BY <1>1, <1>2 DEF Ingest, CallInv
<1>3. CASE calls[h] # Idle
  <2>1. calls[h] \in Call
    BY <1>1, <1>3 DEF CallsTyped, CallTyped
  <2>2. /\ calls'[h].kind = calls[h].kind /\ calls'[h].what = calls[h].what
        /\ calls'[h].step = calls[h].step /\ calls'[h].found = calls[h].found
        /\ calls'[h].inForce = calls[h].inForce \cup {p} /\ stored' = p
    BY <1>3, <2>1 DEF Ingest, Call
  <2>3. Justified(calls[h]) => Justified(calls[h])'
    BY <1>1, <2>2 DEF Justified, JustifiedIn, SubmitAmount
  <2> QED
    BY <1>3, <2>2, <2>3 DEF CallInv
<1> QED
  BY <1>2, <1>3

LEMMA SpendStep ==
  ASSUME SpendInv, [Next]_vars
  PROVE  SpendInv'
<1>1. TypeOK /\ CallsInv /\ InflightInv /\ TypeOK'
  BY TypeStep DEF SpendInv, CallsInv, InflightInv
<1>2. PolicyTyped /\ CallsTyped
  BY <1>1, TypeParts
<1>3. ASSUME NEW h \in Handler, CallStep(h)
      PROVE  CallsInv' /\ InflightInv'
  <2>1. UNCHANGED <<stored, queue, nextId>>
    BY <1>2, <1>3, CallStepFrame
  <2>2. ASSUME NEW other \in Handler
        PROVE  CallInv(other)'
    BY <1>1, <1>2, <1>3, <2>1, <2>2, CallStepFrame, ActingCall, SameCallStays DEF CallsInv
  <2>3. ASSUME At(h, "sign")
        PROVE  JustifiedIn(Signed(calls[h]), queue', nextId')
    BY <1>1, <2>1, <2>3, SignedJustified DEF At, CallsInv, CallInv, Justified
  <2>4. InflightInv'
    BY <1>1, <1>3, <2>3, OnlySignSends, MessagesStay DEF InflightInv, Justified
  <2> QED
    BY <2>2, <2>4 DEF CallsInv
<1>4. ASSUME PolicyStep
      PROVE  CallsInv' /\ InflightInv'
  <2>1. PICK p \in Policy : Ingest(p) /\ inflight' = inflight
    BY <1>2, <1>4, IngestedPolicy
  <2> QED
    BY <1>1, <2>1, IngestKeeps, MessagesStay DEF CallsInv, InflightInv, Justified
<1>5. ASSUME OtherStep
      PROVE  CallsInv' /\ InflightInv'
  BY <1>1, <1>5, SameCallStays, MessagesStay DEF OtherStep, CallsInv, InflightInv, Justified
<1>6. CallsInv' /\ InflightInv'
  BY <1>3, <1>4, <1>5, Steps
<1> QED
  BY <1>1, <1>6 DEF SpendInv, CallsInv, InflightInv

LEMMA InitSpend == Init => SpendInv
BY InitTyped DEF Init, SpendInv, CallInv

LEMMA SpendSafe ==
  ASSUME SpendInv
  PROVE  SignedWithinPolicy
<1> SUFFICES ASSUME NEW m \in inflight, m.kind = "confirm",
                    m.what.id \in DOMAIN queue
             PROVE  \E p \in m.inForce :
                      Honours(p, queue[m.what.id].body.dest,
                              ConfirmAmount(queue[m.what.id].body))
  BY DEF SpendInv, SignedWithinPolicy, Justified, JustifiedIn
<1>1. Justified(m)
  BY DEF SpendInv
<1>2. NoPolicy \in m.inForce =>
        Honours(NoPolicy, queue[m.what.id].body.dest,
                ConfirmAmount(queue[m.what.id].body))
  BY DEF Honours
<1> QED
  BY <1>1, <1>2 DEF Justified, JustifiedIn

(***************************************************************************)
(* Whatever the policies, however many calls run at once and whenever the  *)
(* wallet executes a message, the tools' signatures vote only for what a   *)
(* policy in force during the call allows (send_transaction,               *)
(* confirm_transaction, enforce_wallet_policy).                            *)
(***************************************************************************)
THEOREM SignaturesObeyThePolicy == Spec => []SignedWithinPolicy
<1>1. SpendInv /\ [Next]_vars => SpendInv'
  BY SpendStep
<1> QED
  BY <1>1, InitSpend, SpendSafe, PTL DEF Spec

-----------------------------------------------------------------------------
(***************************************************************************)
(* Setting the policy.                                                     *)
(***************************************************************************)
LEMMA SetStep ==
  ASSUME TypeOK, SetInv, [Next]_vars
  PROVE  SetInv'
<1>1. PolicyTyped
  BY TypeParts
<1>2. CASE UNCHANGED policyVars
  BY <1>2 DEF SetInv, policyVars
<1>3. ASSUME NEW p \in Change, SetPolicy(p)
      PROVE  SetInv'
  BY <1>3 DEF SetInv, SetPolicy
<1>4. CASE IngestAsked
  BY <1>1, <1>4 DEF SetInv, PolicyTyped, IngestAsked, Ingest
<1>5. CASE IngestLate
  BY <1>5 DEF SetInv, IngestLate, Ingest
<1>6. CASE PolicySet
  BY <1>6 DEF SetInv, PolicySet, Report
<1>7. CASE PolicyNotSet
  BY <1>7 DEF SetInv, PolicyNotSet
<1> QED
  BY <1>2, <1>3, <1>4, <1>5, <1>6, <1>7 DEF Next, vars, SendTransaction, Forward,
     ConfirmTransaction, Begin, LookUpForSubmit, LookUpForConfirm, ReadQueued,
     Sign, Fails, Execute, Lost, StrangerActs, Lapse

(***************************************************************************)
(* A policy reported as stored is the one lookups find, until another is   *)
(* asked for (set_wallet_policy).                                          *)
(***************************************************************************)
THEOREM ReportsAreTrue == Spec => []ReportedPolicyHolds
<1>1. Init => SetInv
  BY DEF Init, SetInv
<1>2. SetInv => ReportedPolicyHolds
  BY DEF SetInv, ReportedPolicyHolds
<1> QED
  BY <1>1, <1>2, InitTyped, TypeStep, SetStep, PTL DEF Spec
=============================================================================
