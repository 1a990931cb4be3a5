------------------------- MODULE SwarmMultisigProofs -------------------------
(***************************************************************************)
(* Proofs about SwarmMultisig for every number of owners, every limit and  *)
(* every clock.                                                            *)
(***************************************************************************)
EXTENDS SwarmMultisig, FiniteSetTheorems, TLAPS

(***************************************************************************)
(* What each queue and its mask satisfy together; next is the id the       *)
(* contract would hand out now.                                            *)
(***************************************************************************)
QueueInv(queue, mask, Body, next) ==
  /\ IsQueue(queue, Body)
  /\ mask \in [CustodianIndex -> Int]
  /\ MaskCovers(mask, queue)
  /\ \A id \in DOMAIN queue : id < next

(***************************************************************************)
(* The requests of one custodian form a finite set of ids.                 *)
(***************************************************************************)
LEMMA QueuedByFinite ==
  ASSUME NEW queue, NEW index, IsFiniteSet(DOMAIN queue)
  PROVE  /\ IsFiniteSet(QueuedBy(queue, index))
         /\ Cardinality(QueuedBy(queue, index)) \in Nat
  <1>1. QueuedBy(queue, index) \in SUBSET DOMAIN queue
    BY DEF QueuedBy
  <1> QED BY <1>1, FS_Subset, FS_CardinalityType

(***************************************************************************)
(* A sweep keeps the mask at or above the queue: every id it removes is    *)
(* released from the byte of the custodian that created it.                *)
(***************************************************************************)
LEMMA SweepKeepsQueueInv ==
  ASSUME NEW queue, NEW mask, NEW Body, NEW next,
         QueueInv(queue, mask, Body, next),
         NEW ids \in SUBSET DOMAIN queue
  PROVE  QueueInv(Without(queue, ids), ReleaseMask(mask, queue, ids), Body, next)
  <1> DEFINE left == Without(queue, ids)
             released == ReleaseMask(mask, queue, ids)
  <1>1. /\ DOMAIN left = DOMAIN queue \ ids
        /\ \A id \in DOMAIN left : left[id] = queue[id]
    BY DEF Without, Restrict
  <1>2. IsQueue(left, Body)
    <2>1. IsFiniteSet(DOMAIN left)
      BY <1>1, FS_Difference DEF QueueInv, IsQueue
    <2> QED BY <1>1, <2>1 DEF QueueInv, IsQueue
  <1>3. ASSUME NEW index \in CustodianIndex
        PROVE  /\ released[index] \in Int
               /\ Cardinality(QueuedBy(left, index)) <= released[index]
               /\ released[index] <= MAX_QUEUED_REQUESTS
    <2> DEFINE mine == QueuedBy(queue, index)
    <2>1. QueuedBy(left, index) = mine \ ids
      BY <1>1 DEF QueuedBy
    <2>2. IsFiniteSet(mine) /\ Cardinality(mine) \in Nat
      BY QueuedByFinite DEF QueueInv, IsQueue
    <2>3. /\ Cardinality(mine \ ids) = Cardinality(mine) - Cardinality(mine \cap ids)
          /\ IsFiniteSet(mine \cap ids)
      BY <2>2, FS_Difference, FS_Intersection
    <2>4. Cardinality(mine \cap ids) \in Nat
      BY <2>3, FS_CardinalityType
    <2>5. released[index] = mask[index] - Cardinality(mine \cap ids)
      <3>1. ids \cap mine = mine \cap ids
        OBVIOUS
      <3> QED BY <3>1 DEF ReleaseMask, QueueInv
    <2>6. /\ mask[index] \in Int
          /\ Cardinality(mine) <= mask[index]
          /\ mask[index] <= MAX_QUEUED_REQUESTS
      BY DEF QueueInv, MaskCovers
    <2> QED BY <2>1, <2>2, <2>3, <2>4, <2>5, <2>6, LimitsAssumption
  <1>4. released \in [CustodianIndex -> Int]
    BY <1>3 DEF ReleaseMask, QueueInv
  <1>5. \A id \in DOMAIN left : id < next
    BY <1>1 DEF QueueInv
  <1> QED BY <1>2, <1>3, <1>4, <1>5 DEF QueueInv, MaskCovers

(***************************************************************************)
(* Dropping a request without touching the mask, as a confirmation of an   *)
(* expired request does, leaves the mask above the queue.                  *)
(***************************************************************************)
LEMMA DropKeepsQueueInv ==
  ASSUME NEW queue, NEW mask, NEW Body, NEW next,
         QueueInv(queue, mask, Body, next), NEW id
  PROVE  QueueInv(Without(queue, {id}), mask, Body, next)
  <1> DEFINE left == Without(queue, {id})
  <1>1. /\ DOMAIN left = DOMAIN queue \ {id}
        /\ \A x \in DOMAIN left : left[x] = queue[x]
    BY DEF Without, Restrict
  <1>2. IsQueue(left, Body)
    <2>1. IsFiniteSet(DOMAIN left)
      BY <1>1, FS_RemoveElement DEF QueueInv, IsQueue
    <2> QED BY <1>1, <2>1 DEF QueueInv, IsQueue
  <1>3. ASSUME NEW index \in CustodianIndex
        PROVE  Cardinality(QueuedBy(left, index)) <= mask[index]
    <2>1. QueuedBy(left, index) \in SUBSET QueuedBy(queue, index)
      BY <1>1 DEF QueuedBy
    <2>2. /\ IsFiniteSet(QueuedBy(queue, index))
          /\ Cardinality(QueuedBy(queue, index)) \in Nat
      BY QueuedByFinite DEF QueueInv, IsQueue
    <2>3. /\ Cardinality(QueuedBy(left, index)) <= Cardinality(QueuedBy(queue, index))
          /\ Cardinality(QueuedBy(left, index)) \in Nat
      BY <2>1, <2>2, FS_Subset, FS_CardinalityType
    <2>4. mask[index] \in Int /\ Cardinality(QueuedBy(queue, index)) <= mask[index]
      BY DEF QueueInv, MaskCovers
    <2> QED BY <2>2, <2>3, <2>4
  <1> QED BY <1>1, <1>2, <1>3 DEF QueueInv, MaskCovers

(***************************************************************************)
(* Removing an executed request and decrementing its creator's byte.       *)
(***************************************************************************)
LEMMA ExecuteKeepsQueueInv ==
  ASSUME NEW queue, NEW mask, NEW Body, NEW next,
         QueueInv(queue, mask, Body, next), NEW id \in DOMAIN queue
  PROVE  QueueInv(Without(queue, {id}), DecMaskValue(mask, queue[id].creator),
                  Body, next)
  <1> DEFINE left == Without(queue, {id})
             creator == queue[id].creator
             mask2 == DecMaskValue(mask, creator)
  <1>1. QueueInv(left, mask, Body, next)
    BY DropKeepsQueueInv
  <1>2. creator \in CustodianIndex
    BY DEF QueueInv, IsQueue, Request
  <1>3. /\ mask2 \in [CustodianIndex -> Int]
        /\ mask2[creator] = mask[creator] - 1
        /\ \A index \in CustodianIndex \ {creator} : mask2[index] = mask[index]
    BY <1>2 DEF DecMaskValue, QueueInv
  <1>4. /\ Cardinality(QueuedBy(left, creator)) <= mask2[creator]
        /\ mask2[creator] <= MAX_QUEUED_REQUESTS
    <2>1. QueuedBy(left, creator) = QueuedBy(queue, creator) \ {id}
      BY DEF QueuedBy, Without, Restrict
    <2>2. id \in QueuedBy(queue, creator)
      BY DEF QueuedBy
    <2>3. /\ IsFiniteSet(QueuedBy(queue, creator))
          /\ Cardinality(QueuedBy(queue, creator)) \in Nat
      BY QueuedByFinite DEF QueueInv, IsQueue
    <2>4. Cardinality(QueuedBy(left, creator))
            = Cardinality(QueuedBy(queue, creator)) - 1
      BY <2>1, <2>2, <2>3, FS_RemoveElement
    <2>5. /\ mask[creator] \in Int
          /\ Cardinality(QueuedBy(queue, creator)) <= mask[creator]
          /\ mask[creator] <= MAX_QUEUED_REQUESTS
      BY <1>2 DEF QueueInv, MaskCovers
    <2> QED BY <1>3, <2>3, <2>4, <2>5, LimitsAssumption
  <1>5. MaskCovers(mask2, left)
    BY <1>1, <1>3, <1>4 DEF QueueInv, MaskCovers
  <1> QED BY <1>1, <1>3, <1>5 DEF QueueInv

(***************************************************************************)
(* Queueing a request under the next id, by a custodian below its limit.   *)
(***************************************************************************)
LEMMA SubmitKeepsQueueInv ==
  ASSUME NEW queue, NEW mask, NEW Body, NEW next \in Nat,
         QueueInv(queue, mask, Body, next),
         NEW request \in Request(Body),
         mask[request.creator] < MAX_QUEUED_REQUESTS
  PROVE  QueueInv(WithRequest(queue, next, request),
                  IncMaskValue(mask, request.creator), Body, next + 1)
  <1> DEFINE more == WithRequest(queue, next, request)
             creator == request.creator
             mask2 == IncMaskValue(mask, creator)
  <1>1. creator \in CustodianIndex
    BY DEF Request
  <1>2. DOMAIN queue \subseteq Nat /\ next \notin DOMAIN queue
    BY DEF QueueInv, IsQueue
  <1>3. /\ DOMAIN more = DOMAIN queue \cup {next}
        /\ more[next] = request
        /\ \A id \in DOMAIN queue : more[id] = queue[id]
    BY <1>2 DEF WithRequest
  <1>4. IsQueue(more, Body)
    <2>1. IsFiniteSet(DOMAIN more)
      BY <1>3, FS_AddElement DEF QueueInv, IsQueue
    <2> QED BY <1>3, <2>1 DEF QueueInv, IsQueue
  <1>5. /\ mask2 \in [CustodianIndex -> Int]
        /\ mask2[creator] = mask[creator] + 1
        /\ \A index \in CustodianIndex \ {creator} : mask2[index] = mask[index]
    BY <1>1 DEF IncMaskValue, QueueInv
  <1>6. /\ Cardinality(QueuedBy(more, creator)) <= mask2[creator]
        /\ mask2[creator] <= MAX_QUEUED_REQUESTS
    <2>1. QueuedBy(more, creator) = QueuedBy(queue, creator) \cup {next}
      BY <1>3 DEF QueuedBy
    <2>2. next \notin QueuedBy(queue, creator)
      BY <1>2 DEF QueuedBy
    <2>3. /\ IsFiniteSet(QueuedBy(queue, creator))
          /\ Cardinality(QueuedBy(queue, creator)) \in Nat
      BY QueuedByFinite DEF QueueInv, IsQueue
    <2>4. Cardinality(QueuedBy(more, creator))
            = Cardinality(QueuedBy(queue, creator)) + 1
      BY <2>1, <2>2, <2>3, FS_AddElement
    <2>5. /\ mask[creator] \in Int
          /\ Cardinality(QueuedBy(queue, creator)) <= mask[creator]
      BY <1>1 DEF QueueInv, MaskCovers
    <2> QED BY <1>5, <2>3, <2>4, <2>5, LimitsAssumption
  <1>7. ASSUME NEW index \in CustodianIndex \ {creator}
        PROVE  QueuedBy(more, index) = QueuedBy(queue, index)
    BY <1>3 DEF QueuedBy
  <1>8. MaskCovers(mask2, more)
    BY <1>5, <1>6, <1>7 DEF QueueInv, MaskCovers
  <1>9. \A id \in DOMAIN more : id < next + 1
    BY <1>2, <1>3 DEF QueueInv
  <1> QED BY <1>4, <1>5, <1>8, <1>9 DEF QueueInv

(***************************************************************************)
(* Recording one more vote on a queued request.                            *)
(***************************************************************************)
LEMMA VoteKeepsQueueInv ==
  ASSUME NEW queue, NEW mask, NEW Body, NEW next,
         QueueInv(queue, mask, Body, next), NEW id \in DOMAIN queue,
         NEW request \in Request(Body), request.creator = queue[id].creator
  PROVE  QueueInv(WithRequest(queue, id, request), mask, Body, next)
  <1> DEFINE voted == WithRequest(queue, id, request)
  <1>1. /\ DOMAIN voted = DOMAIN queue
        /\ voted[id] = request
        /\ \A other \in DOMAIN queue \ {id} : voted[other] = queue[other]
    BY DEF WithRequest
  <1>2. IsQueue(voted, Body)
    BY <1>1 DEF QueueInv, IsQueue
  <1>3. ASSUME NEW index \in CustodianIndex
        PROVE  QueuedBy(voted, index) = QueuedBy(queue, index)
    BY <1>1 DEF QueuedBy
  <1>4. MaskCovers(mask, voted)
    BY <1>3 DEF QueueInv, MaskCovers
  <1> QED BY <1>1, <1>2, <1>4 DEF QueueInv

(***************************************************************************)
(* An empty queue under an empty mask, and time passing.                   *)
(***************************************************************************)
LEMMA EmptyQueueInv ==
  ASSUME NEW Body, NEW next
  PROVE  QueueInv(EmptyQueue, EmptyMask, Body, next)
  <1>1. DOMAIN EmptyQueue = {}
    BY DEF EmptyQueue
  <1>2. IsQueue(EmptyQueue, Body)
    BY <1>1, FS_EmptySet DEF IsQueue
  <1>3. ASSUME NEW index \in CustodianIndex
        PROVE  Cardinality(QueuedBy(EmptyQueue, index)) = 0
    <2>1. QueuedBy(EmptyQueue, index) = {}
      BY <1>1 DEF QueuedBy
    <2> QED BY <2>1, FS_EmptySet
  <1>4. EmptyMask \in [CustodianIndex -> Int]
    BY DEF EmptyMask
  <1>5. MaskCovers(EmptyMask, EmptyQueue)
    BY <1>3, LimitsAssumption DEF MaskCovers, EmptyMask
  <1> QED BY <1>1, <1>2, <1>4, <1>5 DEF QueueInv

(***************************************************************************)
(* A later next id keeps every queued id below it.                         *)
(***************************************************************************)
LEMMA LaterQueueInv ==
  ASSUME NEW queue, NEW mask, NEW Body, NEW next \in Nat, NEW later \in Nat,
         next <= later, QueueInv(queue, mask, Body, next)
  PROVE  QueueInv(queue, mask, Body, later)
  BY DEF QueueInv, IsQueue

-----------------------------------------------------------------------------
(* _initialize *)

(***************************************************************************)
(* What _initialize establishes about the owners and thresholds.           *)
(***************************************************************************)
ConfigInv(config) ==
  /\ config.custodians \in [DOMAIN config.custodians -> CustodianIndex]
  /\ DOMAIN config.custodians \subseteq Caller
  /\ IsFiniteSet(DOMAIN config.custodians)
  /\ config.count \in 1..MAX_CUSTODIAN_COUNT
  /\ config.count = Cardinality(DOMAIN config.custodians)
  /\ config.req \in Nat /\ config.reqData \in Nat
  /\ 1 <= config.req
  /\ config.req <= config.reqData
  /\ config.reqData <= config.count
  /\ IsInjective(config.custodians)
  /\ config.ownerKey \in DOMAIN config.custodians \cup {NoOwner}
  /\ config.ownerAddress \in DOMAIN config.custodians \cup {NoOwner}
  /\ config.ownerKey # NoOwner \/ config.ownerAddress # NoOwner

(***************************************************************************)
(* Of two listed owners one is listed first, and it comes before the       *)
(* other.                                                                  *)
(***************************************************************************)
LEMMA OneIsListedFirst ==
  ASSUME NEW S, NEW owners \in Seq(S), NEW o \in Range(owners),
         NEW p \in Range(owners), o # p
  PROVE  \E m \in 1..Len(owners) :
           /\ owners[m] \in {o, p}
           /\ \A k \in 1..(m - 1) : owners[k] \notin {o, p}
  <1> DEFINE hits == {i \in 1..Len(owners) : owners[i] \in {o, p}}
  <1>1. hits \subseteq Nat /\ hits # {}
    BY DEF Range
  <1>2. PICK m \in hits : \A i \in hits : <<i, m>> \notin OpToRel(<, Nat)
    BY <1>1, NatLessThanWellFounded, WFMin
  <1>3. \A i \in hits : ~(i < m)
    BY <1>1, <1>2 DEF OpToRel
  <1>4. \A k \in 1..(m - 1) : k \in 1..Len(owners) /\ k < m
    BY <1>1
  <1> QED BY <1>1, <1>3, <1>4

(***************************************************************************)
(* Owners get different indexes: the one listed first gets the smaller.    *)
(***************************************************************************)
LEMMA EarlierOwnerSmallerIndex ==
  ASSUME NEW S, NEW owners \in Seq(S), NEW o, NEW p,
         IsFiniteSet(Range(owners)),
         NEW m \in 1..Len(owners), owners[m] = o,
         \A k \in 1..m : owners[k] # p,
         \A k \in 1..(m - 1) : owners[k] # o
  PROVE  IndexAmong(owners, o) < IndexAmong(owners, p)
  <1>1. ListedBefore(owners, o) \subseteq ListedBefore(owners, p)
    <2> SUFFICES ASSUME NEW j \in DOMAIN owners, \A k \in 1..j : owners[k] # o
                 PROVE  \A k \in 1..j : owners[k] # p
      BY DEF ListedBefore
    <2>1. j < m
      OBVIOUS
    <2> QED BY <2>1
  <1>2. o \in ListedBefore(owners, p)
    BY DEF ListedBefore
  <1>3. o \notin ListedBefore(owners, o)
    BY DEF ListedBefore
  <1>4. ListedBefore(owners, p) \in SUBSET Range(owners)
    BY DEF ListedBefore, Range
  <1>5. IsFiniteSet(ListedBefore(owners, p))
    BY <1>4, FS_Subset
  <1>6. /\ ListedBefore(owners, o) \in SUBSET ListedBefore(owners, p)
        /\ ListedBefore(owners, o) # ListedBefore(owners, p)
    BY <1>1, <1>2, <1>3
  <1>7. /\ Cardinality(ListedBefore(owners, o)) <= Cardinality(ListedBefore(owners, p))
        /\ Cardinality(ListedBefore(owners, o)) # Cardinality(ListedBefore(owners, p))
        /\ IsFiniteSet(ListedBefore(owners, o))
    BY <1>5, <1>6, FS_Subset
  <1>8. /\ Cardinality(ListedBefore(owners, o)) \in Nat
        /\ Cardinality(ListedBefore(owners, p)) \in Nat
    BY <1>5, <1>7, FS_CardinalityType
  <1> QED BY <1>7, <1>8 DEF IndexAmong

(***************************************************************************)
(* No two owners share an index.                                           *)
(***************************************************************************)
LEMMA IndexesAreInjective ==
  ASSUME NEW S, NEW owners \in Seq(S), IsFiniteSet(Range(owners)),
         NEW o \in Range(owners), NEW p \in Range(owners), o # p
  PROVE  IndexAmong(owners, o) # IndexAmong(owners, p)
  <1>1. PICK m \in 1..Len(owners) :
          /\ owners[m] \in {o, p}
          /\ \A k \in 1..(m - 1) : owners[k] \notin {o, p}
    BY OneIsListedFirst
  <1>2. \A k \in 1..m : k = m \/ k \in 1..(m - 1)
    OBVIOUS
  <1>3. \A q \in Range(owners) : IndexAmong(owners, q) \in Nat
    <2> TAKE q \in Range(owners)
    <2>1. ListedBefore(owners, q) \in SUBSET Range(owners)
      BY DEF ListedBefore, Range
    <2> QED BY <2>1, FS_Subset, FS_CardinalityType DEF IndexAmong
  <1>4. CASE owners[m] = o
    <2>1. /\ \A k \in 1..m : owners[k] # p
          /\ \A k \in 1..(m - 1) : owners[k] # o
      BY <1>1, <1>2, <1>4
    <2>2. IndexAmong(owners, o) < IndexAmong(owners, p)
      BY <1>4, <2>1, EarlierOwnerSmallerIndex
    <2> QED BY <2>2, <1>3
  <1>5. CASE owners[m] = p
    <2>1. /\ \A k \in 1..m : owners[k] # o
          /\ \A k \in 1..(m - 1) : owners[k] # p
      BY <1>1, <1>2, <1>5
    <2>2. IndexAmong(owners, p) < IndexAmong(owners, o)
      BY <1>5, <2>1, EarlierOwnerSmallerIndex
    <2> QED BY <2>2, <1>3
  <1> QED BY <1>1, <1>4, <1>5

(***************************************************************************)
(* The first element of each list is listed in the concatenation.          *)
(***************************************************************************)
LEMMA HeadsAreListed ==
  ASSUME NEW S, NEW keys \in Seq(S), NEW addresses \in Seq(S)
  PROVE  /\ keys # << >> => keys[1] \in S /\ keys[1] \in Range(keys \o addresses)
         /\ addresses # << >> =>
              addresses[1] \in S /\ addresses[1] \in Range(keys \o addresses)
         /\ Len(keys \o addresses) # 0 => keys # << >> \/ addresses # << >>
  <1> DEFINE both == keys \o addresses
  <1>1. both \in Seq(S) /\ Len(both) = Len(keys) + Len(addresses)
    OBVIOUS
  <1>2. DOMAIN both = 1..Len(both)
    BY <1>1
  <1>3. ASSUME keys # << >>
        PROVE  keys[1] \in S /\ keys[1] \in Range(both)
    <2>1. Len(keys) \in Nat /\ Len(keys) >= 1
      BY <1>3
    <2>2. both[1] = keys[1] /\ 1 \in DOMAIN both
      BY <1>1, <1>2, <2>1
    <2> QED BY <2>1, <2>2 DEF Range
  <1>4. ASSUME addresses # << >>
        PROVE  addresses[1] \in S /\ addresses[1] \in Range(both)
    <2>1. Len(addresses) \in Nat /\ Len(addresses) >= 1 /\ Len(keys) \in Nat
      BY <1>4
    <2>2. /\ both[Len(keys) + 1] = addresses[1]
          /\ Len(keys) + 1 \in DOMAIN both
      BY <1>1, <1>2, <2>1
    <2> QED BY <2>1, <2>2 DEF Range
  <1>5. Len(both) # 0 => keys # << >> \/ addresses # << >>
    OBVIOUS
  <1> QED BY <1>3, <1>4, <1>5

(***************************************************************************)
(* _initialize on valid owner lists: thresholds the owners can meet, and   *)
(* an index of its own for each of them.                                   *)
(***************************************************************************)
LEMMA InitializedFacts ==
  ASSUME NEW args \in Args, ValidArgs(args)
  PROVE  ConfigInv(Initialized(args))
  <1> DEFINE owners == Listed(args)
             set == Range(owners)
             count == Cardinality(set)
             config == Initialized(args)
  <1>1. /\ owners \in Seq(Key \cup Address)
        /\ Len(owners) \in 1..MAX_CUSTODIAN_COUNT
        /\ \A i \in 1..Len(owners) : owners[i] \notin {ZeroKey, ZeroAddress}
    <2>1. /\ args.owners_pubkey \in Seq(Key)
          /\ args.owners_address \in Seq(Address)
      BY DEF Args
    <2>2. /\ args.owners_pubkey \in Seq(Key \cup Address)
          /\ args.owners_address \in Seq(Key \cup Address)
      BY <2>1
    <2>3. owners \in Seq(Key \cup Address)
      BY <2>2 DEF Listed
    <2>4. DOMAIN owners = 1..Len(owners)
      BY <2>3
    <2> QED BY <2>3, <2>4 DEF ValidArgs
  <1>2. set \subseteq Caller
    BY <1>1 DEF Range, Caller
  <1>3. IsFiniteSet(set) /\ count <= Len(owners)
    <2>1. owners \in Surjection(1..Len(owners), set)
      BY <1>1 DEF Surjection, Range
    <2>2. IsFiniteSet(1..Len(owners)) /\ Cardinality(1..Len(owners)) = Len(owners)
      BY <1>1, FS_Interval
    <2> QED BY <2>1, <2>2, FS_Surjection
  <1>4. count \in Nat /\ count # 0
    <2>1. owners[1] \in set
      BY <1>1 DEF Range
    <2> QED BY <1>3, <2>1, FS_CardinalityType, FS_EmptySet
  <1>5. count \in 1..MAX_CUSTODIAN_COUNT
    BY <1>1, <1>3, <1>4, LimitsAssumption
  <1>6. /\ config.count = count
        /\ config.req = AtMost(args.reqConfirms, count)
        /\ config.reqData = AtLeast(AtMost(args.reqConfirmsData, count), config.req)
        /\ config.custodians = [o \in set |-> IndexAmong(owners, o)]
    BY DEF Initialized, DataThreshold
  <1>7. args.reqConfirms \in Nat \ {0} /\ args.reqConfirmsData \in Nat \ {0}
    BY DEF Args
  <1>8. /\ config.req \in Nat /\ config.reqData \in Nat
        /\ 1 <= config.req /\ config.req <= config.reqData
        /\ config.reqData <= config.count
    BY <1>4, <1>6, <1>7 DEF AtMost, AtLeast
  <1>9. \A o \in set : IndexAmong(owners, o) \in CustodianIndex
    <2> TAKE o \in set
    <2>1. ListedBefore(owners, o) \in SUBSET (set \ {o})
      BY <1>1 DEF ListedBefore, Range
    <2>2. IsFiniteSet(set \ {o}) /\ Cardinality(set \ {o}) = count - 1
      BY <1>3, FS_RemoveElement
    <2>3. /\ Cardinality(ListedBefore(owners, o)) <= count - 1
          /\ Cardinality(ListedBefore(owners, o)) \in Nat
      BY <2>1, <2>2, FS_Subset, FS_CardinalityType
    <2> QED BY <1>5, <2>3, LimitsAssumption DEF IndexAmong, CustodianIndex
  <1>10. IsInjective(config.custodians)
    BY <1>1, <1>3, <1>6, IndexesAreInjective DEF IsInjective
  <1>13. /\ config.ownerKey = OwnerOf(args.owners_pubkey)
         /\ config.ownerAddress = OwnerOf(args.owners_address)
    BY DEF Initialized
  <1>14. /\ OwnerOf(args.owners_pubkey) \in set \cup {NoOwner}
         /\ OwnerOf(args.owners_address) \in set \cup {NoOwner}
         /\ \/ OwnerOf(args.owners_pubkey) # NoOwner
            \/ OwnerOf(args.owners_address) # NoOwner
    <2> DEFINE keys == args.owners_pubkey
               addresses == args.owners_address
    <2>1. keys \in Seq(Key) /\ addresses \in Seq(Address)
      BY DEF Args
    <2>2. /\ keys \in Seq(Key \cup Address)
          /\ addresses \in Seq(Key \cup Address)
      BY <2>1
    <2>3. owners = keys \o addresses /\ Len(owners) # 0
      <3>1. owners = keys \o addresses
        BY DEF Listed
      <3>2. Len(owners) # 0
        <4> HIDE DEF owners
        <4> QED BY <1>1, LimitsAssumption
      <3> QED BY <3>1, <3>2
    <2>4. /\ keys # << >> \/ addresses # << >>
          /\ keys # << >> => keys[1] \in Key \cup Address /\ keys[1] \in set
          /\ addresses # << >> =>
               addresses[1] \in Key \cup Address /\ addresses[1] \in set
      BY <2>2, <2>3, HeadsAreListed
    <2>5. keys # << >> => keys[1] \in set /\ keys[1] # NoOwner
      BY <2>4, OwnersAssumption
    <2>6. addresses # << >> => addresses[1] \in set /\ addresses[1] # NoOwner
      BY <2>4, OwnersAssumption
    <2> HIDE DEF keys, addresses, set, owners
    <2>7. /\ OwnerOf(keys) \in set \cup {NoOwner}
          /\ OwnerOf(addresses) \in set \cup {NoOwner}
          /\ OwnerOf(keys) # NoOwner \/ OwnerOf(addresses) # NoOwner
      BY <2>4, <2>5, <2>6 DEF OwnerOf
    <2> QED BY <2>7 DEF keys, addresses
  <1> HIDE DEF owners, set, count, config
  <1>11. /\ DOMAIN config.custodians = set
         /\ config.custodians \in [set -> CustodianIndex]
    BY <1>6, <1>9
  <1>12. ConfigInv(config)
    BY <1>2, <1>3, <1>5, <1>6, <1>8, <1>10, <1>11, <1>13, <1>14
    DEF ConfigInv, count
  <1> QED BY <1>12 DEF config

-----------------------------------------------------------------------------
(* Votes *)

(***************************************************************************)
(* VotesConsistent with the owners' indexes as a parameter.                *)
(***************************************************************************)
VotesInv(queue, required, indexes) ==
  \A id \in DOMAIN queue :
    /\ queue[id].creator \in queue[id].confirmationsMask
    /\ queue[id].confirmationsMask \subseteq indexes
    /\ queue[id].signsReceived = Cardinality(queue[id].confirmationsMask)
    /\ queue[id].signsReceived < queue[id].signsRequired
    /\ queue[id].signsRequired = required

(***************************************************************************)
(* Removing requests leaves the votes on the others as they were.          *)
(***************************************************************************)
LEMMA RemovalKeepsVotes ==
  ASSUME NEW queue, NEW required, NEW indexes, NEW ids,
         VotesInv(queue, required, indexes)
  PROVE  VotesInv(Without(queue, ids), required, indexes)
  BY DEF VotesInv, Without, Restrict

(***************************************************************************)
(* A confirmation mask is a finite set of bits.                            *)
(***************************************************************************)
LEMMA IndexSetsAreFinite ==
  ASSUME NEW mask \in SUBSET CustodianIndex
  PROVE  IsFiniteSet(mask) /\ Cardinality(mask) \in Nat
  <1>1. IsFiniteSet(CustodianIndex)
    BY FS_Interval, LimitsAssumption DEF CustodianIndex
  <1> QED BY <1>1, FS_Subset, FS_CardinalityType

(***************************************************************************)
(* Recording a vote keeps the type of a request.                           *)
(***************************************************************************)
LEMMA SetConfirmedType ==
  ASSUME NEW Body, NEW request \in Request(Body), NEW index \in CustodianIndex
  PROVE  SetConfirmed(request, index) \in Request(Body)
  <1> DEFINE mask == request.confirmationsMask \cup {index}
             received == request.signsReceived + 1
             marked == [request EXCEPT !.confirmationsMask = mask]
  <1>1. mask \in SUBSET CustodianIndex /\ received \in Nat
    BY DEF Request
  <1>2. SetConfirmed(request, index) = [marked EXCEPT !.signsReceived = received]
    BY DEF SetConfirmed, Request
  <1> HIDE DEF mask, received
  <1>3. marked \in Request(Body)
    BY <1>1 DEF Request
  <1> HIDE DEF marked
  <1>4. [marked EXCEPT !.signsReceived = received] \in Request(Body)
    BY <1>1, <1>3 DEF Request
  <1> QED BY <1>2, <1>4

(***************************************************************************)
(* A first vote, by the creator of a new request that needs more than one. *)
(***************************************************************************)
LEMMA FirstVoteKeepsVotes ==
  ASSUME NEW Body, NEW body \in Body, NEW queue, NEW indexes, NEW id,
         NEW required \in Nat, 1 < required,
         NEW index \in CustodianIndex, index \in indexes,
         VotesInv(queue, required, indexes)
  PROVE  LET request == SetConfirmed(NewRequest(index, required, body), index)
         IN  /\ request \in Request(Body)
             /\ request.creator = index
             /\ VotesInv(WithRequest(queue, id, request), required, indexes)
  <1> DEFINE request == SetConfirmed(NewRequest(index, required, body), index)
             fresh == NewRequest(index, required, body)
  <1>5. fresh \in Request(Body)
    BY DEF NewRequest, Request
  <1>1. /\ request.creator = index
        /\ request.confirmationsMask = {index}
        /\ request.signsRequired = required
        /\ request.signsReceived = 1
    BY DEF SetConfirmed, NewRequest
  <1>2. Cardinality({index}) = 1
    BY FS_Singleton
  <1>3. request \in Request(Body)
    BY <1>5, SetConfirmedType DEF NewRequest
  <1> HIDE DEF request
  <1>4. VotesInv(WithRequest(queue, id, request), required, indexes)
    BY <1>1, <1>2 DEF VotesInv, WithRequest
  <1> QED BY <1>1, <1>3, <1>4 DEF request

(***************************************************************************)
(* A later vote, by a custodian who has not voted, short of the quorum.    *)
(***************************************************************************)
LEMMA LaterVoteKeepsVotes ==
  ASSUME NEW Body, NEW queue, NEW required \in Nat, NEW indexes,
         NEW id \in DOMAIN queue, queue[id] \in Request(Body),
         NEW index \in CustodianIndex, index \in indexes,
         ~IsConfirmed(queue[id], index), ~ReachesQuorum(queue[id]),
         VotesInv(queue, required, indexes)
  PROVE  LET request == SetConfirmed(queue[id], index)
         IN  /\ request \in Request(Body)
             /\ request.creator = queue[id].creator
             /\ VotesInv(WithRequest(queue, id, request), required, indexes)
  <1> DEFINE old == queue[id]
             request == SetConfirmed(old, index)
  <1>1. /\ old.confirmationsMask \in SUBSET CustodianIndex
        /\ old.signsReceived \in Nat
        /\ old.signsRequired \in Nat
    BY DEF Request
  <1>2. /\ request.creator = old.creator
        /\ request.confirmationsMask = old.confirmationsMask \cup {index}
        /\ request.signsRequired = old.signsRequired
        /\ request.signsReceived = old.signsReceived + 1
    BY DEF SetConfirmed, Request
  <1>3. request \in Request(Body)
    BY SetConfirmedType
  <1>4. Cardinality(old.confirmationsMask \cup {index})
          = Cardinality(old.confirmationsMask) + 1
    BY <1>1, IndexSetsAreFinite, FS_AddElement DEF IsConfirmed
  <1>5. old.signsReceived + 1 < old.signsRequired
    BY <1>1 DEF ReachesQuorum
  <1>6. /\ old.creator \in old.confirmationsMask
        /\ old.confirmationsMask \subseteq indexes
        /\ old.signsReceived = Cardinality(old.confirmationsMask)
        /\ old.signsRequired = required
    BY DEF VotesInv
  <1>7. /\ request.creator \in request.confirmationsMask
        /\ request.confirmationsMask \subseteq indexes
        /\ request.signsReceived = Cardinality(request.confirmationsMask)
        /\ request.signsReceived < request.signsRequired
        /\ request.signsRequired = required
    BY <1>1, <1>2, <1>4, <1>5, <1>6
  <1>8. request.creator = old.creator
    BY <1>2
  <1> HIDE DEF request, old
  <1>9. VotesInv(WithRequest(queue, id, request), required, indexes)
    BY <1>7 DEF VotesInv, WithRequest
  <1> QED BY <1>3, <1>8, <1>9 DEF request, old

(***************************************************************************)
(* Distinct bits are distinct owners: a mask has as many voters as bits.   *)
(***************************************************************************)
LEMMA VotersCount ==
  ASSUME ConfigInv(m_config), NEW mask \in SUBSET Range(m_config.custodians)
  PROVE  /\ IsFiniteSet(Custodians(mask))
         /\ Cardinality(Custodians(mask)) = Cardinality(mask)
  <1> DEFINE voters == Custodians(mask)
             f == [o \in voters |-> m_config.custodians[o]]
  <1>1. voters \in SUBSET DOMAIN m_config.custodians
    BY DEF Custodians
  <1>2. IsFiniteSet(voters)
    BY <1>1, FS_Subset DEF ConfigInv
  <1>3. f \in Bijection(voters, mask)
    <2>1. f \in [voters -> mask]
      BY DEF Custodians
    <2>2. IsInjective(f)
      BY <1>1 DEF IsInjective, ConfigInv
    <2>3. \A t \in mask : \E o \in voters : f[o] = t
      BY DEF Custodians, Range
    <2> QED BY <2>1, <2>2, <2>3 DEF Bijection, Injection, Surjection
  <1> QED BY <1>2, <1>3, FS_Bijection DEF ExistsBijection

(***************************************************************************)
(* A request that one more vote completes is backed by that many distinct  *)
(* owners: distinct bits are distinct owners, and the last voter is new.   *)
(***************************************************************************)
LEMMA QuorumOfOwners ==
  ASSUME ConfigInv(m_config), NEW Body, NEW request \in Request(Body),
         request.confirmationsMask \subseteq Range(m_config.custodians),
         request.signsReceived = Cardinality(request.confirmationsMask),
         request.signsRequired = m_config.req,
         NEW c, IsCustodian(c), ~IsConfirmed(request, IndexOf(c)),
         ReachesQuorum(request)
  PROVE  LET signers == Custodians(request.confirmationsMask) \cup {c}
         IN  /\ signers \subseteq DOMAIN m_config.custodians
             /\ Cardinality(signers) >= m_config.req
  <1> DEFINE mask == request.confirmationsMask
             voters == Custodians(mask)
  <1>1. voters \in SUBSET DOMAIN m_config.custodians
    BY DEF Custodians
  <1>2. IsFiniteSet(voters) /\ Cardinality(voters) = Cardinality(mask)
    BY VotersCount
  <1>5. c \notin voters
    BY DEF Custodians, IsConfirmed, IndexOf
  <1>6. Cardinality(voters \cup {c}) = Cardinality(mask) + 1
    BY <1>2, <1>5, FS_AddElement
  <1>7. /\ request.signsReceived \in Nat
        /\ request.signsReceived + 1 >= m_config.req
    BY DEF ReachesQuorum, Request
  <1>8. c \in DOMAIN m_config.custodians
    BY DEF IsCustodian
  <1> QED BY <1>1, <1>6, <1>7, <1>8

-----------------------------------------------------------------------------
(* The inductive invariant *)

TransferBody == {Outbound(t) : t \in Transfer}

ClockInv ==
  /\ maxCleanup \in Nat
  /\ now \in Nat /\ now >= EXPIRATION_TIME /\ now <= MAX_TIME
  /\ lt \in 0..LT_SPAN

TransactionsInv ==
  /\ QueueInv(m_transactions, m_requestsMask, TransferBody, GenerateId)
  /\ VotesInv(m_transactions, m_config.req, Range(m_config.custodians))

DataInv ==
  /\ QueueInv(m_data, m_requestsMaskData, UpdateArgs, GenerateId)
  /\ VotesInv(m_data, m_config.reqData, Range(m_config.custodians))

(***************************************************************************)
(* The strengthening of all the state properties below.                    *)
(***************************************************************************)
IInv ==
  /\ ConfigInv(m_config)
  /\ ClockInv
  /\ TransactionsInv
  /\ DataInv
  /\ SentWithQuorum

(***************************************************************************)
(* The next id is a natural number.                                        *)
(***************************************************************************)
LEMMA NextIdIsNat ==
  ASSUME ClockInv
  PROVE  GenerateId \in Nat
  BY LimitsAssumption DEF ClockInv, GenerateId

(***************************************************************************)
(* Within a second, ids only grow.                                         *)
(***************************************************************************)
LEMMA NextIdGrows ==
  ASSUME ClockInv, lt' \in 0..LT_SPAN, lt <= lt', UNCHANGED now
  PROVE  GenerateId \in Nat /\ GenerateId' \in Nat /\ GenerateId <= GenerateId'
  <1> DEFINE p == now * LT_SPAN
  <1>1. p \in Nat /\ lt \in Nat /\ lt' \in Nat
    BY LimitsAssumption DEF ClockInv
  <1>2. GenerateId = p + lt /\ GenerateId' = p + lt'
    BY DEF GenerateId
  <1> QED BY <1>1, <1>2

(***************************************************************************)
(* What a call finds after the sweep it starts with.                       *)
(***************************************************************************)
LEMMA SweptTransactions ==
  ASSUME TransactionsInv
  PROVE  /\ QueueInv(LiveTransactions, LiveMask, TransferBody, GenerateId)
         /\ VotesInv(LiveTransactions, m_config.req, Range(m_config.custodians))
  <1>1. PurgedTransactions \in SUBSET DOMAIN m_transactions
    BY DEF PurgedTransactions, PurgedIds, ExpiredIds
  <1> QED BY <1>1, SweepKeepsQueueInv, RemovalKeepsVotes
          DEF TransactionsInv, LiveTransactions, LiveMask

(***************************************************************************)
(* The same for the queue of owner updates.                                *)
(***************************************************************************)
LEMMA SweptData ==
  ASSUME DataInv
  PROVE  /\ QueueInv(LiveData, LiveMaskData, UpdateArgs, GenerateId)
         /\ VotesInv(LiveData, m_config.reqData, Range(m_config.custodians))
  <1>1. PurgedData \in SUBSET DOMAIN m_data
    BY DEF PurgedData, PurgedIds, ExpiredIds
  <1> QED BY <1>1, SweepKeepsQueueInv, RemovalKeepsVotes
          DEF DataInv, LiveData, LiveMaskData

(***************************************************************************)
(* The constructor establishes the inductive invariant.                    *)
(***************************************************************************)
LEMMA InitEstablishesIInv == Init => IInv
  <1> SUFFICES ASSUME Init PROVE IInv
    OBVIOUS
  <1>1. ConfigInv(m_config)
    BY InitializedFacts, ArgsAssumption DEF Init
  <1>2. ClockInv
    BY LimitsAssumption DEF Init, ClockInv
  <1>3. TransactionsInv /\ DataInv
    BY EmptyQueueInv DEF Init, TransactionsInv, DataInv, VotesInv, EmptyQueue
  <1>4. SentWithQuorum
    BY DEF Init, SentWithQuorum
  <1> QED BY <1>1, <1>2, <1>3, <1>4 DEF IInv

-----------------------------------------------------------------------------
(* Steps *)

(***************************************************************************)
(* One vote on a queued transfer, by a custodian who has not voted: it is  *)
(* recorded, or the transfer leaves with its quorum.                       *)
(***************************************************************************)
LEMMA VoteOnTransfer ==
  ASSUME IInv, NEW c, IsCustodian(c),
         NEW id \in DOMAIN LiveTransactions,
         ~IsConfirmed(LiveTransactions[id], IndexOf(c)),
         ConfirmRequest(LiveTransactions, LiveMask, id, LiveTransactions[id], c)
  PROVE  /\ QueueInv(m_transactions', m_requestsMask', TransferBody, GenerateId)
         /\ VotesInv(m_transactions', m_config.req, Range(m_config.custodians))
         /\ sent' # NothingSent =>
              /\ sent'.signers \subseteq DOMAIN m_config.custodians
              /\ Cardinality(sent'.signers) >= m_config.req
  <1> DEFINE txn == LiveTransactions[id]
             indexes == Range(m_config.custodians)
  <1>1. /\ QueueInv(LiveTransactions, LiveMask, TransferBody, GenerateId)
        /\ VotesInv(LiveTransactions, m_config.req, indexes)
    BY SweptTransactions DEF IInv
  <1>2. /\ IndexOf(c) \in CustodianIndex /\ IndexOf(c) \in indexes
        /\ m_config.req \in Nat
    BY DEF IInv, ConfigInv, IsCustodian, IndexOf, Range
  <1>3. txn \in Request(TransferBody)
    BY <1>1 DEF QueueInv, IsQueue
  <1>4. CASE ReachesQuorum(txn)
    <2>1. /\ sent' = Sent(id, txn.body, Custodians(txn.confirmationsMask) \cup {c})
          /\ m_requestsMask' = DecMaskValue(LiveMask, txn.creator)
          /\ m_transactions' = Without(LiveTransactions, {id})
      BY <1>4 DEF ConfirmRequest, MaskAfterSending
    <2>2. QueueInv(m_transactions', m_requestsMask', TransferBody, GenerateId)
      BY <1>1, <2>1, ExecuteKeepsQueueInv
    <2>3. VotesInv(m_transactions', m_config.req, indexes)
      BY <1>1, <2>1, RemovalKeepsVotes
    <2>4. /\ txn.confirmationsMask \subseteq indexes
          /\ txn.signsReceived = Cardinality(txn.confirmationsMask)
          /\ txn.signsRequired = m_config.req
      BY <1>1 DEF VotesInv
    <2>5. sent'.signers = Custodians(txn.confirmationsMask) \cup {c}
      BY <2>1 DEF Sent
    <2>6. /\ sent'.signers \subseteq DOMAIN m_config.custodians
          /\ Cardinality(sent'.signers) >= m_config.req
      BY <1>3, <1>4, <2>4, <2>5, QuorumOfOwners DEF IInv
    <2> QED BY <2>2, <2>3, <2>6
  <1>5. CASE ~ReachesQuorum(txn)
    <2>1. /\ m_transactions' = WithRequest(LiveTransactions, id,
                                           SetConfirmed(txn, IndexOf(c)))
          /\ m_requestsMask' = LiveMask
          /\ sent' = NothingSent
      BY <1>5 DEF ConfirmRequest
    <2>2. /\ SetConfirmed(txn, IndexOf(c)) \in Request(TransferBody)
          /\ SetConfirmed(txn, IndexOf(c)).creator = txn.creator
          /\ VotesInv(m_transactions', m_config.req, indexes)
      BY <1>1, <1>2, <1>3, <1>5, <2>1, LaterVoteKeepsVotes
    <2>3. QueueInv(m_transactions', m_requestsMask', TransferBody, GenerateId)
      BY <1>1, <2>1, <2>2, VoteKeepsQueueInv
    <2> QED BY <2>1, <2>2, <2>3
  <1> QED BY <1>4, <1>5

(***************************************************************************)
(* Calls that leave the owners, the clock and the other queue alone.       *)
(***************************************************************************)
LEMMA TransferStepKeepsIInv ==
  ASSUME IInv,
         QueueInv(m_transactions', m_requestsMask', TransferBody, GenerateId'),
         VotesInv(m_transactions', m_config.req, Range(m_config.custodians)),
         sent' # NothingSent =>
           /\ sent'.signers \subseteq DOMAIN m_config.custodians
           /\ Cardinality(sent'.signers) >= m_config.req,
         lt' \in 0..LT_SPAN, lt <= lt',
         UNCHANGED <<m_config, m_data, m_requestsMaskData, maxCleanup, now>>
  PROVE  IInv'
  <1>1. ClockInv' /\ ConfigInv(m_config)'
    BY DEF IInv, ClockInv
  <1>2. GenerateId \in Nat /\ GenerateId' \in Nat /\ GenerateId <= GenerateId'
    BY NextIdGrows DEF IInv
  <1>3. DataInv'
    <2>1. QueueInv(m_data, m_requestsMaskData, UpdateArgs, GenerateId')
      BY <1>2, LaterQueueInv DEF IInv, DataInv
    <2> QED BY <2>1 DEF IInv, DataInv
  <1>4. TransactionsInv' /\ SentWithQuorum'
    BY DEF TransactionsInv, SentWithQuorum
  <1> QED BY <1>1, <1>3, <1>4 DEF IInv

(***************************************************************************)
(* The only owner sends without a queue: one signature, and a quorum of    *)
(* one.                                                                    *)
(***************************************************************************)
LEMMA SendTransactionStep ==
  ASSUME IInv, NEW c, NEW t, SendTransaction(c, t)
  PROVE  IInv'
  <1>1. c \in DOMAIN m_config.custodians /\ m_config.req = 1
    BY DEF SendTransaction, IInv, ConfigInv
  <1>2. /\ sent'.signers = {c}
        /\ UNCHANGED <<m_config, m_transactions, m_data, m_requestsMask,
                       m_requestsMaskData, maxCleanup, now, lt>>
    BY DEF SendTransaction, Sent
  <1>3. Cardinality({c}) = 1
    BY FS_Singleton
  <1>4. GenerateId' = GenerateId
    BY <1>2 DEF GenerateId
  <1>5. lt' \in 0..LT_SPAN /\ lt <= lt'
    BY <1>2, LimitsAssumption DEF IInv, ClockInv
  <1> QED BY <1>1, <1>2, <1>3, <1>4, <1>5, TransferStepKeepsIInv
          DEF IInv, TransactionsInv

(***************************************************************************)
(* A submission is refused at the limit, sent at once under a quorum of    *)
(* one, or queued with the vote of its creator.                            *)
(***************************************************************************)
LEMMA SubmitTransactionStep ==
  ASSUME IInv, NEW c, NEW t \in Transfer, SubmitTransaction(c, t)
  PROVE  IInv'
  <1> DEFINE i == IndexOf(c)
             indexes == Range(m_config.custodians)
  <1>1. /\ QueueInv(LiveTransactions, LiveMask, TransferBody, GenerateId)
        /\ VotesInv(LiveTransactions, m_config.req, indexes)
    BY SweptTransactions DEF IInv
  <1>2. /\ i \in CustodianIndex /\ i \in indexes
        /\ c \in DOMAIN m_config.custodians
        /\ m_config.req \in Nat /\ 1 <= m_config.req
    BY DEF SubmitTransaction, IInv, ConfigInv, IsCustodian, IndexOf, Range
  <1>3. UNCHANGED <<m_config, m_data, m_requestsMaskData, maxCleanup, now>>
    BY DEF SubmitTransaction
  <1>4. lt \in 0..LT_SPAN
    BY DEF IInv, ClockInv
  <1>5. CASE /\ SweepTransactionsOnly
             /\ UNCHANGED lt
    <2>1. GenerateId' = GenerateId
      BY <1>3, <1>5 DEF GenerateId
    <2>2. /\ m_transactions' = LiveTransactions
          /\ m_requestsMask' = LiveMask
          /\ sent' = NothingSent
      BY <1>5 DEF SweepTransactionsOnly
    <2> QED BY <1>1, <1>3, <1>4, <1>5, <2>1, <2>2, LimitsAssumption,
               TransferStepKeepsIInv
  <1>6. CASE /\ m_config.req = 1
             /\ m_transactions' = LiveTransactions
             /\ m_requestsMask' = LiveMask
             /\ sent' = Sent(0, Outbound(t), {c})
             /\ UNCHANGED lt
    <2>1. GenerateId' = GenerateId
      BY <1>3, <1>6 DEF GenerateId
    <2>2. sent'.signers = {c} /\ Cardinality({c}) = 1
      BY <1>6, FS_Singleton DEF Sent
    <2> QED BY <1>1, <1>2, <1>3, <1>4, <1>6, <2>1, <2>2, LimitsAssumption,
               TransferStepKeepsIInv
  <1>7. CASE /\ LiveMask[i] < MAX_QUEUED_REQUESTS
             /\ m_config.req # 1
             /\ lt < LT_SPAN
             /\ lt' = lt + 1
             /\ ConfirmRequest(LiveTransactions, IncMaskValue(LiveMask, i),
                               GenerateId,
                               NewRequest(i, m_config.req, Outbound(t)), c)
    <2> DEFINE request == SetConfirmed(NewRequest(i, m_config.req, Outbound(t)), i)
    <2>1. ~ReachesQuorum(NewRequest(i, m_config.req, Outbound(t)))
      BY <1>2, <1>7 DEF ReachesQuorum, NewRequest
    <2>2. /\ m_transactions' = WithRequest(LiveTransactions, GenerateId, request)
          /\ m_requestsMask' = IncMaskValue(LiveMask, i)
          /\ sent' = NothingSent
      BY <1>7, <2>1 DEF ConfirmRequest
    <2>3. Outbound(t) \in TransferBody
      BY DEF TransferBody
    <2>4. 1 < m_config.req
      BY <1>2, <1>7
    <2>5. /\ request \in Request(TransferBody)
          /\ request.creator = i
          /\ VotesInv(m_transactions', m_config.req, indexes)
      <3> HIDE DEF i, indexes
      <3>1. LET r == SetConfirmed(NewRequest(i, m_config.req, Outbound(t)), i)
            IN  /\ r \in Request(TransferBody)
                /\ r.creator = i
                /\ VotesInv(WithRequest(LiveTransactions, GenerateId, r),
                            m_config.req, indexes)
        BY <1>1, <1>2, <2>3, <2>4, FirstVoteKeepsVotes
      <3> QED BY <3>1, <2>2
    <2>6. GenerateId \in Nat
      BY NextIdIsNat DEF IInv
    <2>7. GenerateId' = GenerateId + 1
      <3>1. now * LT_SPAN \in Nat
        BY LimitsAssumption DEF IInv, ClockInv
      <3> QED BY <1>3, <1>4, <1>7, <3>1 DEF GenerateId
    <2>8. QueueInv(m_transactions', m_requestsMask', TransferBody, GenerateId')
      BY <1>1, <1>7, <2>2, <2>5, <2>6, <2>7, SubmitKeepsQueueInv
    <2>9. lt' \in 0..LT_SPAN /\ lt <= lt'
      BY <1>4, <1>7, LimitsAssumption
    <2> QED BY <1>3, <2>2, <2>5, <2>8, <2>9, TransferStepKeepsIInv
  <1> QED BY <1>5, <1>6, <1>7 DEF SubmitTransaction

(***************************************************************************)
(* A confirmation is refused, drops an expired transfer, or votes.         *)
(***************************************************************************)
LEMMA ConfirmTransactionStep ==
  ASSUME IInv, NEW c, NEW id, ConfirmTransaction(c, id)
  PROVE  IInv'
  <1> DEFINE indexes == Range(m_config.custodians)
  <1>1. /\ QueueInv(LiveTransactions, LiveMask, TransferBody, GenerateId)
        /\ VotesInv(LiveTransactions, m_config.req, indexes)
    BY SweptTransactions DEF IInv
  <1>2. /\ UNCHANGED <<m_config, m_data, m_requestsMaskData, maxCleanup, now>>
        /\ UNCHANGED lt
        /\ IsCustodian(c)
    BY DEF ConfirmTransaction
  <1>3. GenerateId' = GenerateId
    BY <1>2 DEF GenerateId
  <1>4. lt' \in 0..LT_SPAN /\ lt <= lt'
    BY <1>2, LimitsAssumption DEF IInv, ClockInv
  <1>5. CASE SweepTransactionsOnly
    BY <1>1, <1>2, <1>3, <1>4, <1>5, TransferStepKeepsIInv
    DEF SweepTransactionsOnly
  <1>6. CASE /\ m_transactions' = Without(LiveTransactions, {id})
             /\ m_requestsMask' = LiveMask
             /\ sent' = NothingSent
    <2>1. QueueInv(m_transactions', m_requestsMask', TransferBody, GenerateId)
      BY <1>1, <1>6, DropKeepsQueueInv
    <2>2. VotesInv(m_transactions', m_config.req, indexes)
      BY <1>1, <1>6, RemovalKeepsVotes
    <2> QED BY <1>2, <1>3, <1>4, <1>6, <2>1, <2>2, TransferStepKeepsIInv
  <1>7. CASE /\ id \in DOMAIN LiveTransactions
             /\ ~IsConfirmed(LiveTransactions[id], IndexOf(c))
             /\ ConfirmRequest(LiveTransactions, LiveMask, id,
                               LiveTransactions[id], c)
    BY <1>2, <1>3, <1>4, <1>7, VoteOnTransfer, TransferStepKeepsIInv
  <1> QED BY <1>5, <1>6, <1>7 DEF ConfirmTransaction

(***************************************************************************)
(* Calls that leave the owners, the clock and the transfers alone.         *)
(***************************************************************************)
LEMMA DataStepKeepsIInv ==
  ASSUME IInv,
         QueueInv(m_data', m_requestsMaskData', UpdateArgs, GenerateId'),
         VotesInv(m_data', m_config.reqData, Range(m_config.custodians)),
         sent' = NothingSent,
         lt' \in 0..LT_SPAN, lt <= lt',
         UNCHANGED <<m_config, m_transactions, m_requestsMask, maxCleanup, now>>
  PROVE  IInv'
  <1>1. ClockInv' /\ ConfigInv(m_config)'
    BY DEF IInv, ClockInv
  <1>2. TransactionsInv'
    <2>1. QueueInv(m_transactions, m_requestsMask, TransferBody, GenerateId')
      BY NextIdGrows, LaterQueueInv DEF IInv, TransactionsInv
    <2> QED BY <2>1 DEF IInv, TransactionsInv
  <1>3. DataInv' /\ SentWithQuorum'
    BY DEF DataInv, SentWithQuorum
  <1> QED BY <1>1, <1>2, <1>3 DEF IInv

(***************************************************************************)
(* Replacing the owners: both queues and both masks start afresh.          *)
(***************************************************************************)
LEMMA InitializeStep ==
  ASSUME IInv, NEW args \in UpdateArgs, ValidArgs(args), Initialize(args),
         sent' = NothingSent, lt' \in 0..LT_SPAN, UNCHANGED now
  PROVE  IInv'
  <1>1. /\ m_config' = Initialized(args)
        /\ m_transactions' = EmptyQueue /\ m_data' = EmptyQueue
        /\ m_requestsMask' = EmptyMask /\ m_requestsMaskData' = EmptyMask
        /\ maxCleanup' = DEFAULT_CLEANUP
    BY DEF Initialize
  <1>2. ConfigInv(m_config)'
    BY <1>1, InitializedFacts, ArgsAssumption DEF ConfigInv
  <1>3. ClockInv'
    BY <1>1, LimitsAssumption DEF IInv, ClockInv
  <1>4. TransactionsInv' /\ DataInv'
    <2>1. DOMAIN EmptyQueue = {}
      BY DEF EmptyQueue
    <2> QED BY <1>1, <2>1, EmptyQueueInv DEF TransactionsInv, DataInv, VotesInv
  <1>5. SentWithQuorum'
    BY DEF SentWithQuorum
  <1> QED BY <1>2, <1>3, <1>4, <1>5 DEF IInv

(***************************************************************************)
(* _initialize at the end of a call, whether or not it reverts.            *)
(***************************************************************************)
LEMMA InitializeOrRevertStep ==
  ASSUME IInv, NEW args \in UpdateArgs, Initialize(args),
         sent' = NothingSent, UNCHANGED <<lt, now>>
  PROVE  IInv'
  <1>1. /\ lt' \in 0..LT_SPAN /\ lt <= lt'
        /\ GenerateId' = GenerateId
    BY LimitsAssumption DEF IInv, ClockInv, GenerateId
  <1>2. CASE ValidArgs(args)
    BY <1>1, <1>2, InitializeStep
  <1>3. CASE ~ValidArgs(args)
    <2>1. /\ m_data' = LiveData
          /\ m_requestsMaskData' = LiveMaskData
          /\ UNCHANGED <<m_config, m_transactions, m_requestsMask, maxCleanup>>
      BY <1>3 DEF Initialize, SweepDataOnly
    <2> QED BY <1>1, <2>1, SweptData, DataStepKeepsIInv DEF IInv
  <1> QED BY <1>2, <1>3

(***************************************************************************)
(* A submitted owner update is refused at the limit, applied at once under *)
(* a quorum of one, or queued with the vote of its creator.                *)
(***************************************************************************)
LEMMA SubmitDataUpdateStep ==
  ASSUME IInv, NEW c, NEW args \in UpdateArgs, SubmitDataUpdate(c, args)
  PROVE  IInv'
  <1> DEFINE i == IndexOf(c)
             indexes == Range(m_config.custodians)
  <1>1. /\ QueueInv(LiveData, LiveMaskData, UpdateArgs, GenerateId)
        /\ VotesInv(LiveData, m_config.reqData, indexes)
    BY SweptData DEF IInv
  <1>2. /\ i \in CustodianIndex /\ i \in indexes
        /\ m_config.reqData \in Nat /\ 1 <= m_config.reqData
    BY DEF SubmitDataUpdate, IInv, ConfigInv, IsCustodian, IndexOf, Range
  <1>3. sent' = NothingSent /\ UNCHANGED now
    BY DEF SubmitDataUpdate
  <1>4. lt \in 0..LT_SPAN
    BY DEF IInv, ClockInv
  <1>5. CASE /\ SweepDataOnly
             /\ UNCHANGED lt
    <2>1. GenerateId' = GenerateId
      BY <1>3, <1>5 DEF GenerateId
    <2> QED BY <1>1, <1>3, <1>4, <1>5, <2>1, LimitsAssumption, DataStepKeepsIInv
            DEF SweepDataOnly
  <1>6. CASE /\ Initialize(args)
             /\ UNCHANGED lt
    BY <1>3, <1>6, InitializeOrRevertStep
  <1>7. CASE /\ LiveMaskData[i] < MAX_QUEUED_REQUESTS
             /\ m_config.reqData # 1
             /\ lt < LT_SPAN
             /\ lt' = lt + 1
             /\ ConfirmUpdate(LiveData, IncMaskValue(LiveMaskData, i), GenerateId,
                              NewRequest(i, m_config.reqData, args), c)
    <2> DEFINE request == SetConfirmed(NewRequest(i, m_config.reqData, args), i)
    <2>1. ~ReachesQuorum(NewRequest(i, m_config.reqData, args))
      BY <1>2, <1>7 DEF ReachesQuorum, NewRequest
    <2>2. /\ m_data' = WithRequest(LiveData, GenerateId, request)
          /\ m_requestsMaskData' = IncMaskValue(LiveMaskData, i)
          /\ UNCHANGED <<m_config, m_transactions, m_requestsMask, maxCleanup>>
      BY <1>7, <2>1 DEF ConfirmUpdate
    <2>3. 1 < m_config.reqData
      BY <1>2, <1>7
    <2>4. /\ request \in Request(UpdateArgs)
          /\ request.creator = i
          /\ VotesInv(m_data', m_config.reqData, indexes)
      <3> HIDE DEF i, indexes
      <3>1. LET r == SetConfirmed(NewRequest(i, m_config.reqData, args), i)
            IN  /\ r \in Request(UpdateArgs)
                /\ r.creator = i
                /\ VotesInv(WithRequest(LiveData, GenerateId, r),
                            m_config.reqData, indexes)
        BY <1>1, <1>2, <2>3, FirstVoteKeepsVotes
      <3> QED BY <3>1, <2>2
    <2>5. GenerateId \in Nat
      BY NextIdIsNat DEF IInv
    <2>6. GenerateId' = GenerateId + 1
      <3>1. now * LT_SPAN \in Nat
        BY LimitsAssumption DEF IInv, ClockInv
      <3> QED BY <1>3, <1>4, <1>7, <3>1 DEF GenerateId
    <2>7. QueueInv(m_data', m_requestsMaskData', UpdateArgs, GenerateId')
      BY <1>1, <1>7, <2>2, <2>4, <2>5, <2>6, SubmitKeepsQueueInv
    <2>8. lt' \in 0..LT_SPAN /\ lt <= lt'
      BY <1>4, <1>7, LimitsAssumption
    <2> QED BY <1>3, <2>2, <2>4, <2>7, <2>8, DataStepKeepsIInv
  <1> QED BY <1>5, <1>6, <1>7 DEF SubmitDataUpdate

(***************************************************************************)
(* A confirmation of an owner update is refused, drops an expired update,  *)
(* votes, or replaces the owners.                                          *)
(***************************************************************************)
LEMMA ConfirmDataUpdateStep ==
  ASSUME IInv, NEW c, NEW id, ConfirmDataUpdate(c, id)
  PROVE  IInv'
  <1> DEFINE indexes == Range(m_config.custodians)
             du == LiveData[id]
  <1>1. /\ QueueInv(LiveData, LiveMaskData, UpdateArgs, GenerateId)
        /\ VotesInv(LiveData, m_config.reqData, indexes)
    BY SweptData DEF IInv
  <1>2. /\ sent' = NothingSent
        /\ UNCHANGED <<now, lt>>
        /\ IsCustodian(c)
    BY DEF ConfirmDataUpdate
  <1>3. GenerateId' = GenerateId
    BY <1>2 DEF GenerateId
  <1>4. lt' \in 0..LT_SPAN /\ lt <= lt'
    BY <1>2, LimitsAssumption DEF IInv, ClockInv
  <1>5. CASE SweepDataOnly
    BY <1>1, <1>2, <1>3, <1>4, <1>5, DataStepKeepsIInv DEF SweepDataOnly
  <1>6. CASE /\ m_data' = Without(LiveData, {id})
             /\ m_requestsMaskData' = LiveMaskData
             /\ UNCHANGED <<m_config, m_transactions, m_requestsMask, maxCleanup>>
    <2>1. QueueInv(m_data', m_requestsMaskData', UpdateArgs, GenerateId)
      BY <1>1, <1>6, DropKeepsQueueInv
    <2>2. VotesInv(m_data', m_config.reqData, indexes)
      BY <1>1, <1>6, RemovalKeepsVotes
    <2> QED BY <1>2, <1>3, <1>4, <1>6, <2>1, <2>2, DataStepKeepsIInv
  <1>7. CASE /\ id \in DOMAIN LiveData
             /\ ~IsConfirmed(du, IndexOf(c))
             /\ ConfirmUpdate(LiveData, LiveMaskData, id, du, c)
    <2>1. du \in Request(UpdateArgs)
      BY <1>1, <1>7 DEF QueueInv, IsQueue
    <2>2. CASE ReachesQuorum(du)
      <3>1. Initialize(du.body)
        BY <1>7, <2>2 DEF ConfirmUpdate
      <3>2. du.body \in UpdateArgs
        BY <2>1 DEF Request
      <3> QED BY <1>2, <3>1, <3>2, InitializeOrRevertStep
    <2>3. CASE ~ReachesQuorum(du)
      <3>1. /\ IndexOf(c) \in CustodianIndex /\ IndexOf(c) \in indexes
            /\ m_config.reqData \in Nat
        BY <1>2 DEF IInv, ConfigInv, IsCustodian, IndexOf, Range
      <3>2. /\ m_data' = WithRequest(LiveData, id, SetConfirmed(du, IndexOf(c)))
            /\ m_requestsMaskData' = LiveMaskData
            /\ UNCHANGED <<m_config, m_transactions, m_requestsMask, maxCleanup>>
        BY <1>7, <2>3 DEF ConfirmUpdate
      <3>3. /\ SetConfirmed(du, IndexOf(c)) \in Request(UpdateArgs)
            /\ SetConfirmed(du, IndexOf(c)).creator = du.creator
            /\ VotesInv(m_data', m_config.reqData, indexes)
        BY <1>1, <1>7, <2>1, <2>3, <3>1, <3>2, LaterVoteKeepsVotes
      <3>4. QueueInv(m_data', m_requestsMaskData', UpdateArgs, GenerateId)
        BY <1>1, <1>7, <3>2, <3>3, VoteKeepsQueueInv
      <3> QED BY <1>2, <1>3, <1>4, <3>2, <3>3, <3>4, DataStepKeepsIInv
    <2> QED BY <2>2, <2>3
  <1> QED BY <1>5, <1>6, <1>7 DEF ConfirmDataUpdate

(***************************************************************************)
(* The cleanup limit is a number any invariant above ignores.              *)
(***************************************************************************)
LEMMA SetMaxCleanupOperationsStep ==
  ASSUME IInv, NEW c, NEW value \in CleanupLimits,
         SetMaxCleanupOperations(c, value)
  PROVE  IInv'
  BY LimitsAssumption
  DEF SetMaxCleanupOperations, IInv, ClockInv, TransactionsInv, DataInv,
      SentWithQuorum, GenerateId

(***************************************************************************)
(* A second has room for its ids: the next one of the second after is at   *)
(* or past them.                                                           *)
(***************************************************************************)
LEMMA TickPassesIds ==
  ASSUME ClockInv, Tick
  PROVE  GenerateId \in Nat /\ GenerateId' \in Nat /\ GenerateId <= GenerateId'
  <1> DEFINE p == now * LT_SPAN
  <1>1. p \in Nat /\ lt \in Nat /\ lt <= LT_SPAN /\ now \in Nat
    BY LimitsAssumption DEF ClockInv
  <1>2. (now + 1) * LT_SPAN = p + LT_SPAN
    BY <1>1, LimitsAssumption
  <1>3. GenerateId = p + lt /\ GenerateId' = p + LT_SPAN
    BY <1>1, <1>2, LimitsAssumption DEF GenerateId, Tick
  <1> HIDE DEF p
  <1> QED BY <1>1, <1>3, LimitsAssumption

(***************************************************************************)
(* When the clock moves the next id moves past all ids of the second       *)
(* before.                                                                 *)
(***************************************************************************)
LEMMA TickStep ==
  ASSUME IInv, Tick
  PROVE  IInv'
  <1>1. /\ now < MAX_TIME /\ now' = now + 1 /\ lt' = 0 /\ sent' = NothingSent
        /\ UNCHANGED <<m_config, m_transactions, m_data, m_requestsMask,
                       m_requestsMaskData, maxCleanup>>
    BY DEF Tick
  <1>2. ClockInv'
    BY <1>1, LimitsAssumption DEF IInv, ClockInv
  <1>3. GenerateId \in Nat /\ GenerateId' \in Nat /\ GenerateId <= GenerateId'
    BY TickPassesIds DEF IInv
  <1>4. /\ QueueInv(m_transactions, m_requestsMask, TransferBody, GenerateId')
        /\ QueueInv(m_data, m_requestsMaskData, UpdateArgs, GenerateId')
    BY <1>3, LaterQueueInv DEF IInv, TransactionsInv, DataInv
  <1>5. TransactionsInv' /\ DataInv'
    BY <1>1, <1>4 DEF IInv, TransactionsInv, DataInv
  <1>6. SentWithQuorum' /\ ConfigInv(m_config)'
    BY <1>1 DEF IInv, SentWithQuorum
  <1> QED BY <1>2, <1>5, <1>6 DEF IInv

-----------------------------------------------------------------------------
(* Theorems *)

(***************************************************************************)
(* IInv is inductive: no call and no tick of the clock breaks it.          *)
(***************************************************************************)
LEMMA NextKeepsIInv == IInv /\ [Next]_vars => IInv'
  <1> SUFFICES ASSUME IInv, [Next]_vars PROVE IInv'
    OBVIOUS
  <1>1. ASSUME NEW c \in Caller, NEW t \in Transfer, SendTransaction(c, t)
        PROVE  IInv'
    BY <1>1, SendTransactionStep
  <1>2. ASSUME NEW c \in Caller, NEW t \in Transfer, SubmitTransaction(c, t)
        PROVE  IInv'
    BY <1>2, SubmitTransactionStep
  <1>3. ASSUME NEW c \in Caller, NEW id \in DOMAIN m_transactions \cup {0},
               ConfirmTransaction(c, id)
        PROVE  IInv'
    BY <1>3, ConfirmTransactionStep
  <1>4. ASSUME NEW c \in Caller, NEW args \in UpdateArgs, SubmitDataUpdate(c, args)
        PROVE  IInv'
    BY <1>4, SubmitDataUpdateStep
  <1>5. ASSUME NEW c \in Caller, NEW id \in DOMAIN m_data \cup {0},
               ConfirmDataUpdate(c, id)
        PROVE  IInv'
    BY <1>5, ConfirmDataUpdateStep
  <1>6. ASSUME NEW c \in Caller, NEW value \in CleanupLimits,
               SetMaxCleanupOperations(c, value)
        PROVE  IInv'
    BY <1>6, SetMaxCleanupOperationsStep
  <1>7. CASE Tick
    BY <1>7, TickStep
  <1>8. CASE UNCHANGED vars
    BY <1>8 DEF vars, IInv, ClockInv, TransactionsInv, DataInv, SentWithQuorum,
                GenerateId
  <1> QED BY <1>1, <1>2, <1>3, <1>4, <1>5, <1>6, <1>7, <1>8 DEF Next

(***************************************************************************)
(* The wallet's storage keeps its type, for any owners, limits and clock.  *)
(***************************************************************************)
THEOREM TypeCorrect == Spec => []TypeOK
  <1>1. IInv => TypeOK
    BY DEF IInv, ConfigInv, ClockInv, TransactionsInv, DataInv, QueueInv,
           TransferBody, TypeOK
  <1> QED BY <1>1, InitEstablishesIInv, NextKeepsIInv, PTL DEF Spec

(***************************************************************************)
(* Whoever the owners become, their thresholds can be met, replacing them  *)
(* takes no fewer votes than a transfer, and each has a bit of its own.    *)
(***************************************************************************)
THEOREM ThresholdsStaySane == Spec => []ThresholdsSane
  <1>1. IInv => ThresholdsSane
    BY DEF IInv, ConfigInv, ThresholdsSane
  <1> QED BY <1>1, InitEstablishesIInv, NextKeepsIInv, PTL DEF Spec

(***************************************************************************)
(* Every queued request carries distinct votes of current owners only, and *)
(* lacks at least one of the quorum in force.                              *)
(***************************************************************************)
THEOREM VotesStayCurrent == Spec => []VotesAreCurrent
  <1>1. IInv => VotesAreCurrent
    BY DEF IInv, TransactionsInv, DataInv, VotesInv, VotesAreCurrent,
           VotesConsistent
  <1> QED BY <1>1, InitEstablishesIInv, NextKeepsIInv, PTL DEF Spec

(***************************************************************************)
(* No byte of a request mask ever borrows from or carries into another.    *)
(***************************************************************************)
THEOREM MasksStayInTheirByte == Spec => []MasksNeverBorrow
  <1>1. IInv => MasksNeverBorrow
    BY DEF IInv, TransactionsInv, DataInv, QueueInv, MasksNeverBorrow
  <1> QED BY <1>1, InitEstablishesIInv, NextKeepsIInv, PTL DEF Spec

(***************************************************************************)
(* Nothing leaves the wallet without the signatures of as many distinct    *)
(* owners as the threshold in force requires.                              *)
(***************************************************************************)
THEOREM NothingLeavesWithoutQuorum == Spec => []SentWithQuorum
  <1>1. IInv => SentWithQuorum
    BY DEF IInv
  <1> QED BY <1>1, InitEstablishesIInv, NextKeepsIInv, PTL DEF Spec

(***************************************************************************)
(* The next id is larger than every queued one, whichever queue it is in.  *)
(***************************************************************************)
THEOREM IdsStayFresh == Spec => []IdsNeverReused
  <1>1. IInv => IdsNeverReused
    BY DEF IInv, TransactionsInv, DataInv, QueueInv, IdsNeverReused
  <1> QED BY <1>1, InitEstablishesIInv, NextKeepsIInv, PTL DEF Spec

-----------------------------------------------------------------------------
(* What a step never does *)

(***************************************************************************)
(* Both bounds of a queued id's life are integers.                         *)
(***************************************************************************)
LEMMA ExpirationBoundIsInt ==
  ASSUME ClockInv
  PROVE  ExpirationBound \in Int
  <1>1. now - EXPIRATION_TIME \in Int /\ LT_SPAN \in Int
    BY LimitsAssumption DEF ClockInv
  <1> QED BY <1>1 DEF ExpirationBound

(***************************************************************************)
(* A sweep takes only expired requests and alters none of the others.      *)
(***************************************************************************)
LEMMA SweepTakesExpired ==
  /\ DOMAIN LiveTransactions \subseteq DOMAIN m_transactions
  /\ \A id \in DOMAIN m_transactions \ DOMAIN LiveTransactions : id <= ExpirationBound
  /\ \A id \in DOMAIN LiveTransactions : LiveTransactions[id] = m_transactions[id]
  /\ DOMAIN LiveData \subseteq DOMAIN m_data
  /\ \A id \in DOMAIN LiveData : LiveData[id] = m_data[id]
  BY DEF LiveTransactions, LiveData, PurgedTransactions, PurgedData, PurgedIds,
         ExpiredIds, Without, Restrict

(***************************************************************************)
(* A custodian's first vote completes no quorum above one, so nothing      *)
(* leaves when a request is queued.                                        *)
(***************************************************************************)
LEMMA FirstVoteSendsNothing ==
  ASSUME IInv, NEW c, NEW t, SubmitTransaction(c, t)
  PROVE  sent'.id \in {0, -1}
  <1>1. CASE sent' = NothingSent \/ sent' = Sent(0, Outbound(t), {c})
    BY <1>1 DEF NothingSent, Sent
  <1>2. CASE /\ m_config.req # 1
             /\ ConfirmRequest(LiveTransactions, IncMaskValue(LiveMask, IndexOf(c)),
                               GenerateId,
                               NewRequest(IndexOf(c), m_config.req, Outbound(t)), c)
    <2>1. m_config.req \in Nat /\ 1 <= m_config.req
      BY DEF IInv, ConfigInv
    <2>2. ~ReachesQuorum(NewRequest(IndexOf(c), m_config.req, Outbound(t)))
      BY <1>2, <2>1 DEF ReachesQuorum, NewRequest
    <2>3. sent' = NothingSent
      BY <1>2, <2>2 DEF ConfirmRequest
    <2> QED BY <2>3 DEF NothingSent
  <1> QED BY <1>1, <1>2 DEF SubmitTransaction, SweepTransactionsOnly

(***************************************************************************)
(* The only step that sends a queued transfer confirms a live request.     *)
(***************************************************************************)
LEMMA SentIsLive ==
  ASSUME IInv, Next, sent'.id > 0
  PROVE  /\ sent'.id > ExpirationBound
         /\ sent'.id \in DOMAIN m_transactions
         /\ sent'.body = m_transactions[sent'.id].body
  <1>1. ASSUME NEW c \in Caller, NEW id, ConfirmTransaction(c, id)
        PROVE  /\ sent'.id > ExpirationBound
               /\ sent'.id \in DOMAIN m_transactions
               /\ sent'.body = m_transactions[sent'.id].body
    <2>1. sent' # NothingSent
      BY DEF NothingSent
    <2>2. /\ id \in DOMAIN LiveTransactions /\ NotExpired(id)
          /\ ConfirmRequest(LiveTransactions, LiveMask, id, LiveTransactions[id], c)
      BY <1>1, <2>1 DEF ConfirmTransaction, SweepTransactionsOnly
    <2>3. sent'.id = id /\ sent'.body = LiveTransactions[id].body
      BY <2>1, <2>2 DEF ConfirmRequest, Sent
    <2> QED BY <2>2, <2>3, SweepTakesExpired DEF NotExpired
  <1>2. ASSUME NEW c \in Caller, NEW t \in Transfer, SendTransaction(c, t)
        PROVE  FALSE
    BY <1>2 DEF SendTransaction, Sent
  <1>3. ASSUME NEW c \in Caller, NEW t \in Transfer, SubmitTransaction(c, t)
        PROVE  FALSE
    BY <1>3, FirstVoteSendsNothing
  <1>4. CASE sent' = NothingSent
    BY <1>4 DEF NothingSent
  <1> QED BY <1>1, <1>2, <1>3, <1>4 DEF Next, SubmitDataUpdate, ConfirmDataUpdate,
             SetMaxCleanupOperations, Tick

(***************************************************************************)
(* A transfer leaves only within its hour and as it was queued, although   *)
(* a bounded sweep may leave expired requests in the queue                 *)
(* (confirmTransaction's require on the id).                               *)
(***************************************************************************)
THEOREM ExpiredTransfersStay == Spec => OnlyLiveTransfersLeave
  <1>1. ASSUME IInv, [Next]_vars
        PROVE  [sent'.id > 0 =>
                  /\ sent'.id > ExpirationBound
                  /\ sent'.id \in DOMAIN m_transactions
                  /\ sent'.body = m_transactions[sent'.id].body]_vars
    BY <1>1, SentIsLive
  <1> QED BY <1>1, InitEstablishesIInv, NextKeepsIInv, PTL
          DEF Spec, OnlyLiveTransfersLeave

(***************************************************************************)
(* A step that empties the transfer queue of its live requests replaces    *)
(* the owners, by a queued update or, where one signature suffices, at     *)
(* once.                                                                   *)
(***************************************************************************)
LEMMA LiveAreKept ==
  ASSUME IInv, Next, NEW id \in DOMAIN m_transactions \ DOMAIN m_transactions'
  PROVE  \/ id <= ExpirationBound
         \/ sent'.id = id
         \/ /\ m_transactions' = EmptyQueue
            /\ m_data' = EmptyQueue
            /\ m_config.reqData = 1 \/ m_data # EmptyQueue
  <1> DEFINE kept == DOMAIN LiveTransactions \subseteq DOMAIN m_transactions'
             voided == /\ m_transactions' = EmptyQueue
                       /\ m_data' = EmptyQueue
                       /\ m_config.reqData = 1 \/ m_data # EmptyQueue
  <1>1. CASE kept
    BY <1>1, SweepTakesExpired
  <1>2. ASSUME NEW c, NEW t, SubmitTransaction(c, t)
        PROVE  kept
    <2>1. \A mask, new, request :
            ConfirmRequest(LiveTransactions, mask, new, request, c)
              => kept \/ /\ ReachesQuorum(request)
                         /\ m_transactions' = Without(LiveTransactions, {new})
      BY DEF ConfirmRequest, WithRequest
    <2>2. m_config.req \in Nat /\ 1 <= m_config.req
      BY DEF IInv, ConfigInv
    <2>3. m_config.req # 1 =>
            ~ReachesQuorum(NewRequest(IndexOf(c), m_config.req, Outbound(t)))
      BY <2>2 DEF ReachesQuorum, NewRequest
    <2> QED BY <1>2, <2>1, <2>3 DEF SubmitTransaction, SweepTransactionsOnly
  <1>3. ASSUME NEW c, NEW x, ConfirmTransaction(c, x)
        PROVE  \/ kept
               \/ id <= ExpirationBound
               \/ sent'.id = id
    <2>1. CASE SweepTransactionsOnly
      BY <2>1 DEF SweepTransactionsOnly
    <2>2. CASE ~NotExpired(x) /\ m_transactions' = Without(LiveTransactions, {x})
      <3>1. id \in DOMAIN LiveTransactions => id = x
        BY <2>2 DEF Without, Restrict
      <3>2. id \in Nat /\ ExpirationBound \in Int
        BY ExpirationBoundIsInt DEF IInv, TransactionsInv, QueueInv, IsQueue
      <3> QED BY <2>2, <3>1, <3>2, SweepTakesExpired DEF NotExpired
    <2>3. CASE ConfirmRequest(LiveTransactions, LiveMask, x, LiveTransactions[x], c)
      <3>1. CASE ReachesQuorum(LiveTransactions[x])
        <4>1. /\ sent'.id = x
              /\ m_transactions' = Without(LiveTransactions, {x})
          BY <2>3, <3>1 DEF ConfirmRequest, Sent
        <4>2. id \in DOMAIN LiveTransactions => id = x
          BY <4>1 DEF Without, Restrict
        <4> QED BY <4>1, <4>2, SweepTakesExpired
      <3>2. CASE ~ReachesQuorum(LiveTransactions[x])
        BY <2>3, <3>2 DEF ConfirmRequest, WithRequest
      <3> QED BY <3>1, <3>2
    <2> QED BY <1>3, <2>1, <2>2, <2>3 DEF ConfirmTransaction
  <1>4. ASSUME NEW args, Initialize(args),
               m_config.reqData = 1 \/ m_data # EmptyQueue
        PROVE  m_transactions' = m_transactions \/ voided
    BY <1>4 DEF Initialize, SweepDataOnly
  <1>5. ASSUME NEW c, NEW args, SubmitDataUpdate(c, args)
        PROVE  m_transactions' = m_transactions \/ voided
    <2>1. m_config.reqData \in Nat /\ 1 <= m_config.reqData
      BY DEF IInv, ConfigInv
    <2>2. m_config.reqData # 1 =>
            ~ReachesQuorum(NewRequest(IndexOf(c), m_config.reqData, args))
      BY <2>1 DEF ReachesQuorum, NewRequest
    <2> QED BY <1>4, <1>5, <2>2 DEF SubmitDataUpdate, SweepDataOnly, ConfirmUpdate
  <1>6. ASSUME NEW c, NEW x, ConfirmDataUpdate(c, x)
        PROVE  m_transactions' = m_transactions \/ voided
    <2>1. x \in DOMAIN LiveData => m_data # EmptyQueue
      BY SweepTakesExpired DEF EmptyQueue
    <2> QED BY <1>4, <1>6, <2>1 DEF ConfirmDataUpdate, SweepDataOnly, ConfirmUpdate
  <1>7. CASE m_transactions' = m_transactions
    BY <1>7
  <1> QED BY <1>1, <1>2, <1>3, <1>5, <1>6, <1>7
          DEF Next, SendTransaction, SetMaxCleanupOperations, Tick

(***************************************************************************)
(* A live transfer request leaves its queue by being sent or with the      *)
(* owners that could have confirmed it (the sweeps of submitTransaction    *)
(* and confirmTransaction, _initialize).                                   *)
(***************************************************************************)
THEOREM LiveRequestsStay == Spec => LiveRequestsAreKept
  <1>1. ASSUME IInv, [Next]_vars
        PROVE  [\A id \in DOMAIN m_transactions \ DOMAIN m_transactions' :
                  \/ id <= ExpirationBound
                  \/ sent'.id = id
                  \/ /\ m_transactions' = EmptyQueue
                     /\ m_data' = EmptyQueue
                     /\ m_config.reqData = 1 \/ m_data # EmptyQueue]_vars
    BY <1>1, LiveAreKept
  <1> QED BY <1>1, InitEstablishesIInv, NextKeepsIInv, PTL
          DEF Spec, LiveRequestsAreKept

(***************************************************************************)
(* Beyond a single signature, owners change only by a queued update.       *)
(***************************************************************************)
LEMMA AppliedIsLive ==
  ASSUME IInv, Next, m_config' # m_config, m_config.reqData > 1
  PROVE  \E id \in DOMAIN m_data :
           /\ id > ExpirationBound
           /\ m_config' = Initialized(m_data[id].body)
  <1>1. ASSUME NEW args, Initialize(args)
        PROVE  m_config' = Initialized(args)
    BY <1>1 DEF Initialize, SweepDataOnly
  <1>2. ASSUME NEW c, NEW args, SubmitDataUpdate(c, args)
        PROVE  FALSE
    <2>1. m_config.reqData \in Nat /\ m_config.reqData # 1
      BY DEF IInv, ConfigInv
    <2>2. ~ReachesQuorum(NewRequest(IndexOf(c), m_config.reqData, args))
      BY <2>1 DEF ReachesQuorum, NewRequest
    <2> QED BY <1>2, <2>1, <2>2 DEF SubmitDataUpdate, SweepDataOnly, ConfirmUpdate
  <1>3. ASSUME NEW c, NEW id, ConfirmDataUpdate(c, id)
        PROVE  /\ id \in DOMAIN m_data
               /\ id > ExpirationBound
               /\ m_config' = Initialized(m_data[id].body)
    <2>1. /\ id \in DOMAIN LiveData /\ NotExpired(id)
          /\ ConfirmUpdate(LiveData, LiveMaskData, id, LiveData[id], c)
      BY <1>3 DEF ConfirmDataUpdate, SweepDataOnly
    <2>2. Initialize(LiveData[id].body)
      BY <2>1 DEF ConfirmUpdate
    <2> QED BY <1>1, <2>1, <2>2, SweepTakesExpired DEF NotExpired
  <1> QED BY <1>2, <1>3 DEF Next, SendTransaction, SubmitTransaction,
             ConfirmTransaction, SetMaxCleanupOperations, Tick

(***************************************************************************)
(* Where it takes more than one signature, only the lists of a queued      *)
(* update within its hour ever replace the owners (confirmDataUpdate).     *)
(***************************************************************************)
THEOREM ExpiredUpdatesStay == Spec => OnlyLiveUpdatesApply
  <1>1. ASSUME IInv, [Next]_vars
        PROVE  [(m_config' # m_config /\ m_config.reqData > 1) =>
                  \E id \in DOMAIN m_data :
                    /\ id > ExpirationBound
                    /\ m_config' = Initialized(m_data[id].body)]_vars
    BY <1>1, AppliedIsLive
  <1> QED BY <1>1, InitEstablishesIInv, NextKeepsIInv, PTL
          DEF Spec, OnlyLiveUpdatesApply
=============================================================================
