---------------------------- MODULE RequestQueue ----------------------------
(***************************************************************************)
(* The two request queues of SwarmMultisigWallet.sol, m_transactions and   *)
(* m_data, as values: a queue is a function from request ids to requests,  *)
(* and a request records who created it and which custodian indexes have   *)
(* confirmed it.  A request mask is the contract's packed counter (one     *)
(* byte per custodian index), as a function from index to count.           *)
(***************************************************************************)
EXTENDS Integers, FiniteSets, Functions

EmptyQueue == [id \in {} |-> id]

(***************************************************************************)
(* Requests whose id is at or below the expiration bound.                  *)
(***************************************************************************)
ExpiredIds(queue, bound) == {id \in DOMAIN queue : id <= bound}

(***************************************************************************)
(* Operators whose name carries a suffix (_AnyAge ...) are the             *)
(* plausible bugs used to check that the properties can fail; the          *)
(* specification does not use them.                                        *)
(***************************************************************************)
PurgedIds_AnyAge(queue, bound, limit) ==
  {id \in DOMAIN queue : Cardinality({e \in DOMAIN queue : e < id}) < limit}

(***************************************************************************)
(* The ids one cleanup pass removes: it walks the expired ids in ascending *)
(* order and stops after limit of them.                                    *)
(***************************************************************************)
PurgedIds(queue, bound, limit) ==
  LET expired == ExpiredIds(queue, bound)
  IN  {id \in expired : Cardinality({e \in expired : e < id}) < limit}

Without(queue, ids) == Restrict(queue, DOMAIN queue \ ids)

WithRequest(queue, id, request) ==
  [x \in DOMAIN queue \cup {id} |-> IF x = id THEN request ELSE queue[x]]

QueuedBy(queue, index) == {id \in DOMAIN queue : queue[id].creator = index}

(***************************************************************************)
(* The mask after a cleanup pass has removed ids: one decrement each.      *)
(***************************************************************************)
ReleaseMask(mask, queue, ids) ==
  [index \in DOMAIN mask |->
     mask[index] - Cardinality(ids \cap QueuedBy(queue, index))]

IncMaskValue(mask, index) == [mask EXCEPT ![index] = @ + 1]
DecMaskValue(mask, index) == [mask EXCEPT ![index] = @ - 1]

(***************************************************************************)
(* A request that its creator has not confirmed yet, and the request after *)
(* one more confirmation.                                                  *)
(***************************************************************************)
NewRequest(index, required, body) ==
  [creator |-> index, confirmationsMask |-> {},
   signsRequired |-> required, signsReceived |-> 0, body |-> body]

IsConfirmed(request, index) == index \in request.confirmationsMask

ReachesQuorum_OffByOne(request) ==
  request.signsReceived + 2 >= request.signsRequired

ReachesQuorum(request) == request.signsReceived + 1 >= request.signsRequired

SetConfirmed_Creator(request, index) ==
  [request EXCEPT !.confirmationsMask = @ \cup {request.creator},
                  !.signsReceived = @ + 1]

SetConfirmed(request, index) ==
  [request EXCEPT !.confirmationsMask = @ \cup {index},
                  !.signsReceived = @ + 1]

=============================================================================
