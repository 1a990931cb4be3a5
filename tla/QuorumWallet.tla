----------------------------- MODULE QuorumWallet -----------------------------
(***************************************************************************)
(* What the multisignature wallet promises, with no indexes, masks, clocks *)
(* or sweeps: a transfer leaves, and the owners change, only when enough   *)
(* distinct current owners have voted for exactly that request; a change   *)
(* of owners voids every pending request; a pending request may lapse at   *)
(* any time.  Queued requests are voted on by name of the owner.           *)
(***************************************************************************)
EXTENDS Integers, FiniteSets, Functions, TLC

CONSTANTS
  Owner,      \* everything that may own the wallet
  Body,       \* transfers that can be asked for
  Terms,      \* owner sets with thresholds that can be asked for, or NoTerms
  NoTerms,    \* a request for owners the wallet must refuse
  RequestId

VARIABLES
  terms,      \* [owners, quorum, quorumData] in force
  transfers,  \* pending transfers: id -> [body, voters]
  updates,    \* pending changes of terms: id -> [body, voters]
  sent        \* the transfer the last step made, if any

avars == <<terms, transfers, updates, sent>>

Nothing == [id |-> -1]
Empty == [id \in {} |-> id]

(***************************************************************************)
(* Apart from request id, nothing is added or altered; requests may lapse. *)
(***************************************************************************)
OthersMayLapse(pending, id) ==
  \A other \in DOMAIN pending' \ {id} :
    /\ other \in DOMAIN pending
    /\ pending'[other] = pending[other]

Votes(pending, id) ==
  IF id \in DOMAIN pending THEN pending[id].voters ELSE {}

AInit ==
  /\ terms \in Terms
  /\ transfers = Empty
  /\ updates = Empty
  /\ sent = Nothing

(***************************************************************************)
(* Owner o votes for body under id, opening the request if it is new; the  *)
(* vote that completes the quorum puts the request into effect.            *)
(***************************************************************************)
VoteTransfer(o, id, body) ==
  LET voters == Votes(transfers, id) \cup {o}
  IN  /\ o \in terms.owners \ Votes(transfers, id)
      /\ id \in DOMAIN transfers => transfers[id].body = body
      /\ \/ /\ Cardinality(voters) >= terms.quorum
            /\ sent' = [id |-> id, body |-> body, signers |-> voters]
            /\ id \notin DOMAIN transfers'
         \/ /\ Cardinality(voters) < terms.quorum
            /\ sent' = Nothing
            /\ id \in DOMAIN transfers'
            /\ transfers'[id] = [body |-> body, voters |-> voters]
      /\ OthersMayLapse(transfers, id)
      /\ UNCHANGED <<terms, updates>>

VoteUpdate(o, id, body) ==
  LET voters == Votes(updates, id) \cup {o}
  IN  /\ o \in terms.owners \ Votes(updates, id)
      /\ id \in DOMAIN updates => updates[id].body = body
      /\ \/ /\ Cardinality(voters) >= terms.quorumData
            /\ body # NoTerms
            /\ terms' = body
            /\ transfers' = Empty
            /\ updates' = Empty
         \/ /\ Cardinality(voters) < terms.quorumData
            /\ id \in DOMAIN updates'
            /\ updates'[id] = [body |-> body, voters |-> voters]
            /\ OthersMayLapse(updates, id)
            /\ UNCHANGED <<terms, transfers>>
      /\ sent' = Nothing

(***************************************************************************)
(* A sole owner may always send directly.                                  *)
(***************************************************************************)
SoleOwnerSends(o, body) ==
  /\ terms.owners = {o}
  /\ sent' = [id |-> 0, body |-> body, signers |-> {o}]
  /\ UNCHANGED <<terms, transfers, updates>>

Lapse ==
  /\ OthersMayLapse(transfers, -1)
  /\ OthersMayLapse(updates, -1)
  /\ sent' = Nothing
  /\ UNCHANGED terms

ANext ==
  \/ Lapse
  \/ \E o \in Owner, id \in RequestId, body \in Body : VoteTransfer(o, id, body)
  \/ \E o \in Owner, id \in RequestId, body \in Terms \cup {NoTerms} :
       VoteUpdate(o, id, body)
  \/ \E o \in Owner, body \in Body : SoleOwnerSends(o, body)

ASpec == AInit /\ [][ANext]_avars
=============================================================================
