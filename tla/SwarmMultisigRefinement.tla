----------------------- MODULE SwarmMultisigRefinement -----------------------
(***************************************************************************)
(* The wallet contract implements QuorumWallet: custodian indexes become   *)
(* owners, confirmation masks become sets of voters, queued owner lists    *)
(* become the terms they would put in force, sweeps become lapses.         *)
(***************************************************************************)
EXTENDS SwarmMultisig

TermsOf(config) ==
  [owners |-> DOMAIN config.custodians,
   quorum |-> config.req, quorumData |-> config.reqData]

TermsFor(args) == IF ValidArgs(args) THEN TermsOf(Initialized(args)) ELSE NoOwner

(***************************************************************************)
(* The mark for terms the contract refuses is not the terms of a contract. *)
(***************************************************************************)
ASSUME TermsAssumption ==
  \A args \in InitArgs \cup UpdateArgs :
    ValidArgs(args) => TermsOf(Initialized(args)) # NoOwner

AbstractTransfers ==
  [id \in DOMAIN m_transactions |->
     [body |-> m_transactions[id].body,
      voters |-> Custodians(m_transactions[id].confirmationsMask)]]

AbstractUpdates ==
  [id \in DOMAIN m_data |->
     [body |-> TermsFor(m_data[id].body),
      voters |-> Custodians(m_data[id].confirmationsMask)]]

Quorum == INSTANCE QuorumWallet WITH
  Owner <- Caller,
  Body <- Transfer \cup {Outbound(t) : t \in Transfer},
  Terms <- {TermsFor(args) : args \in InitArgs \cup UpdateArgs} \ {NoOwner},
  NoTerms <- NoOwner,
  RequestId <- 0..((MAX_TIME + 1) * LT_SPAN),
  terms <- TermsOf(m_config),
  transfers <- AbstractTransfers,
  updates <- AbstractUpdates,
  sent <- sent

(***************************************************************************)
(* Every behaviour of the contract is a behaviour of the quorum wallet:    *)
(* submitting, confirming, sweeping and replacing the owners never move    *)
(* value or control without the votes the terms in force require.          *)
(***************************************************************************)
ImplementsQuorumWallet == Quorum!ASpec
=============================================================================
