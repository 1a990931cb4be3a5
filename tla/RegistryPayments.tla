-------------------------- MODULE RegistryPayments --------------------------
(***************************************************************************)
(* Buying, billing, cancelling and verifying a token lot through the MCP   *)
(* tools (mcp/airegistry.rs).  A purchase or a cancellation is a message   *)
(* of the buyer's wallet to the lot, executed some time after the tool has *)
(* answered; verify_payment_readiness reads the lot in several calls.  The *)
(* lot itself, TokenContract, is known by its interface alone.             *)
(***************************************************************************)
EXTENDS Naturals, FiniteSets

CONSTANTS
  Buyer,        \* wallets
  User,         \* ... of which users' own, whose keys the agent has not
  BUDGET,       \* SHELL each holds at first
  Amount        \* amounts asked for

NoBuyer == "nobody"

ASSUME PaymentsAssumption ==
  /\ User \subseteq Buyer /\ NoBuyer \notin Buyer
  /\ BUDGET \in Nat /\ Amount \subseteq Nat

VARIABLES
  lot,        \* TokenContract: buyer, reserved, owed, and whether it is alive
  funds,      \* SHELL per wallet
  paid,       \* history: SHELL per wallet billed by the seller
  earned,     \* SHELL the seller has withdrawn
  intents,    \* what was prepared for a user's wallet, [from, method, shell, payout]
  inner,      \* messages of wallets on their way to the lot
  verify,     \* the verify_payment_readiness call under way, or its answer
  raced       \* history: the lot changed hands while it was under way

paymentVars == <<lot, funds, paid, earned, intents, inner, verify, raced>>

NoVerify == [at |-> "idle", who |-> NoBuyer, min |-> 1, reserved |-> 0, status |-> ""]

PaymentsInit ==
  /\ lot = [alive |-> TRUE, buyer |-> NoBuyer, reserved |-> 0, owed |-> 0]
  /\ funds = [b \in Buyer |-> BUDGET]
  /\ paid = [b \in Buyer |-> 0]
  /\ earned = 0 /\ intents = {} /\ inner = {}
  /\ verify = NoVerify /\ raced = FALSE

-----------------------------------------------------------------------------
(* The buyer's side *)

WalletCall(b, shell, method, payout) ==
  [from |-> b, method |-> method, shell |-> shell, payout |-> payout]

(* wallet_forward_call: the wallet sends the inner call with the SHELL     *)
(* attached.  A refusal by limiter, policy, keys or the wallet itself      *)
(* leaves everything as it was.  One message per wallet is in flight at a  *)
(* time.                                                                   *)
Forward(call) ==
  /\ \A msg \in inner : msg.from # call.from
  /\ call.shell <= funds[call.from]
  /\ funds' = [funds EXCEPT ![call.from] = @ - call.shell]
  /\ inner' = inner \cup {call}
  /\ UNCHANGED <<lot, paid, earned, intents, verify, raced>>

(* The amount is the SHELL attached. *)
BuyTokens(b, shell) ==
  /\ b \notin User /\ shell > 0
  /\ Forward(WalletCall(b, shell, "buyTokens", b))

CancelReservation(b) == b \notin User /\ Forward(WalletCall(b, 0, "cancel", b))

(* A user's wallet signs for itself: the tools prepare what it is to send. *)
(* The reads that go with an intent inform the user and decide nothing.    *)
Prepare(call) ==
  /\ intents' = intents \cup {call}
  /\ UNCHANGED <<lot, funds, paid, earned, inner, verify, raced>>

PrepareUserBuyTokens(u, shell) == shell > 0 /\ Prepare(WalletCall(u, shell, "buyTokens", u))

(* The payout is the wallet itself, never an argument. *)
PrepareUserCancel(u) == Prepare(WalletCall(u, 0, "cancel", u))

(* The user's wallet sends it: at once, much later, more than once, never. *)
CarryOut(intent) == intent \in intents /\ Forward(intent)

-----------------------------------------------------------------------------
(* TokenContract (external) *)

Moves(newLot) ==
  /\ lot' = newLot
  /\ raced' = (raced \/ (verify.at # "idle" /\ newLot.buyer # lot.buyer))

(* A lot belongs to one buyer at a time; a call it refuses bounces. *)
DeliverToLot(msg) ==
  LET b == msg.from
      bought == lot.alive /\ msg.method = "buyTokens" /\ lot.buyer \in {NoBuyer, b}
      cancelled == lot.alive /\ msg.method = "cancel" /\ lot.buyer = b
  IN  /\ inner' = inner \ {msg}
      /\ CASE bought -> /\ Moves([lot EXCEPT !.buyer = b, !.reserved = @ + msg.shell])
                        /\ UNCHANGED funds
           [] cancelled -> /\ funds' = [funds EXCEPT ![msg.payout] = @ + lot.reserved]
                           /\ Moves([lot EXCEPT !.buyer = NoBuyer, !.reserved = 0])
           [] OTHER -> /\ funds' = [funds EXCEPT ![b] = @ + msg.shell]
                       /\ UNCHANGED <<lot, raced>>
      /\ UNCHANGED <<paid, earned, intents, verify>>

(* bill_session: consumeSession moves reserved SHELL to the seller; the    *)
(* lot may be free again once nothing is reserved.                         *)
BillSession ==
  /\ lot.alive /\ lot.reserved > 0
  /\ \E next \in {lot.buyer} \cup (IF lot.reserved = 1 THEN {NoBuyer} ELSE {}) :
       Moves([lot EXCEPT !.reserved = @ - 1, !.owed = @ + 1, !.buyer = next])
  /\ paid' = [paid EXCEPT ![lot.buyer] = @ + 1]
  /\ UNCHANGED <<funds, earned, intents, inner, verify>>

(* withdraw_shell takes what is owed; destroy_lot what is left, when       *)
(* nothing is reserved.                                                    *)
WithdrawShell ==
  /\ lot.alive /\ lot.owed > 0
  /\ \E gone \in BOOLEAN :
       /\ gone => lot.reserved = 0
       /\ Moves([lot EXCEPT !.owed = 0, !.alive = ~gone,
                            !.buyer = IF gone THEN NoBuyer ELSE @])
  /\ earned' = earned + lot.owed
  /\ UNCHANGED <<funds, paid, intents, inner, verify>>

-----------------------------------------------------------------------------
(* verify_payment_readiness *)

VerifyStarts(b, min) ==
  /\ verify.at = "idle"
  /\ verify' = [NoVerify EXCEPT !.at = "lot", !.who = b, !.min = min]
  /\ raced' = FALSE
  /\ UNCHANGED <<lot, funds, paid, earned, intents, inner>>

Ready(status) == verify' = [verify EXCEPT !.at = "idle", !.status = status]

(* get_lot: the failure to read it is told apart by its message. *)
ReadLot ==
  /\ verify.at = "lot"
  /\ IF lot.alive THEN verify' = [verify EXCEPT !.at = "counters"]
     ELSE Ready("lot_unavailable")
  /\ UNCHANGED <<lot, funds, paid, earned, intents, inner, raced>>

(* get_entitlement: getCounters ... *)
ReadCounters ==
  /\ verify.at = "counters"
  /\ IF lot.alive THEN verify' = [verify EXCEPT !.at = "buyer", !.reserved = lot.reserved]
     ELSE Ready("chain_unavailable")
  /\ UNCHANGED <<lot, funds, paid, earned, intents, inner, raced>>

Status_ReservedFirst(current) ==
  CASE verify.reserved >= verify.min -> "verified"
    [] current -> "insufficient_reserved"
    [] OTHER -> "not_current_buyer"

Status(current) ==
  CASE ~current -> "not_current_buyer"
    [] current /\ verify.reserved < verify.min -> "insufficient_reserved"
    [] OTHER -> "verified"

(* ... then getCurrentBuyer, of a later state perhaps. *)
ReadCurrentBuyer ==
  /\ verify.at = "buyer"
  /\ Ready(IF lot.alive THEN Status(lot.buyer = verify.who) ELSE "chain_unavailable")
  /\ UNCHANGED <<lot, funds, paid, earned, intents, inner, raced>>

ReadFails ==
  /\ verify.at # "idle"
  /\ Ready("chain_unavailable")
  /\ UNCHANGED <<lot, funds, paid, earned, intents, inner, raced>>

PaymentsNext ==
  \/ \E b \in Buyer :
       \/ \E shell \in Amount : BuyTokens(b, shell)
       \/ CancelReservation(b)
       \/ \E min \in Amount : VerifyStarts(b, min)
  \/ \E u \in User :
       (\E shell \in Amount : PrepareUserBuyTokens(u, shell)) \/ PrepareUserCancel(u)
  \/ \E intent \in intents : CarryOut(intent)
  \/ \E msg \in inner : DeliverToLot(msg)
  \/ BillSession \/ WithdrawShell
  \/ ReadLot \/ ReadCounters \/ ReadCurrentBuyer \/ ReadFails

PaymentsSpec == PaymentsInit /\ [][PaymentsNext]_paymentVars

-----------------------------------------------------------------------------
(* Properties *)

UnderWay(b) ==
  IF \E msg \in inner : msg.from = b
  THEN (CHOOSE msg \in inner : msg.from = b).shell ELSE 0

(***************************************************************************)
(* No SHELL of one wallet ever ends in another: what a wallet started with *)
(* it holds, has under way or reserved, or was billed for, whatever        *)
(* purchases, cancellations and bounces cross each other on their way.     *)
(***************************************************************************)
RefundsStayWithBuyer ==
  \A b \in Buyer :
    funds[b] + UnderWay(b) + paid[b]
      + (IF lot.buyer = b THEN lot.reserved ELSE 0) = BUDGET

(***************************************************************************)
(* "verified" means what it says when the lot keeps its buyer during the   *)
(* call: that buyer is the wallet asked about, and had reserved enough.    *)
(* (When the lot changes hands between the two reads, the answer pairs one *)
(* buyer's counters with the next buyer's name.)                           *)
(***************************************************************************)
VerifiedUnlessRaced ==
  [][verify'.at = "idle" /\ verify'.status = "verified" /\ verify.at # "idle" /\ ~raced =>
       lot.buyer = verify.who /\ lot.reserved + paid[verify.who] >= verify.min]_paymentVars

(***************************************************************************)
(* Refunds reach their payers, and readiness is not reported in error.     *)
(***************************************************************************)
PaymentsAreHonest == []RefundsStayWithBuyer /\ VerifiedUnlessRaced
=============================================================================
