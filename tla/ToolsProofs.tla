------------------------------ MODULE ToolsProofs ------------------------------
(***************************************************************************)
(* Proofs about what a tool call goes through, for any number of wallets,  *)
(* callers, tokens and amounts: payments for a token lot, the keys of a    *)
(* wallet id, the server's gate and the session with gosh.memory.          *)
(***************************************************************************)
EXTENDS RegistryPayments, WalletKeys, McpServer, McpSession, TLAPS

-----------------------------------------------------------------------------
(* Payments *)

(***************************************************************************)
(* What a wallet sends: a cancellation carries no SHELL and pays out to    *)
(* the wallet itself.                                                      *)
(***************************************************************************)
Calls ==
  {payment \in [from : Buyer, method : {"buyTokens", "cancel"}, shell : Nat, payout : Buyer] :
     payment.payout = payment.from /\ (payment.method = "cancel" => payment.shell = 0)}

OnePerWallet(messages) ==
  \A msg, other \in messages : msg.from = other.from => msg = other

(* UnderWay, of any set of messages. *)
ShellIn(messages, b) ==
  IF \E msg \in messages : msg.from = b
  THEN (CHOOSE msg \in messages : msg.from = b).shell ELSE 0

Lots == [alive : BOOLEAN, buyer : Buyer \cup {NoBuyer}, reserved : Nat, owed : Nat]

PaymentsTyped ==
  /\ lot \in Lots
  /\ funds \in [Buyer -> Nat] /\ paid \in [Buyer -> Nat]
  /\ intents \subseteq Calls
  /\ inner \subseteq Calls /\ OnePerWallet(inner)

(***************************************************************************)
(* A free lot holds no one's SHELL, and the sums add up.                   *)
(***************************************************************************)
Reserved(b) == IF lot.buyer = b THEN lot.reserved ELSE 0

Balanced(b) == funds[b] + ShellIn(inner, b) + paid[b] + Reserved(b) = BUDGET

(***************************************************************************)
(* What a verification has read is still there, or was billed, as long as  *)
(* the lot has not changed hands.                                          *)
(***************************************************************************)
ReadHolds ==
  verify.at = "buyer" /\ ~raced /\ lot.buyer = verify.who =>
    /\ verify.who \in Buyer
    /\ verify.reserved \in Nat
    /\ lot.reserved + paid[verify.who] >= verify.reserved

VerifyAnswers ==
  {"", "lot_unavailable", "chain_unavailable", "not_current_buyer",
   "insufficient_reserved", "verified"}

VerifyTyped ==
  /\ verify \in [at : {"idle", "lot", "counters", "buyer"}, who : Buyer \cup {NoBuyer},
                 min : Nat, reserved : Nat, status : VerifyAnswers]
  /\ verify.at # "idle" => verify.who \in Buyer
  /\ raced \in BOOLEAN

PaymentsInv ==
  /\ PaymentsTyped
  /\ lot.buyer = NoBuyer => lot.reserved = 0
  /\ \A b \in Buyer : Balanced(b)
  /\ VerifyTyped /\ ReadHolds

(***************************************************************************)
(* With one message per wallet, what is under way is that message's.       *)
(***************************************************************************)
LEMMA ShellInIs ==
  ASSUME NEW messages, OnePerWallet(messages)
  PROVE  /\ \A msg \in messages : ShellIn(messages, msg.from) = msg.shell
         /\ \A b : (\A msg \in messages : msg.from # b) => ShellIn(messages, b) = 0
  BY DEF OnePerWallet, ShellIn

(***************************************************************************)
(* A message taken up changes the sum of its own wallet only.              *)
(***************************************************************************)
LEMMA ShellTakenUp ==
  ASSUME NEW messages, OnePerWallet(messages), NEW msg,
         \A other \in messages : other.from # msg.from
  PROVE  /\ OnePerWallet(messages \cup {msg})
         /\ ShellIn(messages \cup {msg}, msg.from) = msg.shell
         /\ \A b : b # msg.from => ShellIn(messages \cup {msg}, b) = ShellIn(messages, b)
  <1>1. OnePerWallet(messages \cup {msg})
    BY DEF OnePerWallet
  <1>2. ShellIn(messages \cup {msg}, msg.from) = msg.shell
    BY <1>1, ShellInIs
  <1>3. ASSUME NEW b, b # msg.from
        PROVE  ShellIn(messages \cup {msg}, b) = ShellIn(messages, b)
    <2>1. CASE \E other \in messages : other.from = b
      <3>1. PICK other \in messages : other.from = b
        BY <2>1
      <3> QED BY <1>1, <3>1, ShellInIs
    <2>2. CASE ~ \E other \in messages : other.from = b
      BY <1>1, <1>3, <2>2, ShellInIs
    <2> QED BY <2>1, <2>2
  <1> QED BY <1>1, <1>2, <1>3

(***************************************************************************)
(* So does one that is handed over.                                        *)
(***************************************************************************)
LEMMA ShellHandedOver ==
  ASSUME NEW messages, OnePerWallet(messages), NEW msg \in messages
  PROVE  /\ OnePerWallet(messages \ {msg})
         /\ ShellIn(messages \ {msg}, msg.from) = 0
         /\ \A b : b # msg.from => ShellIn(messages \ {msg}, b) = ShellIn(messages, b)
  <1>1. OnePerWallet(messages \ {msg})
    BY DEF OnePerWallet
  <1>2. \A other \in messages \ {msg} : other.from # msg.from
    BY DEF OnePerWallet
  <1>3. ASSUME NEW b, b # msg.from
        PROVE  ShellIn(messages \ {msg}, b) = ShellIn(messages, b)
    <2>1. CASE \E other \in messages : other.from = b
      <3>1. PICK other \in messages : other.from = b
        BY <2>1
      <3>2. other \in messages \ {msg}
        BY <1>3, <3>1
      <3> QED BY <1>1, <3>1, <3>2, ShellInIs
    <2>2. CASE ~ \E other \in messages : other.from = b
      BY <1>1, <2>2, ShellInIs
    <2> QED BY <2>1, <2>2
  <1> QED BY <1>1, <1>2, <1>3, ShellInIs

(***************************************************************************)
(* At first every wallet holds its budget, and the lot is free.            *)
(***************************************************************************)
LEMMA PaymentsInitially ==
  PaymentsInit => PaymentsInv
  <1> SUFFICES ASSUME PaymentsInit
               PROVE  PaymentsInv
    OBVIOUS
  <1> USE PaymentsAssumption
  <1>1. PaymentsTyped
    BY DEF PaymentsInit, PaymentsTyped, Lots, OnePerWallet
  <1>2. ASSUME NEW b \in Buyer
        PROVE  Balanced(b)
    <2>1. b # NoBuyer
      OBVIOUS
    <2> QED BY <2>1 DEF PaymentsInit, Balanced, Reserved, ShellIn
  <1>3. VerifyTyped /\ ReadHolds
    BY DEF PaymentsInit, NoVerify, VerifyTyped, VerifyAnswers, ReadHolds
  <1> QED BY <1>1, <1>2, <1>3 DEF PaymentsInit, PaymentsInv

(***************************************************************************)
(* A wallet sends: what it held is under way, and no one else's changes.   *)
(***************************************************************************)
LEMMA ForwardKeeps ==
  ASSUME PaymentsInv, NEW payment \in Calls, Forward(payment)
  PROVE  PaymentsInv'
  <1>1. /\ payment.from \in Buyer /\ payment.shell \in Nat
        /\ payment.shell <= funds[payment.from]
        /\ funds' = [funds EXCEPT ![payment.from] = @ - payment.shell]
        /\ lot' = lot /\ paid' = paid /\ intents' = intents
        /\ verify' = verify /\ raced' = raced
    BY DEF Forward, Calls
  <1>2. OnePerWallet(inner) /\ \A other \in inner : other.from # payment.from
    BY DEF PaymentsInv, PaymentsTyped, Forward
  <1>3. inner' = inner \cup {payment}
    BY DEF Forward
  <1>4. /\ OnePerWallet(inner') /\ ShellIn(inner', payment.from) = payment.shell
        /\ \A b : b # payment.from => ShellIn(inner', b) = ShellIn(inner, b)
    <2>1. /\ OnePerWallet(inner \cup {payment})
          /\ ShellIn(inner \cup {payment}, payment.from) = payment.shell
          /\ \A b : b # payment.from => ShellIn(inner \cup {payment}, b) = ShellIn(inner, b)
      BY <1>2, ShellTakenUp
    <2> QED BY <1>3, <2>1
  <1>5. PaymentsTyped'
    BY <1>1, <1>3, <1>4 DEF PaymentsInv, PaymentsTyped
  <1>6. ASSUME NEW b \in Buyer
        PROVE  Balanced(b)'
    <2>1. /\ Balanced(b) /\ funds[b] \in Nat /\ paid[b] \in Nat /\ Reserved(b) \in Nat
          /\ Reserved(b)' = Reserved(b)
      BY <1>1 DEF PaymentsInv, PaymentsTyped, Lots, Reserved
    <2>2. CASE b = payment.from
      <3>1. ShellIn(inner, b) = 0
        BY <1>2, <2>2, ShellInIs
      <3>2. funds'[b] = funds[b] - payment.shell
        BY <1>1, <2>2 DEF PaymentsInv, PaymentsTyped
      <3> QED BY <1>1, <1>4, <2>1, <2>2, <3>1, <3>2 DEF Balanced
    <2>3. CASE b # payment.from
      <3>1. funds'[b] = funds[b]
        BY <1>1, <2>3 DEF PaymentsInv, PaymentsTyped
      <3> QED BY <1>1, <1>4, <2>1, <2>3, <3>1 DEF Balanced
    <2> QED BY <2>2, <2>3
  <1>7. VerifyTyped' /\ ReadHolds'
    BY <1>1 DEF PaymentsInv, VerifyTyped, ReadHolds
  <1> QED BY <1>1, <1>5, <1>6, <1>7 DEF PaymentsInv

(***************************************************************************)
(* What is prepared changes no one's SHELL.                                *)
(***************************************************************************)
LEMMA PrepareKeeps ==
  ASSUME PaymentsInv, NEW payment \in Calls, Prepare(payment)
  PROVE  PaymentsInv'
  BY DEF PaymentsInv, Prepare, PaymentsTyped, Balanced, Reserved, VerifyTyped, ReadHolds

(***************************************************************************)
(* The lot takes a message up, refuses it, or pays the buyer out.          *)
(***************************************************************************)
LEMMA DeliveryKeeps ==
  ASSUME PaymentsInv, NEW msg \in inner, DeliverToLot(msg)
  PROVE  PaymentsInv'
  <1> USE PaymentsAssumption DEF PaymentsInv
  <1> DEFINE b == msg.from
             bought == lot.alive /\ msg.method = "buyTokens" /\ lot.buyer \in {NoBuyer, b}
             cancelled == lot.alive /\ msg.method = "cancel" /\ lot.buyer = b
  <1>1. /\ b \in Buyer /\ msg.shell \in Nat /\ msg.payout = b
        /\ OnePerWallet(inner) /\ b # NoBuyer
    BY DEF PaymentsTyped, Calls
  <1>2. /\ inner' = inner \ {msg}
        /\ paid' = paid /\ intents' = intents /\ verify' = verify
    BY DEF DeliverToLot
  <1>3. inner' \subseteq Calls /\ OnePerWallet(inner')
    BY <1>1, <1>2 DEF PaymentsTyped, OnePerWallet
  <1>4. ShellIn(inner, b) = msg.shell /\ ShellIn(inner', b) = 0
    <2>1. \A other \in inner' : other.from # b
      BY <1>1, <1>2 DEF OnePerWallet
    <2> QED BY <1>1, <1>3, <2>1, ShellInIs
  <1>5. \A o \in Buyer \ {b} : ShellIn(inner', o) = ShellIn(inner, o)
    BY <1>1, <1>2, ShellHandedOver
  <1>6. CASE bought
    <2>1. /\ lot' = [lot EXCEPT !.buyer = b, !.reserved = @ + msg.shell]
          /\ funds' = funds
          /\ raced' = (raced \/ (verify.at # "idle" /\ b # lot.buyer))
      BY <1>6 DEF DeliverToLot, Moves, PaymentsTyped
    <2>2. lot'.buyer = b /\ lot'.reserved = lot.reserved + msg.shell
      BY <2>1 DEF PaymentsTyped, Lots
    <2>3. PaymentsTyped'
      <3>1. lot \in Lots /\ lot.reserved + msg.shell \in Nat
        BY <1>1 DEF PaymentsTyped, Lots
      <3>2. lot' \in Lots
        <4> HIDE DEF PaymentsInv
        <4> QED BY <1>1, <2>1, <3>1 DEF Lots
      <3> QED BY <1>2, <1>3, <2>1, <3>2 DEF PaymentsTyped
    <2>4. ASSUME NEW o \in Buyer
          PROVE  Balanced(o)'
      <3>1. /\ Balanced(o) /\ funds[o] \in Nat /\ paid[o] \in Nat /\ Reserved(o) \in Nat
            /\ lot.buyer = NoBuyer => lot.reserved = 0
        BY DEF PaymentsTyped, Lots, Reserved
      <3>2. CASE o = b
        <4>1. Reserved(o) = lot.reserved /\ Reserved(o)' = lot.reserved + msg.shell
          BY <1>6, <2>2, <3>1, <3>2 DEF Reserved
        <4> QED BY <1>1, <1>2, <1>4, <2>1, <3>1, <3>2, <4>1 DEF Balanced, PaymentsTyped
      <3>3. CASE o # b
        <4>1. Reserved(o) = 0 /\ Reserved(o)' = 0
          BY <1>6, <2>2, <3>3 DEF Reserved
        <4> QED BY <1>2, <1>5, <2>1, <3>1, <3>3, <4>1 DEF Balanced
      <3> QED BY <3>2, <3>3
    <2>5. VerifyTyped'
      BY <1>2, <2>1 DEF VerifyTyped
    <2>6. ReadHolds'
      <3> SUFFICES ASSUME verify.at = "buyer", ~raced', b = verify.who
                   PROVE  /\ verify.who \in Buyer /\ verify.reserved \in Nat
                          /\ lot'.reserved + paid[verify.who] >= verify.reserved
        BY <1>2, <2>2 DEF ReadHolds
      <3>1. lot.buyer = b /\ ~raced
        BY <2>1, <2>5 DEF VerifyTyped
      <3>2. /\ verify.who \in Buyer /\ verify.reserved \in Nat
            /\ lot.reserved + paid[verify.who] >= verify.reserved
        BY <3>1 DEF ReadHolds
      <3>3. lot.reserved \in Nat /\ paid[verify.who] \in Nat
        BY <3>2 DEF PaymentsTyped, Lots
      <3> QED BY <1>1, <2>2, <3>2, <3>3
    <2> QED BY <1>1, <2>2, <2>3, <2>4, <2>5, <2>6
  <1>7. CASE cancelled
    <2>1. /\ lot' = [lot EXCEPT !.buyer = NoBuyer, !.reserved = 0]
          /\ funds' = [funds EXCEPT ![b] = @ + lot.reserved]
          /\ raced' = (raced \/ (verify.at # "idle" /\ NoBuyer # lot.buyer))
      BY <1>1, <1>7 DEF DeliverToLot, Moves, PaymentsTyped
    <2>2. lot'.buyer = NoBuyer /\ lot'.reserved = 0
      BY <2>1 DEF PaymentsTyped, Lots
    <2>3. PaymentsTyped'
      <3>1. lot' \in Lots
        BY <2>1 DEF PaymentsTyped, Lots
      <3>2. lot.reserved \in Nat /\ funds[b] + lot.reserved \in Nat
        BY <1>1 DEF PaymentsTyped, Lots
      <3>3. funds' \in [Buyer -> Nat]
        BY <1>1, <2>1, <3>2 DEF PaymentsTyped
      <3> QED BY <1>2, <1>3, <3>1, <3>3 DEF PaymentsTyped
    <2>4. msg.shell = 0
      BY <1>7 DEF PaymentsTyped, Calls
    <2>5. ASSUME NEW o \in Buyer
          PROVE  Balanced(o)'
      <3>1. /\ Balanced(o) /\ funds[o] \in Nat /\ paid[o] \in Nat /\ Reserved(o) \in Nat
            /\ o # NoBuyer
        BY DEF PaymentsTyped, Lots, Reserved
      <3>2. Reserved(o)' = 0
        BY <2>2, <3>1 DEF Reserved
      <3>3. CASE o = b
        <4>1. Reserved(o) = lot.reserved /\ funds'[o] = funds[o] + lot.reserved
          BY <1>7, <2>1, <3>3 DEF Reserved, PaymentsTyped
        <4> QED BY <1>2, <1>4, <2>4, <3>1, <3>2, <3>3, <4>1 DEF Balanced
      <3>4. CASE o # b
        <4>1. Reserved(o) = 0 /\ funds'[o] = funds[o]
          BY <1>7, <2>1, <3>4 DEF Reserved, PaymentsTyped
        <4> QED BY <1>2, <1>5, <3>1, <3>2, <3>4, <4>1 DEF Balanced
      <3> QED BY <3>3, <3>4
    <2>6. VerifyTyped'
      BY <1>2, <2>1 DEF VerifyTyped
    <2>7. ReadHolds'
      BY <1>1, <1>2, <2>1, <2>2 DEF ReadHolds, VerifyTyped
    <2> QED BY <2>2, <2>3, <2>5, <2>6, <2>7
  <1>8. CASE ~bought /\ ~cancelled
    <2>1. lot' = lot /\ raced' = raced /\ funds' = [funds EXCEPT ![b] = @ + msg.shell]
      BY <1>8 DEF DeliverToLot
    <2>2. PaymentsTyped'
      BY <1>1, <1>2, <1>3, <2>1 DEF PaymentsTyped
    <2>3. ASSUME NEW o \in Buyer
          PROVE  Balanced(o)'
      <3>1. /\ Balanced(o) /\ funds[o] \in Nat /\ paid[o] \in Nat /\ Reserved(o) \in Nat
            /\ Reserved(o)' = Reserved(o)
        BY <2>1 DEF PaymentsTyped, Lots, Reserved
      <3>2. CASE o = b
        <4>1. funds'[o] = funds[o] + msg.shell
          BY <2>1, <3>2 DEF PaymentsTyped
        <4> QED BY <1>1, <1>2, <1>4, <3>1, <3>2, <4>1 DEF Balanced
      <3>3. CASE o # b
        <4>1. funds'[o] = funds[o]
          BY <2>1, <3>3 DEF PaymentsTyped
        <4> QED BY <1>2, <1>5, <3>1, <3>3, <4>1 DEF Balanced
      <3> QED BY <3>2, <3>3
    <2>4. VerifyTyped' /\ ReadHolds'
      BY <1>2, <2>1 DEF VerifyTyped, ReadHolds
    <2> QED BY <2>1, <2>2, <2>3, <2>4
  <1> QED BY <1>6, <1>7, <1>8

(***************************************************************************)
(* A billed session moves one SHELL of what the lot's buyer has reserved   *)
(* to what that buyer has paid.                                            *)
(***************************************************************************)
LEMMA BillingKeeps ==
  ASSUME PaymentsInv, BillSession
  PROVE  PaymentsInv'
  <1>1. PICK next \in {lot.buyer} \cup (IF lot.reserved = 1 THEN {NoBuyer} ELSE {}) :
          Moves([lot EXCEPT !.reserved = @ - 1, !.owed = @ + 1, !.buyer = next])
    BY DEF BillSession
  <1>2. /\ lot' = [lot EXCEPT !.reserved = @ - 1, !.owed = @ + 1, !.buyer = next]
        /\ raced' = (raced \/ (verify.at # "idle" /\ lot'.buyer # lot.buyer))
    BY <1>1 DEF Moves
  <1>3. /\ funds' = funds /\ intents' = intents /\ inner' = inner /\ verify' = verify
        /\ paid' = [paid EXCEPT ![lot.buyer] = @ + 1]
    BY DEF BillSession
  <1>4. lot \in Lots /\ lot.reserved \in Nat /\ lot.owed \in Nat /\ lot.reserved > 0
    BY DEF PaymentsInv, PaymentsTyped, Lots, BillSession
  <1>5. lot.buyer \in Buyer /\ lot.buyer # NoBuyer
    BY <1>4, PaymentsAssumption DEF PaymentsInv, Lots
  <1>6. /\ lot'.buyer = next /\ lot'.reserved = lot.reserved - 1
        /\ next # lot.buyer => next = NoBuyer /\ lot.reserved = 1
    BY <1>2, <1>4 DEF Lots
  <1>7. PaymentsTyped'
    <2>1. lot' \in Lots
      <3>1. /\ next \in Buyer \cup {NoBuyer}
            /\ lot.reserved - 1 \in Nat /\ lot.owed + 1 \in Nat
        BY <1>4, <1>5, <1>6
      <3> QED BY <1>2, <1>4, <3>1 DEF Lots
    <2>2. paid' \in [Buyer -> Nat]
      BY <1>3, <1>5 DEF PaymentsInv, PaymentsTyped
    <2> QED BY <1>3, <2>1, <2>2 DEF PaymentsInv, PaymentsTyped
  <1>8. lot'.buyer = NoBuyer => lot'.reserved = 0
    BY <1>4, <1>5, <1>6
  <1>9. ASSUME NEW b \in Buyer
        PROVE  Balanced(b)'
    <2>1. Balanced(b) /\ funds[b] \in Nat /\ paid[b] \in Nat /\ b # NoBuyer
      BY PaymentsAssumption DEF PaymentsInv, PaymentsTyped
    <2>2. CASE b = lot.buyer
      <3>1. paid'[b] = paid[b] + 1
        BY <1>3, <2>2 DEF PaymentsInv, PaymentsTyped
      <3>2. Reserved(b) = lot.reserved /\ Reserved(b)' = lot.reserved - 1
        BY <1>4, <1>6, <2>1, <2>2 DEF Reserved
      <3>3. funds[b] + ShellIn(inner, b) + paid[b] + lot.reserved = BUDGET
        BY <2>1, <3>2 DEF Balanced
      <3>4. ShellIn(inner, b) \in Nat
        BY DEF PaymentsInv, PaymentsTyped, ShellIn, Calls
      <3> QED BY <1>3, <1>4, <2>1, <3>1, <3>2, <3>3, <3>4 DEF Balanced
    <2>3. CASE b # lot.buyer
      <3>1. paid'[b] = paid[b]
        BY <1>3, <2>3 DEF PaymentsInv, PaymentsTyped
      <3>2. Reserved(b) = 0 /\ Reserved(b)' = 0
        BY <1>6, <2>1, <2>3 DEF Reserved
      <3> QED BY <1>3, <2>1, <3>1, <3>2 DEF Balanced
    <2> QED BY <2>2, <2>3
  <1>10. VerifyTyped'
    BY <1>2, <1>3 DEF PaymentsInv, VerifyTyped
  <1>11. ReadHolds'
    <2> SUFFICES ASSUME verify.at = "buyer", ~raced', next = verify.who
                 PROVE  /\ verify.who \in Buyer /\ verify.reserved \in Nat
                        /\ lot'.reserved + paid'[verify.who] >= verify.reserved
      BY <1>3, <1>6 DEF ReadHolds
    <2>1. lot.buyer = verify.who /\ ~raced
      BY <1>2, <1>6, <1>10 DEF PaymentsInv, VerifyTyped
    <2>2. /\ verify.who \in Buyer /\ verify.reserved \in Nat
          /\ lot.reserved + paid[verify.who] >= verify.reserved
      BY <2>1 DEF PaymentsInv, ReadHolds
    <2>3. paid[verify.who] \in Nat /\ paid'[verify.who] = paid[verify.who] + 1
      BY <1>3, <2>1, <2>2 DEF PaymentsInv, PaymentsTyped
    <2> QED BY <1>4, <1>6, <2>2, <2>3
  <1> QED BY <1>7, <1>8, <1>9, <1>10, <1>11 DEF PaymentsInv

(***************************************************************************)
(* The seller takes what is owed, and a lot is destroyed only when nothing *)
(* is reserved in it.                                                      *)
(***************************************************************************)
LEMMA WithdrawalKeeps ==
  ASSUME PaymentsInv, WithdrawShell
  PROVE  PaymentsInv'
  <1>1. PICK gone \in BOOLEAN :
          /\ gone => lot.reserved = 0
          /\ Moves([lot EXCEPT !.owed = 0, !.alive = ~gone,
                               !.buyer = IF gone THEN NoBuyer ELSE @])
    BY DEF WithdrawShell
  <1>2. /\ lot' = [lot EXCEPT !.owed = 0, !.alive = ~gone,
                               !.buyer = IF gone THEN NoBuyer ELSE @]
        /\ raced' = (raced \/ (verify.at # "idle" /\ lot'.buyer # lot.buyer))
    BY <1>1 DEF Moves
  <1>3. /\ funds' = funds /\ paid' = paid /\ intents' = intents /\ inner' = inner
        /\ verify' = verify
    BY DEF WithdrawShell
  <1>4. lot \in Lots
    BY DEF PaymentsInv, PaymentsTyped
  <1>5. /\ lot'.reserved = lot.reserved
        /\ lot'.buyer = IF gone THEN NoBuyer ELSE lot.buyer
    BY <1>2, <1>4 DEF Lots
  <1>6. PaymentsTyped'
    <2>1. lot' \in Lots
      BY <1>2, <1>4 DEF Lots
    <2> QED BY <1>3, <2>1 DEF PaymentsInv, PaymentsTyped
  <1>7. lot'.buyer = NoBuyer => lot'.reserved = 0
    BY <1>1, <1>5 DEF PaymentsInv
  <1>8. ASSUME NEW b \in Buyer
        PROVE  Balanced(b)'
    <2>1. Balanced(b) /\ b # NoBuyer
      BY PaymentsAssumption DEF PaymentsInv
    <2>2. Reserved(b)' = Reserved(b)
      BY <1>1, <1>5, <2>1 DEF Reserved
    <2> QED BY <1>3, <2>1, <2>2 DEF Balanced
  <1>9. VerifyTyped'
    BY <1>2, <1>3 DEF PaymentsInv, VerifyTyped
  <1>10. ReadHolds'
    BY <1>2, <1>3, <1>5, PaymentsAssumption DEF PaymentsInv, VerifyTyped, ReadHolds
  <1> QED BY <1>6, <1>7, <1>8, <1>9, <1>10 DEF PaymentsInv

(***************************************************************************)
(* A verification touches nothing but its own record, and what it reads    *)
(* is what is reserved.                                                    *)
(***************************************************************************)
LEMMA VerificationKeeps ==
  ASSUME PaymentsInv,
         \/ \E b \in Buyer, min \in Amount : VerifyStarts(b, min)
         \/ ReadLot \/ ReadCounters \/ ReadCurrentBuyer \/ ReadFails
  PROVE  PaymentsInv'
  <1>1. /\ lot' = lot /\ funds' = funds /\ paid' = paid
        /\ intents' = intents /\ inner' = inner
    BY DEF VerifyStarts, ReadLot, ReadCounters, ReadCurrentBuyer, ReadFails
  <1>2. VerifyTyped' /\ ReadHolds'
    <2>1. CASE \E b \in Buyer, min \in Amount : VerifyStarts(b, min)
      <3>1. PICK b \in Buyer, min \in Amount : VerifyStarts(b, min)
        BY <2>1
      <3>2. /\ verify' = [at |-> "lot", who |-> b, min |-> min, reserved |-> 0, status |-> ""]
            /\ raced' = FALSE /\ min \in Nat
        BY <3>1, PaymentsAssumption DEF VerifyStarts, NoVerify
      <3> QED BY <3>2 DEF VerifyTyped, VerifyAnswers, ReadHolds
    <2>2. ASSUME NEW status \in VerifyAnswers, Ready(status), raced' = raced
          PROVE  VerifyTyped' /\ ReadHolds'
      BY <2>2 DEF Ready, PaymentsInv, VerifyTyped, ReadHolds
    <2>3. CASE ReadLot
      <3>1. CASE lot.alive
        BY <2>3, <3>1 DEF ReadLot, PaymentsInv, VerifyTyped, ReadHolds
      <3>2. CASE ~lot.alive
        BY <2>2, <2>3, <3>2 DEF ReadLot, VerifyAnswers
      <3> QED BY <3>1, <3>2
    <2>4. CASE ReadCounters
      <3>1. CASE lot.alive
        <4>1. verify' = [verify EXCEPT !.at = "buyer", !.reserved = lot.reserved]
              /\ raced' = raced /\ verify.who \in Buyer
          BY <2>4, <3>1 DEF ReadCounters, PaymentsInv, VerifyTyped
        <4>2. lot.reserved \in Nat /\ paid[verify.who] \in Nat
          BY <4>1 DEF PaymentsInv, PaymentsTyped, Lots
        <4>3. VerifyTyped'
          BY <4>1, <4>2 DEF PaymentsInv, VerifyTyped
        <4>4. verify'.who = verify.who /\ verify'.reserved = lot.reserved
          BY <4>1 DEF PaymentsInv, VerifyTyped
        <4> QED BY <1>1, <4>1, <4>2, <4>3, <4>4 DEF ReadHolds
      <3>2. CASE ~lot.alive
        BY <2>2, <2>4, <3>2 DEF ReadCounters, VerifyAnswers
      <3> QED BY <3>1, <3>2
    <2>5. CASE ReadCurrentBuyer
      <3>1. Status(lot.buyer = verify.who) \in VerifyAnswers
        BY DEF Status, VerifyAnswers
      <3> QED BY <2>2, <2>5, <3>1 DEF ReadCurrentBuyer, VerifyAnswers
    <2>6. CASE ReadFails
      BY <2>2, <2>6 DEF ReadFails, VerifyAnswers
    <2> QED BY <2>1, <2>3, <2>4, <2>5, <2>6
  <1> QED BY <1>1, <1>2 DEF PaymentsInv, PaymentsTyped, Balanced, Reserved

(***************************************************************************)
(* The invariant is inductive.                                             *)
(***************************************************************************)
LEMMA PaymentsStep ==
  ASSUME PaymentsInv, [PaymentsNext]_paymentVars
  PROVE  PaymentsInv'
  <1>1. CASE \E b \in Buyer, shell \in Amount : BuyTokens(b, shell)
    <2>1. PICK b \in Buyer, shell \in Amount : BuyTokens(b, shell)
      BY <1>1
    <2>2. WalletCall(b, shell, "buyTokens", b) \in Calls
      BY PaymentsAssumption DEF WalletCall, Calls
    <2> QED BY <2>1, <2>2, ForwardKeeps DEF BuyTokens
  <1>2. CASE \E b \in Buyer : CancelReservation(b)
    <2>1. PICK b \in Buyer : CancelReservation(b)
      BY <1>2
    <2>2. WalletCall(b, 0, "cancel", b) \in Calls
      BY DEF WalletCall, Calls
    <2> QED BY <2>1, <2>2, ForwardKeeps DEF CancelReservation
  <1>3. CASE \E u \in User, shell \in Amount : PrepareUserBuyTokens(u, shell)
    <2>1. PICK u \in User, shell \in Amount : PrepareUserBuyTokens(u, shell)
      BY <1>3
    <2>2. WalletCall(u, shell, "buyTokens", u) \in Calls
      BY PaymentsAssumption DEF WalletCall, Calls
    <2> QED BY <2>1, <2>2, PrepareKeeps DEF PrepareUserBuyTokens
  <1>4. CASE \E u \in User : PrepareUserCancel(u)
    <2>1. PICK u \in User : PrepareUserCancel(u)
      BY <1>4
    <2>2. WalletCall(u, 0, "cancel", u) \in Calls
      BY PaymentsAssumption DEF WalletCall, Calls
    <2> QED BY <2>1, <2>2, PrepareKeeps DEF PrepareUserCancel
  <1>5. CASE \E intent \in intents : CarryOut(intent)
    BY <1>5, ForwardKeeps DEF CarryOut, PaymentsInv, PaymentsTyped
  <1>6. CASE \E msg \in inner : DeliverToLot(msg)
    BY <1>6, DeliveryKeeps
  <1>7. CASE BillSession \/ WithdrawShell
    BY <1>7, BillingKeeps, WithdrawalKeeps
  <1>8. CASE \/ \E b \in Buyer, min \in Amount : VerifyStarts(b, min)
             \/ ReadLot \/ ReadCounters \/ ReadCurrentBuyer \/ ReadFails
    BY <1>8, VerificationKeeps
  <1>9. CASE UNCHANGED paymentVars
    BY <1>9 DEF paymentVars, PaymentsInv, PaymentsTyped, Balanced, Reserved,
                VerifyTyped, ReadHolds
  <1> QED BY <1>1, <1>2, <1>3, <1>4, <1>5, <1>6, <1>7, <1>8, <1>9 DEF PaymentsNext

(***************************************************************************)
(* Only the last read answers "verified", and what was read then holds.    *)
(***************************************************************************)
LEMMA VerifiedHolds ==
  ASSUME PaymentsInv, [PaymentsNext]_paymentVars,
         verify'.at = "idle", verify'.status = "verified", verify.at # "idle", ~raced
  PROVE  lot.buyer = verify.who /\ lot.reserved + paid[verify.who] >= verify.min
  <1>1. verify' # verify
    OBVIOUS
  <1>2. ReadLot \/ ReadCounters \/ ReadCurrentBuyer \/ ReadFails
    BY <1>1 DEF PaymentsNext, paymentVars, BuyTokens, CancelReservation, CarryOut, Forward,
                PrepareUserBuyTokens, PrepareUserCancel, Prepare, DeliverToLot,
                BillSession, WithdrawShell, VerifyStarts
  <1>3. verify \in [at : {"idle", "lot", "counters", "buyer"}, who : Buyer \cup {NoBuyer},
                    min : Nat, reserved : Nat, status : VerifyAnswers]
    BY DEF PaymentsInv, VerifyTyped
  <1>4. \A status : Ready(status) => verify'.status = status
    BY <1>3 DEF Ready
  <1>5. ReadCurrentBuyer
    BY <1>2, <1>3, <1>4 DEF ReadLot, ReadCounters, ReadFails
  <1>6. verify.at = "buyer" /\ Status(lot.buyer = verify.who) = "verified"
    BY <1>4, <1>5 DEF ReadCurrentBuyer
  <1>7. lot.buyer = verify.who /\ ~(verify.reserved < verify.min)
    BY <1>6 DEF Status
  <1>8. /\ verify.who \in Buyer /\ verify.reserved \in Nat
        /\ lot.reserved + paid[verify.who] >= verify.reserved
    BY <1>6, <1>7 DEF PaymentsInv, ReadHolds
  <1>9. lot.reserved \in Nat /\ paid[verify.who] \in Nat /\ verify.min \in Nat
    BY <1>3, <1>8 DEF PaymentsInv, PaymentsTyped, Lots
  <1> QED BY <1>7, <1>8, <1>9

(***************************************************************************)
(* Refunds reach their payers, and readiness is not reported in error:     *)
(* whatever purchases, cancellations, bounces, bills and reads cross each  *)
(* other, for any number of wallets.                                       *)
(***************************************************************************)
THEOREM PaymentsStayHonest == PaymentsSpec => PaymentsAreHonest
  <1>1. PaymentsInit => PaymentsInv
    BY PaymentsInitially
  <1>2. PaymentsInv /\ [PaymentsNext]_paymentVars => PaymentsInv'
    BY PaymentsStep
  <1>3. PaymentsInv => RefundsStayWithBuyer
    BY DEF PaymentsInv, Balanced, Reserved, ShellIn, RefundsStayWithBuyer, UnderWay
  <1>4. PaymentsInv /\ [PaymentsNext]_paymentVars =>
          [verify'.at = "idle" /\ verify'.status = "verified" /\ verify.at # "idle" /\ ~raced =>
             lot.buyer = verify.who
             /\ lot.reserved + paid[verify.who] >= verify.min]_paymentVars
    BY VerifiedHolds
  <1> QED BY <1>1, <1>2, <1>3, <1>4, PTL
          DEF PaymentsSpec, PaymentsAreHonest, VerifiedUnlessRaced

-----------------------------------------------------------------------------
(* Wallet keys *)

Work ==
  [at : {"idle", "priv", "pub", "look", "read", "send", "name", "point"},
   tool : {"", "create_keys", "deploy_buyer", "deploy_wallet"},
   role : Nat \ {0}, pair : Nat, owners : Seq(Nat), confirms : Nat, wallet : Nat]

StoredKeys == [{"priv", "pub"} -> [DOMAIN Roles -> Nat]]

SpendsAlone(n) == n \in DOMAIN wallets /\ wallets[n].confirms = 1

(***************************************************************************)
(* What holds of a call whatever was done to the keys.                     *)
(***************************************************************************)
CallInv(w) ==
  /\ w.at \in {"priv", "pub", "read"} => w.role \in DOMAIN Roles
  /\ w.at \in {"priv", "pub"} => w.pair # Missing
  /\ w.at \in {"priv", "pub", "look"} => w.owners = << >>
  /\ w.tool = "deploy_buyer" => w.confirms = 1
  /\ w.at \in {"name", "point"} => w.wallet \in DOMAIN wallets
  /\ w.at \in {"name", "point"} /\ w.tool = "deploy_buyer" => SpendsAlone(w.wallet)
  /\ w.at = "point" => w.tool = "deploy_buyer"

(***************************************************************************)
(* Owners that were read are those whose secrets are stored, and their     *)
(* public keys are.                                                        *)
(***************************************************************************)
AreStored(owners) ==
  \A j \in 1..Len(owners) : owners[j] = keys["priv"][j] /\ keys["pub"][j] # Missing

(***************************************************************************)
(* What holds of a call as long as no role is given keys twice.            *)
(***************************************************************************)
ReadInv(w) ==
  /\ w.at = "pub" => keys["priv"][w.role] = w.pair
  /\ w.at = "read" => Len(w.owners) = w.role - 1 /\ AreStored(w.owners)
  /\ w.at = "send" => Len(w.owners) = Len(Roles) /\ AreStored(w.owners)

(***************************************************************************)
(* A public key is stored after its secret, and a wallet has all the keys. *)
(***************************************************************************)
PairsInv ==
  /\ \A i \in DOMAIN Roles : keys["pub"][i] # Missing => keys["priv"][i] = keys["pub"][i]
  /\ \A n \in DOMAIN wallets :
       /\ wallets[n].owners = keys["priv"]
       /\ \A i \in DOMAIN Roles : keys["pub"][i] # Missing

KeysTyped ==
  /\ work \in [Worker -> Work]
  /\ keys \in StoredKeys
  /\ pairs \in Nat
  /\ wallets \in Seq([owners : Seq(Nat), confirms : Nat])
  /\ rekeyed \in BOOLEAN

KeysInv ==
  /\ KeysTyped
  /\ operWallet # Missing => SpendsAlone(operWallet)
  /\ \A t \in Worker : CallInv(work[t])
  /\ ~rekeyed => PairsInv /\ \A t \in Worker : ReadInv(work[t])

(***************************************************************************)
(* A waiting call promises nothing.                                        *)
(***************************************************************************)
LEMMA WaitingInv == Waiting \in Work /\ CallInv(Waiting) /\ ReadInv(Waiting)
  <1>1. << >> \in Seq(Nat) /\ 1 \in Nat \ {0} /\ 0 \in Nat
    OBVIOUS
  <1>2. Waiting \in Work
    BY <1>1 DEF Waiting, Work, Missing
  <1> QED BY <1>2 DEF Waiting, CallInv, ReadInv

(***************************************************************************)
(* At first nothing is stored and no wallet deployed.                      *)
(***************************************************************************)
LEMMA KeysInitially == KeysInit => KeysInv
  <1> SUFFICES ASSUME KeysInit
               PROVE  KeysInv
    OBVIOUS
  <1>1. /\ keys["priv"] = [i \in DOMAIN Roles |-> Missing]
        /\ keys["pub"] = [i \in DOMAIN Roles |-> Missing]
        /\ keys \in StoredKeys
    BY DEF KeysInit, StoredKeys, Missing
  <1>2. wallets = << >> /\ operWallet = Missing /\ pairs = 0 /\ rekeyed = FALSE
    BY DEF KeysInit
  <1>3. \A t \in Worker : work[t] = Waiting
    BY DEF KeysInit
  <1>4. KeysTyped
    <2>1. work \in [Worker -> Work]
      BY WaitingInv DEF KeysInit
    <2>2. wallets \in Seq([owners : Seq(Nat), confirms : Nat]) /\ pairs \in Nat
      BY <1>2
    <2>3. rekeyed \in BOOLEAN
      BY <1>2
    <2> QED BY <1>1, <2>1, <2>2, <2>3 DEF KeysTyped
  <1>5. PairsInv
    BY <1>1, <1>2 DEF PairsInv
  <1> QED BY <1>2, <1>3, <1>4, <1>5, WaitingInv DEF KeysInv

(***************************************************************************)
(* A step of one call that leaves the keys, the chain and the pointers.    *)
(***************************************************************************)
LEMMA CallGoesOn ==
  ASSUME KeysInv, NEW t \in Worker, NEW w \in Work, Goes(t, w),
         pairs' \in Nat, UNCHANGED <<keys, wallets, operWallet>>,
         rekeyed' \in BOOLEAN, rekeyed => rekeyed',
         CallInv(w), ~rekeyed => ReadInv(w)
  PROVE  KeysInv'
  <1>1. /\ work' \in [Worker -> Work] /\ work'[t] = w
        /\ \A u \in Worker \ {t} : work'[u] = work[u]
    BY DEF KeysInv, KeysTyped, Goes
  <1>2. KeysTyped'
    BY <1>1 DEF KeysInv, KeysTyped
  <1>3. \A u \in Worker : CallInv(work[u])'
    BY <1>1 DEF KeysInv, CallInv, SpendsAlone
  <1>4. ~rekeyed' => PairsInv'
    BY DEF KeysInv, PairsInv
  <1>5. ASSUME ~rekeyed', NEW u \in Worker
        PROVE  ReadInv(work[u])'
    <2>1. ReadInv(work'[u])
      BY <1>1, <1>5 DEF KeysInv
    <2> QED BY <2>1 DEF ReadInv, AreStored
  <1> QED BY <1>2, <1>3, <1>4, <1>5 DEF KeysInv, SpendsAlone

(***************************************************************************)
(* What a call finds stored: of keys of another role, what was there.      *)
(***************************************************************************)
LEMMA KeyStored ==
  ASSUME keys \in StoredKeys, NEW kind \in {"priv", "pub"},
         NEW row \in [DOMAIN Roles -> Nat], keys' = [keys EXCEPT ![kind] = row]
  PROVE  /\ keys' \in StoredKeys /\ keys'[kind] = row
         /\ \A other \in {"priv", "pub"} \ {kind} : keys'[other] = keys[other]
  BY DEF StoredKeys

(***************************************************************************)
(* No call reads more owners than there are roles.                         *)
(***************************************************************************)
LEMMA OwnersAreOfRoles ==
  ASSUME NEW w \in Work, CallInv(w), ReadInv(w), w.at \in {"read", "send"}
  PROVE  \A j \in 1..Len(w.owners) : j \in DOMAIN Roles
  <1>1. w.owners \in Seq(Nat) /\ w.role \in Nat
    BY DEF Work
  <1>2. CASE w.at = "read"
    <2>1. w.role \in 1..Len(Roles) /\ Len(w.owners) = w.role - 1
      BY <1>2, RolesAssumption DEF CallInv, ReadInv
    <2> QED BY <1>1, <2>1, RolesAssumption
  <1>3. CASE w.at = "send"
    <2>1. Len(w.owners) = Len(Roles)
      BY <1>3 DEF ReadInv
    <2> QED BY <2>1, RolesAssumption
  <1> QED BY <1>2, <1>3

(***************************************************************************)
(* A secret is stored while its role has no public key, unless the role is *)
(* given keys twice.                                                       *)
(***************************************************************************)
LEMMA SecretStored ==
  ASSUME KeysInv, NEW t \in Worker, NEW n \in Work, Goes(t, n),
         work[t].at = "priv",
         keys' = [keys EXCEPT !["priv"][work[t].role] = work[t].pair],
         UNCHANGED <<pairs, wallets, operWallet>>, rekeyed' \in BOOLEAN,
         ~rekeyed' => /\ ~rekeyed /\ keys["pub"][work[t].role] = Missing
                      /\ \A u \in Worker \ {t} :
                           work[u].at = "pub" => work[u].role # work[t].role,
         CallInv(n), n.at \in {"idle", "pub", "look"},
         n.at = "pub" => n.role = work[t].role /\ n.pair = work[t].pair
  PROVE  KeysInv'
  <1> DEFINE r == work[t].role
             p == work[t].pair
  <1>1. /\ work' \in [Worker -> Work] /\ work'[t] = n
        /\ \A u \in Worker \ {t} : work'[u] = work[u]
    BY DEF KeysInv, KeysTyped, Goes
  <1>2. r \in DOMAIN Roles /\ p \in Nat
    BY DEF KeysInv, KeysTyped, CallInv, Work
  <1>3. /\ keys' \in StoredKeys /\ keys'["priv"][r] = p
        /\ \A i \in DOMAIN Roles \ {r} : keys'["priv"][i] = keys["priv"][i]
        /\ keys'["pub"] = keys["pub"]
    <2> DEFINE row == [keys["priv"] EXCEPT ![r] = p]
    <2>1. /\ keys' = [keys EXCEPT !["priv"] = row] /\ keys \in StoredKeys
          /\ keys["priv"] \in [DOMAIN Roles -> Nat]
      BY DEF KeysInv, KeysTyped, StoredKeys
    <2>2. "priv" \in {"priv", "pub"} /\ "pub" \in {"priv", "pub"} \ {"priv"}
      OBVIOUS
    <2> HIDE DEF r, p
    <2>3. /\ row \in [DOMAIN Roles -> Nat] /\ row[r] = p
          /\ \A i \in DOMAIN Roles \ {r} : row[i] = keys["priv"][i]
      BY <1>2, <2>1
    <2> HIDE DEF row
    <2>4. /\ keys' \in StoredKeys /\ keys'["priv"] = row
          /\ \A other \in {"priv", "pub"} \ {"priv"} : keys'[other] = keys[other]
      BY <2>1, <2>2, <2>3, KeyStored
    <2> QED BY <2>2, <2>3, <2>4
  <1>4. KeysTyped'
    BY <1>1, <1>3 DEF KeysInv, KeysTyped
  <1>5. \A u \in Worker : CallInv(work[u])'
    BY <1>1 DEF KeysInv, CallInv, SpendsAlone
  <1>6. ~rekeyed' => PairsInv'
    BY <1>2, <1>3 DEF KeysInv, PairsInv
  <1>7. ASSUME ~rekeyed', NEW u \in Worker
        PROVE  ReadInv(work[u])'
    <2>1. CASE u = t
      BY <1>1, <1>3, <2>1 DEF ReadInv
    <2>2. CASE u # t
      <3>1. /\ work'[u] = work[u] /\ ReadInv(work[u]) /\ work[u] \in Work
            /\ CallInv(work[u])
            /\ work[u].at = "pub" => work[u].role # r
        BY <1>1, <1>7, <2>2 DEF KeysInv, KeysTyped
      <3>2. work[u].at = "pub" => keys'["priv"][work[u].role] = work[u].pair
        BY <1>3, <3>1 DEF ReadInv, CallInv
      <3>3. ASSUME work[u].at \in {"read", "send"}
            PROVE  AreStored(work[u].owners)'
        <4>1. AreStored(work[u].owners) /\ keys["pub"][r] = Missing
          BY <1>7, <3>1, <3>3 DEF ReadInv
        <4>2. \A j \in 1..Len(work[u].owners) : j \in DOMAIN Roles
          BY <3>1, <3>3, OwnersAreOfRoles
        <4> QED BY <1>3, <3>1, <4>1, <4>2 DEF AreStored
      <3> QED BY <3>1, <3>2, <3>3 DEF ReadInv
    <2> QED BY <2>1, <2>2
  <1> QED BY <1>4, <1>5, <1>6, <1>7 DEF KeysInv, SpendsAlone

(***************************************************************************)
(* A public key is stored after the secret of its pair.                    *)
(***************************************************************************)
LEMMA PublicKeyStored ==
  ASSUME KeysInv, NEW t \in Worker, NEW n \in Work, Goes(t, n),
         work[t].at = "pub",
         keys' = [keys EXCEPT !["pub"][work[t].role] = work[t].pair],
         UNCHANGED <<pairs, wallets, operWallet>>, rekeyed' \in BOOLEAN,
         rekeyed => rekeyed',
         CallInv(n), n.at \in {"idle", "look"}
  PROVE  KeysInv'
  <1> DEFINE r == work[t].role
             p == work[t].pair
  <1>1. /\ work' \in [Worker -> Work] /\ work'[t] = n
        /\ \A u \in Worker \ {t} : work'[u] = work[u]
    BY DEF KeysInv, KeysTyped, Goes
  <1>2. r \in DOMAIN Roles /\ p \in Nat /\ p # Missing
    BY DEF KeysInv, KeysTyped, CallInv, Work
  <1>3. /\ keys' \in StoredKeys /\ keys'["pub"][r] = p
        /\ \A i \in DOMAIN Roles \ {r} : keys'["pub"][i] = keys["pub"][i]
        /\ keys'["priv"] = keys["priv"]
    <2> DEFINE row == [keys["pub"] EXCEPT ![r] = p]
    <2>1. /\ keys' = [keys EXCEPT !["pub"] = row] /\ keys \in StoredKeys
          /\ keys["pub"] \in [DOMAIN Roles -> Nat]
      BY DEF KeysInv, KeysTyped, StoredKeys
    <2>2. "pub" \in {"priv", "pub"} /\ "priv" \in {"priv", "pub"} \ {"pub"}
      OBVIOUS
    <2> HIDE DEF r, p
    <2>3. /\ row \in [DOMAIN Roles -> Nat] /\ row[r] = p
          /\ \A i \in DOMAIN Roles \ {r} : row[i] = keys["pub"][i]
      BY <1>2, <2>1
    <2> HIDE DEF row
    <2>4. /\ keys' \in StoredKeys /\ keys'["pub"] = row
          /\ \A other \in {"priv", "pub"} \ {"pub"} : keys'[other] = keys[other]
      BY <2>1, <2>2, <2>3, KeyStored
    <2> QED BY <2>2, <2>3, <2>4
  <1>4. KeysTyped'
    BY <1>1, <1>3 DEF KeysInv, KeysTyped
  <1>5. \A u \in Worker : CallInv(work[u])'
    BY <1>1 DEF KeysInv, CallInv, SpendsAlone
  <1>6. \A i \in DOMAIN Roles : keys["pub"][i] # Missing => keys'["pub"][i] # Missing
    BY <1>2, <1>3
  <1>7. ~rekeyed' => PairsInv'
    <2>1. ~rekeyed => keys["priv"][r] = p
      BY DEF KeysInv, ReadInv
    <2> QED BY <1>3, <1>6, <2>1 DEF KeysInv, PairsInv
  <1>8. ASSUME ~rekeyed', NEW u \in Worker
        PROVE  ReadInv(work[u])'
    <2>1. CASE u = t
      BY <1>1, <2>1 DEF ReadInv
    <2>2. CASE u # t
      <3>1. /\ work'[u] = work[u] /\ ReadInv(work[u]) /\ work[u] \in Work
            /\ CallInv(work[u])
        BY <1>1, <1>8, <2>2 DEF KeysInv, KeysTyped
      <3>2. ASSUME work[u].at \in {"read", "send"}
            PROVE  AreStored(work[u].owners)'
        <4>1. AreStored(work[u].owners)
          BY <3>1, <3>2 DEF ReadInv
        <4>2. \A j \in 1..Len(work[u].owners) : j \in DOMAIN Roles
          BY <3>1, <3>2, OwnersAreOfRoles
        <4> QED BY <1>3, <1>6, <3>1, <4>1, <4>2 DEF AreStored
      <3> QED BY <1>3, <3>1, <3>2 DEF ReadInv
    <2> QED BY <2>1, <2>2
  <1> QED BY <1>4, <1>5, <1>7, <1>8 DEF KeysInv, SpendsAlone

(***************************************************************************)
(* Either upsert, with or without its answer.                              *)
(***************************************************************************)
LEMMA PutKeyKeeps ==
  ASSUME KeysInv, NEW t \in Worker, NEW kind \in {"priv", "pub"}, PutKey(t, kind)
  PROVE  KeysInv'
  <1> DEFINE w == work[t]
             stored == [keys EXCEPT ![kind][w.role] = w.pair]
             others == {u \in Worker \ {t} : work[u].at \in {"priv", "pub"}
                                             /\ work[u].role = w.role}
             again == kind = "priv" /\ keys["pub"][w.role] # Missing
  <1>1. /\ w.at = kind
        /\ rekeyed' = (rekeyed \/ others # {} \/ again)
        /\ \/ keys' \in {keys, stored} /\ Goes(t, Waiting)
           \/ /\ keys' = stored
              /\ \/ kind = "priv" /\ Goes(t, [w EXCEPT !.at = "pub"])
                 \/ /\ kind = "pub" /\ w.tool = "deploy_buyer"
                    /\ Goes(t, [w EXCEPT !.at = "look", !.role = @ + 1])
                 \/ kind = "pub" /\ Goes(t, Waiting)
        /\ UNCHANGED <<pairs, wallets, operWallet>>
    BY DEF PutKey, KindOrder, Ends, pointers
  <1>2. w \in Work /\ CallInv(w)
    BY DEF KeysInv, KeysTyped
  <1>3. rekeyed' \in BOOLEAN /\ (~rekeyed' => ~rekeyed /\ others = {} /\ ~again)
    BY <1>1 DEF KeysInv, KeysTyped
  <1>4. CASE keys' = keys /\ Goes(t, Waiting)
    BY <1>1, <1>3, <1>4, WaitingInv, CallGoesOn DEF KeysInv, KeysTyped
  <1>5. ASSUME keys' = stored, NEW n \in Work, Goes(t, n), CallInv(n),
               \/ n.at = "idle"
               \/ kind = "priv" /\ n.at = "pub" /\ n.role = w.role /\ n.pair = w.pair
               \/ kind = "pub" /\ n.at = "look"
        PROVE  KeysInv'
    <2>1. CASE kind = "priv"
      <3>1. \A u \in Worker \ {t} :
              others = {} => (work[u].at = "pub" => work[u].role # w.role)
        OBVIOUS
      <3> QED BY <1>1, <1>3, <1>5, <2>1, <3>1, SecretStored
    <2>2. CASE kind = "pub"
      BY <1>1, <1>3, <1>5, <2>2, PublicKeyStored
    <2> QED BY <2>1, <2>2
  <1>6. CASE keys' = stored /\ Goes(t, Waiting)
    BY <1>5, <1>6, WaitingInv DEF Waiting
  <1>7. CASE keys' = stored /\ kind = "priv" /\ Goes(t, [w EXCEPT !.at = "pub"])
    <2> DEFINE n == [w EXCEPT !.at = "pub"]
    <2>1. /\ n \in Work /\ n.at = "pub" /\ n.role = w.role /\ n.pair = w.pair
          /\ n.tool = w.tool /\ n.confirms = w.confirms /\ n.owners = w.owners
      BY <1>2 DEF Work
    <2>2. CallInv(n)
      BY <1>1, <1>2, <1>7, <2>1 DEF CallInv
    <2> QED BY <1>5, <1>7, <2>1, <2>2
  <1>8. CASE /\ keys' = stored /\ kind = "pub" /\ w.tool = "deploy_buyer"
             /\ Goes(t, [w EXCEPT !.at = "look", !.role = @ + 1])
    <2> DEFINE n == [w EXCEPT !.at = "look", !.role = @ + 1]
    <2>1. w.role \in Nat \ {0}
      BY <1>2 DEF Work
    <2>2. w.role + 1 \in Nat \ {0}
      BY <2>1
    <2>3. /\ n \in Work /\ n.at = "look"
          /\ n.tool = w.tool /\ n.confirms = w.confirms /\ n.owners = w.owners
      BY <1>2, <2>2 DEF Work
    <2>4. CallInv(n)
      BY <1>1, <1>2, <1>8, <2>3 DEF CallInv
    <2> QED BY <1>5, <1>8, <2>3, <2>4
  <1> QED BY <1>1, <1>4, <1>6, <1>7, <1>8

(***************************************************************************)
(* Generating a key pair.                                                  *)
(***************************************************************************)
LEMMA NewPairKeeps ==
  ASSUME KeysInv, NEW t \in Worker, NEW w \in Work, NewPair(t, w),
         w.role \in DOMAIN Roles, w.tool = "deploy_buyer" => w.confirms = 1,
         w.owners = << >>, UNCHANGED <<keys, wallets, operWallet, rekeyed>>
  PROVE  KeysInv'
  <1> DEFINE n == [w EXCEPT !.at = "priv", !.pair = pairs + 1]
  <1>1. pairs' = pairs + 1 /\ Goes(t, n) /\ pairs \in Nat
    BY DEF NewPair, KindOrder, KeysInv, KeysTyped
  <1>2. pairs + 1 \in Nat /\ pairs + 1 # 0
    BY <1>1
  <1>3. /\ n \in Work /\ n.at = "priv" /\ n.pair = pairs + 1 /\ n.role = w.role
        /\ n.tool = w.tool /\ n.confirms = w.confirms /\ n.owners = w.owners
    BY <1>2 DEF Work
  <1>4. CallInv(n) /\ ReadInv(n)
    BY <1>2, <1>3 DEF CallInv, ReadInv, Missing
  <1>5. rekeyed' \in BOOLEAN /\ (rekeyed => rekeyed') /\ pairs' \in Nat
    BY <1>1 DEF KeysInv, KeysTyped
  <1> QED BY <1>1, <1>3, <1>4, <1>5, CallGoesOn

(***************************************************************************)
(* The steps of a call before it sends.                                    *)
(***************************************************************************)
LEMMA PreparationKeeps ==
  ASSUME KeysInv, NEW t \in Worker,
         \/ \E i \in DOMAIN Roles : CreateKeys(t, i)
         \/ DeployBuyer(t) \/ LookForKey(t)
         \/ \E confirms \in 2..Len(Roles) : DeployWallet(t, confirms)
         \/ ReadOwner(t)
  PROVE  KeysInv'
  <1> DEFINE w == work[t]
  <1>1. w \in Work /\ CallInv(w) /\ (~rekeyed => ReadInv(w)) /\ Waiting \in Work
    BY WaitingInv DEF KeysInv, KeysTyped
  <1>2. UNCHANGED <<keys, wallets, operWallet, rekeyed>>
    BY DEF CreateKeys, DeployBuyer, LookForKey, DeployWallet, ReadOwner, pointers
  <1>3. pairs \in Nat /\ rekeyed' \in BOOLEAN /\ (rekeyed => rekeyed')
    BY <1>2 DEF KeysInv, KeysTyped
  <1>4. 1 \in DOMAIN Roles
    BY RolesAssumption
  <1>5. ASSUME NEW i \in DOMAIN Roles, CreateKeys(t, i)
        PROVE  KeysInv'
    <2> DEFINE n == [Waiting EXCEPT !.tool = "create_keys", !.role = i]
    <2>1. i \in Nat \ {0}
      BY RolesAssumption
    <2>2. n \in Work /\ n.role = i /\ n.tool = "create_keys" /\ n.owners = << >>
      BY <1>1, <2>1 DEF Work, Waiting
    <2>3. NewPair(t, n)
      BY <1>5 DEF CreateKeys
    <2> HIDE DEF n
    <2> QED BY <1>2, <2>2, <2>3, NewPairKeeps
  <1>6. CASE DeployBuyer(t)
    <2> DEFINE n == [Waiting EXCEPT !.at = "look", !.tool = "deploy_buyer", !.confirms = 1]
    <2>1. n \in Work /\ n.at = "look" /\ n.confirms = 1 /\ n.owners = << >>
      BY <1>1 DEF Work, Waiting
    <2>2. CallInv(n) /\ ReadInv(n)
      BY <2>1 DEF CallInv, ReadInv
    <2>3. Goes(t, n) /\ pairs' = pairs
      BY <1>6 DEF DeployBuyer
    <2> QED BY <1>2, <1>3, <2>1, <2>2, <2>3, CallGoesOn
  <1>7. ASSUME NEW confirms \in 2..Len(Roles), DeployWallet(t, confirms)
        PROVE  KeysInv'
    <2> DEFINE n == [Waiting EXCEPT !.at = "read", !.tool = "deploy_wallet",
                                    !.confirms = confirms]
    <2>1. confirms \in Nat
      BY RolesAssumption
    <2>2. /\ n \in Work /\ n.at = "read" /\ n.tool = "deploy_wallet"
          /\ n.role = 1 /\ n.owners = << >>
      BY <1>1, <2>1 DEF Work, Waiting
    <2>3. CallInv(n)
      BY <1>4, <2>2 DEF CallInv
    <2>4. ReadInv(n)
      BY <2>2 DEF ReadInv, AreStored
    <2>5. Goes(t, n) /\ pairs' = pairs
      BY <1>7 DEF DeployWallet
    <2> QED BY <1>2, <1>3, <2>2, <2>3, <2>4, <2>5, CallGoesOn
  <1>8. CASE LookForKey(t)
    <2>1. w.at = "look" /\ w.role \in Nat \ {0}
      BY <1>1, <1>8 DEF LookForKey, Work
    <2>2. CASE Goes(t, [w EXCEPT !.at = "read", !.role = 1]) /\ UNCHANGED pairs
      <3> DEFINE n == [w EXCEPT !.at = "read", !.role = 1]
      <3>0. 1 \in Nat \ {0}
        OBVIOUS
      <3>1. /\ n \in Work /\ n.at = "read" /\ n.role = 1
            /\ n.tool = w.tool /\ n.confirms = w.confirms /\ n.owners = w.owners
        BY <1>1, <3>0 DEF Work
      <3>2. n.owners = << >>
        BY <1>1, <2>1, <3>1 DEF CallInv
      <3>3. CallInv(n)
        BY <1>1, <1>4, <3>1 DEF CallInv
      <3>4. ReadInv(n)
        BY <3>1, <3>2 DEF ReadInv, AreStored
      <3> QED BY <1>2, <1>3, <2>2, <3>1, <3>3, <3>4, CallGoesOn
    <2>3. CASE Goes(t, [w EXCEPT !.role = @ + 1]) /\ UNCHANGED pairs
      <3> DEFINE n == [w EXCEPT !.role = @ + 1]
      <3>1. w.role + 1 \in Nat \ {0}
        BY <2>1
      <3>2. /\ n \in Work /\ n.at = "look" /\ n.tool = w.tool
            /\ n.confirms = w.confirms /\ n.owners = w.owners
        BY <1>1, <2>1, <3>1 DEF Work
      <3>3. CallInv(n) /\ ReadInv(n)
        BY <1>1, <2>1, <3>2 DEF CallInv, ReadInv
      <3> QED BY <1>2, <1>3, <2>3, <3>2, <3>3, CallGoesOn
    <2>4. CASE w.role <= Len(Roles) /\ NewPair(t, w)
      <3>1. w.role \in DOMAIN Roles
        BY <2>1, <2>4, RolesAssumption
      <3> QED BY <1>1, <1>2, <2>1, <2>4, <3>1, NewPairKeeps DEF CallInv
    <2> QED BY <1>8, <2>2, <2>3, <2>4 DEF LookForKey
  <1>9. CASE ReadOwner(t)
    <2> DEFINE key == keys["pub"][w.role]
               n == [w EXCEPT !.owners = Append(@, key),
                              !.at = IF w.role = Len(Roles) THEN "send" ELSE "read",
                              !.role = @ + 1]
    <2>1. w.at = "read" /\ pairs' = pairs /\ w.role \in DOMAIN Roles
      BY <1>1, <1>9 DEF ReadOwner, CallInv
    <2>2. CASE key = Missing /\ Goes(t, Waiting)
      BY <1>1, <1>2, <1>3, <2>1, <2>2, WaitingInv, CallGoesOn
    <2>3. CASE key # Missing /\ Goes(t, n)
      <3>1. /\ w.owners \in Seq(Nat) /\ key \in Nat
            /\ w.role \in 1..Len(Roles) /\ Len(Roles) \in Nat /\ w.role \in Nat \ {0}
        BY <1>1, <2>1, RolesAssumption DEF KeysInv, KeysTyped, StoredKeys, Work
      <3>2. Append(w.owners, key) \in Seq(Nat) /\ w.role + 1 \in Nat \ {0}
        BY <3>1
      <3> HIDE DEF key
      <3>3. /\ n \in Work /\ n.role = w.role + 1 /\ n.owners = Append(w.owners, key)
            /\ n.at = IF w.role = Len(Roles) THEN "send" ELSE "read"
            /\ n.tool = w.tool /\ n.confirms = w.confirms
        BY <1>1, <3>2 DEF Work
      <3> HIDE DEF n
      <3>4. n.at = "read" => n.role \in DOMAIN Roles
        BY <3>1, <3>3, RolesAssumption
      <3>5. n.at \in {"read", "send"} /\ (n.tool = "deploy_buyer" => n.confirms = 1)
        BY <1>1, <3>3 DEF CallInv
      <3>6. CallInv(n)
        BY <3>4, <3>5 DEF CallInv
      <3>7. ASSUME ~rekeyed
            PROVE  ReadInv(n)
        <4>1. Len(w.owners) = w.role - 1 /\ AreStored(w.owners)
          BY <1>1, <2>1, <3>7 DEF ReadInv
        <4>2. Len(n.owners) = w.role
          BY <3>1, <3>3, <4>1
        <4>3. keys["pub"][w.role] # Missing /\ key = keys["priv"][w.role]
          BY <2>1, <2>3, <3>7 DEF key, KeysInv, PairsInv
        <4>4. AreStored(n.owners)
          <5> SUFFICES ASSUME NEW j \in 1..w.role
                       PROVE  n.owners[j] = keys["priv"][j] /\ keys["pub"][j] # Missing
            BY <4>2 DEF AreStored
          <5>1. CASE j = w.role
            BY <3>1, <3>3, <4>1, <4>3, <5>1
          <5>2. CASE j # w.role
            <6>1. j \in 1..Len(w.owners)
              BY <3>1, <4>1, <5>2
            <6>2. n.owners[j] = w.owners[j]
              BY <3>1, <3>3, <6>1
            <6> QED BY <4>1, <6>1, <6>2 DEF AreStored
          <5> QED BY <5>1, <5>2
        <4> QED BY <3>1, <3>3, <4>2, <4>4 DEF ReadInv
      <3> QED BY <1>2, <1>3, <2>1, <2>3, <3>3, <3>6, <3>7, CallGoesOn
    <2> QED BY <1>9, <2>2, <2>3 DEF ReadOwner, Ends
  <1> QED BY <1>5, <1>6, <1>7, <1>8, <1>9

(***************************************************************************)
(* The deploy message: the owners it names are those whose secrets are     *)
(* stored.                                                                 *)
(***************************************************************************)
LEMMA SendDeployKeeps ==
  ASSUME KeysInv, NEW t \in Worker, SendDeploy(t)
  PROVE  KeysInv'
  <1> DEFINE w == work[t]
             wallet == [owners |-> w.owners, confirms |-> w.confirms]
             deployed == Append(wallets, wallet)
             n == [w EXCEPT !.at = "name", !.wallet = Len(deployed)]
  <1>1. /\ w.at = "send" /\ UNCHANGED <<keys, pairs, operWallet, rekeyed>>
        /\ \/ wallets' = wallets /\ Goes(t, Waiting)
           \/ wallets' = deployed /\ (Goes(t, Waiting) \/ Goes(t, n))
    BY DEF SendDeploy, Ends, pointers
  <1>2. /\ w \in Work /\ CallInv(w) /\ (~rekeyed => ReadInv(w)) /\ Waiting \in Work
        /\ rekeyed \in BOOLEAN /\ pairs \in Nat
    BY WaitingInv DEF KeysInv, KeysTyped
  <1>3. CASE wallets' = wallets /\ Goes(t, Waiting)
    BY <1>1, <1>2, <1>3, WaitingInv, CallGoesOn
  <1>4. ASSUME wallets' = deployed, NEW m \in {Waiting, n}, Goes(t, m)
        PROVE  KeysInv'
    <2>1. /\ wallets \in Seq([owners : Seq(Nat), confirms : Nat])
          /\ wallet \in [owners : Seq(Nat), confirms : Nat]
      BY <1>2 DEF KeysInv, KeysTyped, Work
    <2> HIDE DEF wallet
    <2>2. /\ deployed \in Seq([owners : Seq(Nat), confirms : Nat])
          /\ Len(deployed) \in Nat /\ Len(deployed) \in DOMAIN deployed
          /\ deployed[Len(deployed)] = wallet
          /\ \A k \in DOMAIN wallets : k \in DOMAIN deployed /\ deployed[k] = wallets[k]
          /\ \A k \in DOMAIN deployed : k \in DOMAIN wallets \/ deployed[k] = wallet
      BY <2>1
    <2>3. wallet.owners = w.owners /\ wallet.confirms = w.confirms
      BY DEF wallet
    <2> HIDE DEF deployed
    <2>4. /\ n \in Work /\ n.at = "name" /\ n.wallet = Len(deployed)
          /\ n.tool = w.tool /\ n.confirms = w.confirms
      BY <1>2, <2>2 DEF Work
    <2> HIDE DEF n
    <2>5. /\ work' \in [Worker -> Work] /\ work'[t] = m
          /\ \A u \in Worker \ {t} : work'[u] = work[u]
      BY <1>2, <1>4, <2>4 DEF KeysInv, KeysTyped, Goes
    <2>6. KeysTyped' /\ m.at \in {"idle", "name"}
      <3>1. KeysTyped'
        BY <1>1, <1>4, <2>2, <2>5 DEF KeysInv, KeysTyped
      <3>2. CASE m = Waiting
        BY <3>1, <3>2 DEF Waiting
      <3>3. CASE m = n
        BY <2>4, <3>1, <3>3
      <3> QED BY <3>2, <3>3
    <2>7. \A k \in DOMAIN wallets : k \in DOMAIN wallets' /\ wallets'[k] = wallets[k]
      BY <1>4, <2>2
    <2>8. CallInv(m)'
      <3>1. CASE m = Waiting
        BY <3>1 DEF CallInv, Waiting
      <3>2. CASE m = n
        <4>1. w.tool = "deploy_buyer" => wallets'[Len(deployed)].confirms = 1
          BY <1>2, <1>4, <2>2, <2>3 DEF CallInv
        <4> QED BY <1>2, <1>4, <2>2, <2>4, <3>2, <4>1 DEF CallInv, SpendsAlone
      <3> QED BY <3>1, <3>2
    <2>9. ASSUME NEW u \in Worker
          PROVE  CallInv(work[u])'
      <3>1. CASE u = t
        BY <2>5, <2>8, <3>1 DEF CallInv, SpendsAlone
      <3>2. CASE u # t
        <4>1. CallInv(work[u]) /\ work'[u] = work[u]
          BY <2>5, <3>2 DEF KeysInv
        <4> QED BY <1>1, <2>7, <4>1 DEF CallInv, SpendsAlone
      <3> QED BY <3>1, <3>2
    <2>10. operWallet' # Missing => SpendsAlone(operWallet)'
      BY <1>1, <2>7 DEF KeysInv, SpendsAlone
    <2>11. ASSUME ~rekeyed'
           PROVE  PairsInv' /\ \A u \in Worker : ReadInv(work[u])'
      <3>1. ~rekeyed /\ PairsInv /\ ReadInv(w) /\ keys' = keys
        BY <1>1, <1>2, <2>11 DEF KeysInv
      <3>2. w.owners \in Seq(Nat) /\ Len(w.owners) = Len(Roles) /\ AreStored(w.owners)
        BY <1>1, <1>2, <3>1 DEF ReadInv, Work
      <3>3. \A i \in DOMAIN Roles : w.owners[i] = keys["priv"][i] /\ keys["pub"][i] # Missing
        BY <3>2, RolesAssumption DEF AreStored
      <3>4. w.owners \in [DOMAIN Roles -> Nat]
        BY <3>2, RolesAssumption
      <3>5. keys["priv"] \in [DOMAIN Roles -> Nat]
        BY DEF KeysInv, KeysTyped, StoredKeys
      <3>6. w.owners = keys["priv"]
        BY <3>3, <3>4, <3>5
      <3>7. PairsInv'
        BY <1>4, <2>2, <2>3, <3>1, <3>3, <3>6 DEF PairsInv
      <3>8. ASSUME NEW u \in Worker
            PROVE  ReadInv(work[u])'
        <4>1. CASE u = t
          <5>1. work'[u].at \in {"idle", "name"}
            BY <2>5, <2>6, <4>1
          <5> QED BY <5>1 DEF ReadInv
        <4>2. CASE u # t
          <5>1. ReadInv(work[u]) /\ work'[u] = work[u]
            BY <2>5, <3>1, <4>2 DEF KeysInv
          <5> QED BY <3>1, <5>1 DEF ReadInv, AreStored
        <4> QED BY <4>1, <4>2
      <3> QED BY <3>7, <3>8
    <2> QED BY <2>6, <2>9, <2>10, <2>11 DEF KeysInv
  <1> HIDE DEF n, deployed
  <1> QED BY <1>1, <1>3, <1>4

(***************************************************************************)
(* The two pointers.  A call that deploys a buyer points at a wallet that  *)
(* spends alone.                                                           *)
(***************************************************************************)
LEMMA PointersKeep ==
  ASSUME KeysInv, NEW t \in Worker, PutMetadata(t) \/ PutOperWallet(t)
  PROVE  KeysInv'
  <1> DEFINE w == work[t]
             n == [w EXCEPT !.at = "point"]
  <1>1. /\ w \in Work /\ CallInv(w) /\ Waiting \in Work
        /\ rekeyed \in BOOLEAN /\ pairs \in Nat
    BY WaitingInv DEF KeysInv, KeysTyped
  <1>2. CASE PutMetadata(t)
    <2>1. /\ w.at = "name" /\ UNCHANGED <<keys, pairs, wallets, operWallet, rekeyed>>
          /\ Goes(t, Waiting) \/ (w.tool = "deploy_buyer" /\ Goes(t, n))
      BY <1>2 DEF PutMetadata, Ends
    <2>2. CASE Goes(t, Waiting)
      BY <1>1, <2>1, <2>2, WaitingInv, CallGoesOn
    <2>3. CASE w.tool = "deploy_buyer" /\ Goes(t, n)
      <3>1. /\ n \in Work /\ n.at = "point" /\ n.tool = w.tool
            /\ n.confirms = w.confirms /\ n.wallet = w.wallet
        BY <1>1 DEF Work
      <3>2. CallInv(n) /\ ReadInv(n)
        BY <1>1, <2>1, <2>3, <3>1 DEF CallInv, ReadInv
      <3> HIDE DEF n
      <3> QED BY <1>1, <2>1, <2>3, <3>1, <3>2, CallGoesOn
    <2> QED BY <2>1, <2>2, <2>3
  <1>3. CASE PutOperWallet(t)
    <2>1. /\ w.at = "point" /\ operWallet' \in {operWallet, w.wallet}
          /\ Goes(t, Waiting) /\ UNCHANGED <<keys, pairs, wallets, rekeyed>>
      BY <1>3 DEF PutOperWallet, Ends
    <2>2. /\ work' \in [Worker -> Work] /\ work'[t] = Waiting
          /\ \A u \in Worker \ {t} : work'[u] = work[u]
      BY <1>1, <2>1 DEF KeysInv, KeysTyped, Goes
    <2>3. KeysTyped'
      BY <2>1, <2>2 DEF KeysInv, KeysTyped
    <2>4. SpendsAlone(w.wallet)
      BY <1>1, <2>1 DEF CallInv
    <2>5. operWallet' # Missing => SpendsAlone(operWallet)'
      BY <2>1, <2>4 DEF KeysInv, SpendsAlone
    <2>6. \A u \in Worker : CallInv(work'[u]) /\ (~rekeyed => ReadInv(work'[u]))
      BY <2>2, WaitingInv DEF KeysInv
    <2>7. \A u \in Worker : CallInv(work[u])'
      BY <2>1, <2>6 DEF CallInv, SpendsAlone
    <2>8. ~rekeyed' => PairsInv'
      BY <2>1 DEF KeysInv, PairsInv
    <2>9. ~rekeyed' => \A u \in Worker : ReadInv(work[u])'
      BY <2>1, <2>6 DEF ReadInv, AreStored
    <2> QED BY <2>3, <2>5, <2>7, <2>8, <2>9 DEF KeysInv
  <1> QED BY <1>2, <1>3

(***************************************************************************)
(* Every step keeps the invariant.                                         *)
(***************************************************************************)
LEMMA KeysStep == KeysInv /\ [KeysNext]_keyVars => KeysInv'
  <1> SUFFICES ASSUME KeysInv, [KeysNext]_keyVars
               PROVE  KeysInv'
    OBVIOUS
  <1>1. ASSUME NEW t \in Worker, NEW kind \in {"priv", "pub"}, PutKey(t, kind)
        PROVE  KeysInv'
    BY <1>1, PutKeyKeeps
  <1>2. ASSUME NEW t \in Worker,
               \/ \E i \in DOMAIN Roles : CreateKeys(t, i)
               \/ DeployBuyer(t) \/ LookForKey(t)
               \/ \E confirms \in 2..Len(Roles) : DeployWallet(t, confirms)
               \/ ReadOwner(t)
        PROVE  KeysInv'
    BY <1>2, PreparationKeeps
  <1>3. ASSUME NEW t \in Worker, SendDeploy(t)
        PROVE  KeysInv'
    BY <1>3, SendDeployKeeps
  <1>4. ASSUME NEW t \in Worker, PutMetadata(t) \/ PutOperWallet(t)
        PROVE  KeysInv'
    BY <1>4, PointersKeep
  <1>5. ASSUME UNCHANGED <<keys, pairs, wallets, operWallet, rekeyed>>,
               work' = work \/ work' = [t \in Worker |-> Waiting]
        PROVE  KeysInv'
    <2>1. KeysTyped'
      BY <1>5, WaitingInv DEF KeysInv, KeysTyped
    <2>2. \A u \in Worker : CallInv(work'[u]) /\ (~rekeyed => ReadInv(work'[u]))
      BY <1>5, WaitingInv DEF KeysInv
    <2>3. \A u \in Worker : CallInv(work[u])'
      BY <1>5, <2>2 DEF CallInv, SpendsAlone
    <2>4. ~rekeyed' => PairsInv'
      BY <1>5 DEF KeysInv, PairsInv
    <2>5. ~rekeyed' => \A u \in Worker : ReadInv(work[u])'
      BY <1>5, <2>2 DEF ReadInv, AreStored
    <2> QED BY <1>5, <2>1, <2>3, <2>4, <2>5 DEF KeysInv, SpendsAlone
  <1>6. CASE CrashTools
    BY <1>5, <1>6 DEF CrashTools, pointers
  <1>7. CASE UNCHANGED keyVars
    BY <1>5, <1>7 DEF keyVars
  <1> QED BY <1>1, <1>2, <1>3, <1>4, <1>6, <1>7 DEF KeysNext

(***************************************************************************)
(* Whatever fails, wherever the process crashes and whatever calls run at  *)
(* once: a wallet's owners are the keys whose secrets are stored, unless a *)
(* role was given keys twice, and a buyer's wallet goes on spending alone. *)
(***************************************************************************)
THEOREM WalletsRemainUsable == KeysSpec => []WalletsStayUsable
  <1>1. KeysInv => WalletsStayUsable
    BY DEF KeysInv, PairsInv, SpendsAlone, WalletsStayUsable, WalletsOperable,
           BuyersStayAutonomous, Resolved
  <1> QED BY <1>1, KeysInitially, KeysStep, PTL DEF KeysSpec

-----------------------------------------------------------------------------
(* The server's gate *)

Modes == {"Full", "ReadOnly", "StatelessPayments"}

(***************************************************************************)
(* Only a request that is not refused gets to its tool, and without        *)
(* gosh.memory its tool needs nothing.                                     *)
(***************************************************************************)
ServerInv ==
  /\ mode \in Modes
  /\ request = NoRequest => answer = ""
  /\ request # NoRequest => request \in Requests
  /\ request # NoRequest =>
       \/ answer = Refusal(request) /\ answer # ""
       \/ Refusal(request) = "" /\ answer \in {"", "ok", "failed"}
  /\ mode # "Full" => rest = << >> /\ touched = {}
  /\ \A use \in touched : use[2] = ServerToken

(***************************************************************************)
(* A request that carries the token carries exactly the token.             *)
(***************************************************************************)
LEMMA AuthorizedIsToken ==
  ASSUME NEW header \in Header, Authorized(header)
  PROVE  header = ServerToken
  <1> DEFINE h == {header[i] : i \in DOMAIN header}
             s == {ServerToken[i] : i \in DOMAIN ServerToken}
  <1>1. header \in Seq(h) /\ ServerToken \in Seq(s)
    BY TokenAssumption
  <1>2. Len(header) = Len(ServerToken) /\ \A i \in DOMAIN header : header[i] = ServerToken[i]
    BY DEF Authorized
  <1> HIDE DEF h, s
  <1> QED BY <1>1, <1>2

(***************************************************************************)
(* What a tool served without gosh.memory uses: nothing.                   *)
(***************************************************************************)
LEMMA ReadOnlyUsesNothing ==
  ASSUME NEW m \in Modes, m # "Full", NEW tool, NEW keyed \in BOOLEAN,
         Served(m, tool), ~(tool = "call_contract" /\ keyed)
  PROVE  Uses(tool, keyed) = << >>
  <1>1. \/ tool \in ReadOnlySafe \ {"call_contract"} \/ tool \in StatelessPaymentTool
        \/ tool = "call_contract" /\ ~keyed
    BY DEF Served
  <1> QED BY <1>1 DEF ReadOnlySafe, StatelessPaymentTool, Uses

(***************************************************************************)
(* What tools/list offers: the tools served, without key material but for  *)
(* call_contract where gosh.memory can sign.                               *)
(***************************************************************************)
LEMMA AdvertisedCalls ==
  ASSUME NEW m \in Modes, NEW tool \in LocalTools \cup CreatorTools \cup ConsumerTools,
         NEW keyed \in BOOLEAN
  PROVE  [tool |-> tool, keys |-> keyed] \in Advertised(m)
           <=> Served(m, tool) /\ (keyed => tool = "call_contract" /\ m = "Full")
  <1> DEFINE offered == [tool |-> tool, keys |-> keyed]
             served == {u \in LocalTools \cup CreatorTools \cup ConsumerTools : Served(m, u)}
             plain == [tool : served, keys : {FALSE}]
             signing == [tool |-> "call_contract", keys |-> m = "Full"]
  <1>1. offered \in Advertised(m) <=> offered \in plain \/ offered = signing
    BY DEF Advertised
  <1>2. offered \in plain <=> Served(m, tool) /\ keyed = FALSE
    OBVIOUS
  <1>3. Served(m, "call_contract")
    BY DEF Served, ReadOnlySafe
  <1>4. offered = signing <=> tool = "call_contract" /\ keyed = (m = "Full")
    <2>1. ASSUME offered = signing
          PROVE  tool = "call_contract" /\ keyed = (m = "Full")
      <3>1. offered.tool = signing.tool /\ offered.keys = signing.keys
        BY <2>1
      <3> QED BY <3>1
    <2> QED BY <2>1
  <1> HIDE DEF offered, plain, signing
  <1>5. CASE keyed = TRUE
    BY <1>1, <1>2, <1>3, <1>4, <1>5 DEF offered
  <1>6. CASE keyed = FALSE
    BY <1>1, <1>2, <1>3, <1>4, <1>6 DEF offered
  <1> QED BY <1>5, <1>6

(***************************************************************************)
(* Taking a request, using a resource and returning keep the invariant.    *)
(***************************************************************************)
LEMMA ServerStep == ServerInv /\ [ServerNext]_serverVars => ServerInv'
  <1> SUFFICES ASSUME ServerInv, [ServerNext]_serverVars
               PROVE  ServerInv'
    OBVIOUS
  <1>1. ASSUME NEW r \in Requests, HandleRpc(r)
        PROVE  ServerInv'
    <2>1. /\ request' = r /\ answer' = Refusal(r) /\ mode' = mode /\ touched' = touched
          /\ rest' = IF Refusal(r) = "" THEN Uses(r.tool, r.keys) ELSE << >>
      BY <1>1 DEF HandleRpc
    <2>2. r # NoRequest /\ r.keys \in BOOLEAN
      <3>1. r.method # "" /\ r.keys \in BOOLEAN
        BY DEF Requests
      <3>2. NoRequest.method = ""
        BY DEF NoRequest
      <3> QED BY <3>1, <3>2
    <2>3. Refusal(r)' = Refusal(r)
      BY <2>1 DEF Refusal
    <2>4. ASSUME mode # "Full", Refusal(r) = ""
          PROVE  Uses(r.tool, r.keys) = << >>
      <3>1. Served(mode, r.tool) /\ ~(r.tool = "call_contract" /\ r.keys)
        BY <2>4 DEF Refusal
      <3> QED BY <2>2, <2>4, <3>1, ReadOnlyUsesNothing DEF ServerInv
    <2> QED BY <2>1, <2>2, <2>3, <2>4 DEF ServerInv
  <1>2. ASSUME CallUses
        PROVE  ServerInv'
    <2>1. /\ request # NoRequest /\ answer = "" /\ rest # << >>
          /\ rest' = Tail(rest) /\ mode' = mode /\ request' = request
      BY <1>2 DEF CallUses
    <2>2. mode = "Full" /\ request \in Requests /\ Refusal(request) = ""
      BY <2>1 DEF ServerInv
    <2>3. /\ touched' = touched \cup {<<Head(rest), request.header>>}
          /\ answer' \in {"", "failed"}
      BY <1>2, <2>2 DEF CallUses
    <2>4. Refusal(request)' = ""
      BY <2>1, <2>2 DEF Refusal
    <2>5. request.header = ServerToken
      <3>1. Authorized(request.header)
        BY <2>2 DEF Refusal
      <3>2. request.header \in Header
        BY <2>2 DEF Requests
      <3> QED BY <3>1, <3>2, AuthorizedIsToken
    <2>6. ASSUME NEW use \in touched'
          PROVE  use[2] = ServerToken
      <3>1. CASE use \in touched
        BY <3>1 DEF ServerInv
      <3>2. CASE use = <<Head(rest), request.header>>
        BY <2>5, <3>2
      <3> QED BY <2>3, <3>1, <3>2
    <2> QED BY <2>1, <2>2, <2>3, <2>4, <2>6 DEF ServerInv
  <1>3. ASSUME CallReturns
        PROVE  ServerInv'
    <2>1. /\ request # NoRequest /\ answer = "" /\ answer' = "ok"
          /\ UNCHANGED <<mode, request, rest, touched>>
      BY <1>3 DEF CallReturns
    <2>2. Refusal(request)' = Refusal(request)
      BY <2>1 DEF Refusal
    <2> QED BY <2>1, <2>2 DEF ServerInv
  <1>4. ASSUME UNCHANGED serverVars
        PROVE  ServerInv'
    <2>1. UNCHANGED <<mode, request, rest, answer, touched>>
      BY <1>4 DEF serverVars
    <2>2. Refusal(request)' = Refusal(request)
      BY <2>1 DEF Refusal
    <2> QED BY <2>1, <2>2 DEF ServerInv
  <1> QED BY <1>1, <1>2, <1>3, <1>4 DEF ServerNext

(***************************************************************************)
(* What tools/list offers is what the server does, whatever the header of  *)
(* a request holds: for any token and any requests.                        *)
(***************************************************************************)
THEOREM ContractStaysHonest == ServerSpec => []HonestContract
  <1>1. ServerInit => ServerInv
    BY DEF ServerInit, ServerInv, Modes
  <1>2. ServerInv => HonestContract
    <2> SUFFICES ASSUME ServerInv
                 PROVE  HonestContract
      OBVIOUS
    <2> DEFINE listed == [tool |-> request.tool, keys |-> request.keys] \in Advertised(mode)
    <2>1. ASSUME request.method = "tools/call", request.tool # "no_such_tool"
          PROVE  /\ listed => answer \notin {"unavailable", "memory required"}
                 /\ answer = "ok" => listed \/ (request.tool # "call_contract" /\ request.keys)
      <3>1. request # NoRequest
        <4>1. NoRequest.method = ""
          BY DEF NoRequest
        <4> QED BY <2>1, <4>1
      <3>2. /\ request.tool \in LocalTools \cup CreatorTools \cup ConsumerTools
            /\ request.keys \in BOOLEAN
        BY <2>1, <3>1 DEF ServerInv, Requests
      <3>3. Refusal(request) \notin {"ok", "memory required", "failed"}
        BY <2>1 DEF Refusal
      <3>4. ASSUME Refusal(request) = ""
            PROVE  /\ Served(mode, request.tool)
                   /\ mode # "Full" => ~(request.tool = "call_contract" /\ request.keys)
        BY <3>4 DEF Refusal
      <3>5. ASSUME Refusal(request) = "unavailable"
            PROVE  \/ ~Served(mode, request.tool)
                   \/ mode # "Full" /\ request.tool = "call_contract" /\ request.keys
        BY <3>5 DEF Refusal
      <3>6. listed <=> /\ Served(mode, request.tool)
                       /\ request.keys => request.tool = "call_contract" /\ mode = "Full"
        BY <3>2, AdvertisedCalls DEF ServerInv
      <3>7. answer = "ok" => Refusal(request) = ""
        BY <3>1, <3>3 DEF ServerInv
      <3>8. answer = "unavailable" => Refusal(request) = "unavailable"
        BY <3>1 DEF ServerInv
      <3>9. answer # "memory required"
        BY <3>1, <3>3 DEF ServerInv
      <3>10. listed => answer # "unavailable"
        BY <3>5, <3>6, <3>8
      <3>11. answer = "ok" => listed \/ (request.tool # "call_contract" /\ request.keys)
        BY <3>4, <3>6, <3>7
      <3> QED BY <3>9, <3>10, <3>11
    <2> QED BY <2>1 DEF ServerInv, HonestContract
  <1> QED BY <1>1, <1>2, ServerStep, PTL DEF ServerSpec

-----------------------------------------------------------------------------
(* The session with gosh.memory *)

CallRecord ==
  [at : {"idle", "initialize", "store", "post"}, op : Operation \cup {""}, sid : Nat,
   outcome : {"", "failed", "refused", "none", "some", "done"},
   wrote : BOOLEAN, existed : BOOLEAN, handshake : {"", "bare"}]

(* A session the server has opened, and knows unless it has restarted. *)
Opened(sid) == sid \in 1..issued /\ (restarts = 0 => sid \in live)

(* What OutcomesAreTrue says of one call. *)
Truthful(c) ==
  /\ c.op = "upsert" /\ c.outcome = "done" => c.wrote
  /\ c.outcome = "none" => ~c.existed
  /\ c.outcome = "refused" => IF c.sid = None THEN c.handshake = "bare" ELSE restarts > 0

(***************************************************************************)
(* Ids are cached and stored only for sessions the server opened, and only *)
(* a call whose initialize brought no id is posted without a cached one,   *)
(* which is replaced, never dropped.                                       *)
(***************************************************************************)
SessionInv ==
  /\ issued \in Nat /\ restarts \in Nat /\ object \in BOOLEAN
  /\ sessionId # None => Opened(sessionId)
  /\ call \in [Task -> CallRecord]
  /\ \A t \in Task :
       /\ call[t].at = "initialize" => call[t].outcome # "refused"
       /\ call[t].at = "store" => Opened(call[t].sid)
       /\ call[t].at = "post" => call[t].handshake = "bare" \/ sessionId # None
       /\ Truthful(call[t])

(***************************************************************************)
(* Before the first request there is no session.                           *)
(***************************************************************************)
LEMMA SessionInitially == SessionInit => SessionInv
  <1> SUFFICES ASSUME SessionInit
               PROVE  SessionInv
    OBVIOUS
  <1>1. /\ Quiet \in CallRecord /\ Quiet.at = "idle" /\ Quiet.op = ""
        /\ Quiet.outcome = ""
    BY DEF Quiet, CallRecord, None
  <1>2. Truthful(Quiet)
    BY <1>1 DEF Truthful
  <1>3. /\ call = [t \in Task |-> Quiet] /\ sessionId = None /\ object = FALSE
        /\ issued \in Nat /\ restarts \in Nat
    BY DEF SessionInit
  <1> HIDE DEF Quiet
  <1> QED BY <1>1, <1>2, <1>3 DEF SessionInv

(***************************************************************************)
(* What the clients make of an answer the server may give.                 *)
(***************************************************************************)
LEMMA OutcomeIsTrue ==
  ASSUME NEW op, NEW done \in BOOLEAN, NEW existed \in BOOLEAN,
         NEW reply \in Answers(op, done, existed)
  PROVE  /\ Outcome(op, reply, existed) \in {"failed", "none", "some", "done"}
         /\ op = "upsert" /\ Outcome(op, reply, existed) = "done" => done
         /\ Outcome(op, reply, existed) = "none" => ~existed
  <1>1. CASE op = "upsert"
    BY <1>1 DEF Answers, Outcome, Damaged
  <1>2. CASE op = "get"
    BY <1>2 DEF Answers, Outcome, Damaged
  <1>3. CASE op = "list"
    BY <1>3 DEF Answers, Outcome, Damaged
  <1>4. CASE op \notin {"upsert", "get", "list"}
    BY <1>4 DEF Outcome
  <1> QED BY <1>1, <1>2, <1>3, <1>4

(***************************************************************************)
(* A step of one task that leaves the cached session, or replaces it, and  *)
(* keeps what the server knows, keeps the invariant if it does so for that *)
(* task.                                                                   *)
(***************************************************************************)
LEMMA TaskStep ==
  ASSUME SessionInv, NEW t \in Task, NEW c \in CallRecord, SetCall(t, c),
         issued' \in Nat, issued <= issued', live \subseteq live',
         restarts' = restarts, sessionId' # None => Opened(sessionId)',
         sessionId # None => sessionId' # None,
         c.at = "initialize" => c.outcome # "refused",
         c.at = "store" => Opened(c.sid)',
         c.at = "post" => c.handshake = "bare" \/ sessionId' # None,
         Truthful(c), object' \in BOOLEAN
  PROVE  SessionInv'
  <1>1. call' = [call EXCEPT ![t] = c] /\ call \in [Task -> CallRecord]
    BY DEF SetCall, SessionInv
  <1>2. call' \in [Task -> CallRecord]
    BY <1>1
  <1>3. restarts' \in Nat
    BY DEF SessionInv
  <1>4. ASSUME NEW u \in Task
        PROVE  /\ call'[u].at = "initialize" => call'[u].outcome # "refused"
               /\ call'[u].at = "store" => Opened(call[u].sid)'
               /\ call'[u].at = "post" => call'[u].handshake = "bare" \/ sessionId' # None
               /\ Truthful(call[u])'
    <2>1. CASE u = t
      <3>1. call'[u] = c
        BY <1>1, <2>1
      <3>2. Truthful(c)'
        BY DEF Truthful
      <3>3. Truthful(call[u])'
        BY <3>1, <3>2
      <3> QED BY <3>1, <3>3 DEF Opened
    <2>2. CASE u # t
      <3>1. call'[u] = call[u]
        BY <1>1, <2>2
      <3>2. issued \in Nat /\ Truthful(call[u])
            /\ (call[u].at = "initialize" => call[u].outcome # "refused")
            /\ (call[u].at = "store" => Opened(call[u].sid))
            /\ (call[u].at = "post" => call[u].handshake = "bare" \/ sessionId # None)
        BY DEF SessionInv
      <3>3. Truthful(call[u])'
        BY <3>1, <3>2 DEF Truthful
      <3> QED BY <3>1, <3>2, <3>3 DEF Opened
    <2> QED BY <2>1, <2>2
  <1> QED BY <1>2, <1>3, <1>4 DEF SessionInv

(***************************************************************************)
(* Every step of the clients and of the server keeps the invariant.        *)
(***************************************************************************)
LEMMA SessionStep == SessionInv /\ [SessionNext]_sessionVars => SessionInv'
  <1> SUFFICES ASSUME SessionInv, [SessionNext]_sessionVars
               PROVE  SessionInv'
    OBVIOUS
  <1>1. /\ issued \in Nat /\ restarts \in Nat /\ issued <= issued
        /\ object \in BOOLEAN /\ live \subseteq live
        /\ \A t \in Task : call[t] \in CallRecord
    BY DEF SessionInv
  <1>2. ASSUME NEW t \in Task, NEW op \in Operation, BeginCall(t, op)
        PROVE  SessionInv'
    <2> DEFINE c == [Quiet EXCEPT !.op = op,
                       !.at = IF sessionId # None THEN "post" ELSE "initialize"]
    <2>1. SetCall(t, c) /\ UNCHANGED <<sessionId, issued, live, object, restarts>>
      BY <1>2 DEF BeginCall
    <2>2. c \in CallRecord /\ Truthful(c)
      BY DEF Quiet, CallRecord, Truthful, None
    <2>3. c.at # "store" /\ (c.at = "post" => sessionId # None) /\ c.outcome # "refused"
      BY DEF Quiet
    <2> HIDE DEF c
    <2>4. sessionId' # None => Opened(sessionId)'
      BY <2>1 DEF SessionInv, Opened
    <2> QED BY <1>1, <2>1, <2>2, <2>3, <2>4, TaskStep
  <1>3. ASSUME NEW t \in Task, PostInitialize(t)
        PROVE  SessionInv'
    <2>1. /\ UNCHANGED <<sessionId, object, restarts>>
          /\ \/ issued' = issued + 1 /\ live' = live \cup {issued'}
             \/ issued' = issued /\ live' = live
      BY <1>3 DEF PostInitialize, OpensSession
    <2>2. issued' \in Nat /\ issued <= issued' /\ live \subseteq live'
      BY <1>1, <2>1
    <2>3. sessionId' # None => Opened(sessionId)'
      BY <2>1, <1>1 DEF SessionInv, Opened
    <2>4. Truthful(call[t])
      BY DEF SessionInv
    <2>5. CASE OpensSession /\ SetCall(t, [call[t] EXCEPT !.at = "store", !.sid = issued'])
      <3>6. PICK n : n = issued'
        OBVIOUS
      <3> DEFINE c == [call[t] EXCEPT !.at = "store", !.sid = n]
      <3>1. /\ c \in CallRecord /\ c.at = "store" /\ c.sid = n
            /\ c.op = call[t].op /\ c.outcome = call[t].outcome
            /\ c.wrote = call[t].wrote /\ c.existed = call[t].existed
        BY <1>1, <2>2, <3>6 DEF CallRecord
      <3>2. c.outcome # "refused"
        BY <1>3, <3>1 DEF PostInitialize, SessionInv
      <3>3. issued' \in live' /\ issued' \in 1..issued'
        BY <1>1, <2>5 DEF OpensSession
      <3>5. Opened(n)'
        BY <3>3, <3>6 DEF Opened
      <3>7. SetCall(t, c)
        BY <2>5, <3>6
      <3> HIDE DEF c
      <3>4. Truthful(c)
        BY <2>4, <3>1, <3>2 DEF Truthful
      <3> QED BY <1>1, <2>1, <2>2, <2>3, <3>1, <3>4, <3>5, <3>7, TaskStep
    <2>6. CASE Failed(t)
      <3> DEFINE c == [call[t] EXCEPT !.at = "idle", !.outcome = "failed"]
      <3>1. c \in CallRecord /\ c.at = "idle" /\ c.outcome = "failed"
        BY <1>1 DEF CallRecord
      <3>2. Truthful(c)
        BY <3>1 DEF Truthful
      <3>3. SetCall(t, c)
        BY <2>6 DEF Failed
      <3> HIDE DEF c
      <3> QED BY <1>1, <2>1, <2>2, <2>3, <3>1, <3>2, <3>3, TaskStep
    <2>7. CASE NoSession(t)
      <3> DEFINE c == [call[t] EXCEPT !.at = "post", !.handshake = "bare"]
      <3>1. /\ c \in CallRecord /\ c.at = "post" /\ c.handshake = "bare"
            /\ c.op = call[t].op /\ c.outcome = call[t].outcome /\ c.sid = call[t].sid
            /\ c.wrote = call[t].wrote /\ c.existed = call[t].existed
        BY <1>1 DEF CallRecord
      <3>2. SetCall(t, c)
        BY <2>7 DEF NoSession
      <3> HIDE DEF c
      <3>3. Truthful(c)
        BY <2>4, <3>1 DEF Truthful
      <3> QED BY <1>1, <2>1, <2>2, <2>3, <3>1, <3>2, <3>3, TaskStep
    <2> QED BY <1>3, <2>5, <2>6, <2>7 DEF PostInitialize
  <1>4. ASSUME NEW t \in Task, StoreSession(t)
        PROVE  SessionInv'
    <2> DEFINE c == [call[t] EXCEPT !.at = "post"]
    <2>1. /\ call[t].at = "store" /\ sessionId' = call[t].sid /\ SetCall(t, c)
          /\ UNCHANGED <<issued, live, object, restarts>>
      BY <1>4 DEF StoreSession
    <2>2. /\ c \in CallRecord /\ c.at = "post" /\ c.sid = call[t].sid
          /\ c.op = call[t].op /\ c.outcome = call[t].outcome
          /\ c.wrote = call[t].wrote /\ c.existed = call[t].existed
          /\ c.handshake = call[t].handshake
      BY <1>1 DEF CallRecord
    <2> HIDE DEF c
    <2>3. Truthful(call[t]) /\ Opened(call[t].sid)
      BY <2>1 DEF SessionInv
    <2>4. Truthful(c)
      BY <2>2, <2>3 DEF Truthful
    <2>5. sessionId' # None /\ Opened(sessionId)'
      BY <2>1, <2>3, <1>1 DEF Opened, None
    <2> QED BY <1>1, <2>1, <2>2, <2>4, <2>5, TaskStep
  <1>5. ASSUME NEW t \in Task, PostCall(t)
        PROVE  SessionInv'
    <2>1. call[t].at = "post" /\ UNCHANGED <<sessionId, issued, live, restarts>>
      BY <1>5 DEF PostCall
    <2>2. /\ call[t].handshake = "bare" \/ sessionId # None
          /\ sessionId # None => Opened(sessionId)
          /\ sessionId \in Nat
      <3>1. (call[t].handshake = "bare" \/ sessionId # None) /\ (sessionId # None => Opened(sessionId))
        BY <2>1 DEF SessionInv
      <3> QED BY <3>1, <1>1 DEF Opened, None
    <2>3. sessionId' # None => Opened(sessionId)'
      BY <2>1, <2>2 DEF Opened
    <2>4. CASE sessionId \notin live
      <3> DEFINE c == [call[t] EXCEPT !.at = "idle", !.sid = sessionId,
                                      !.outcome = "refused"]
      <3>1. /\ c \in CallRecord /\ c.at = "idle" /\ c.outcome = "refused"
            /\ c.sid = sessionId /\ c.handshake = call[t].handshake
        BY <1>1, <2>2 DEF CallRecord
      <3>2. sessionId # None => restarts > 0
        BY <1>1, <2>2, <2>4 DEF Opened
      <3>3. SetCall(t, c) /\ object' = object
        BY <1>5, <2>4 DEF PostCall
      <3> HIDE DEF c
      <3>4. Truthful(c)
        BY <2>2, <3>1, <3>2 DEF Truthful
      <3> QED BY <1>1, <2>1, <2>2, <2>3, <3>1, <3>3, <3>4, TaskStep
    <2>5. CASE sessionId \in live
      <3>1. PICK done \in BOOLEAN :
              \E reply \in Answers(call[t].op, done, object) :
                /\ SetCall(t, [call[t] EXCEPT !.at = "idle", !.sid = sessionId,
                      !.outcome = Outcome(call[t].op, reply, object),
                      !.wrote = done, !.existed = object])
                /\ object' = (object \/ (call[t].op = "upsert" /\ done))
        BY <1>5, <2>5 DEF PostCall
      <3>7. PICK reply \in Answers(call[t].op, done, object) :
                /\ SetCall(t, [call[t] EXCEPT !.at = "idle", !.sid = sessionId,
                      !.outcome = Outcome(call[t].op, reply, object),
                      !.wrote = done, !.existed = object])
                /\ object' = (object \/ (call[t].op = "upsert" /\ done))
        BY <3>1
      <3> DEFINE c == [call[t] EXCEPT !.at = "idle", !.sid = sessionId,
                         !.outcome = Outcome(call[t].op, reply, object),
                         !.wrote = done, !.existed = object]
      <3>2. object \in BOOLEAN
        BY DEF SessionInv
      <3>3. /\ Outcome(call[t].op, reply, object) \in {"failed", "none", "some", "done"}
            /\ call[t].op = "upsert" /\ Outcome(call[t].op, reply, object) = "done"
               => done
            /\ Outcome(call[t].op, reply, object) = "none" => ~object
        BY <3>2, OutcomeIsTrue
      <3>4. /\ c \in CallRecord /\ c.at = "idle" /\ c.op = call[t].op
            /\ c.outcome = Outcome(call[t].op, reply, object)
            /\ c.wrote = done /\ c.existed = object
        BY <1>1, <2>2, <3>2, <3>3 DEF CallRecord
      <3> HIDE DEF c
      <3>5. Truthful(c)
        BY <3>3, <3>4 DEF Truthful
      <3>6. object' \in BOOLEAN
        BY <3>7, <3>2
      <3> QED BY <1>1, <2>1, <2>2, <2>3, <3>7, <3>4, <3>5, <3>6, TaskStep DEF c
    <2> QED BY <2>4, <2>5
  <1>6. CASE ServerRestarts
    <2>1. restarts' = restarts + 1 /\ UNCHANGED <<sessionId, issued, call>>
      BY <1>6 DEF ServerRestarts
    <2>2. object' = object
      BY <1>6 DEF ServerRestarts
    <2>3. restarts' \in Nat /\ restarts' > 0
      BY <1>1, <2>1
    <2> QED BY <2>1, <2>2, <2>3 DEF SessionInv, Opened, Truthful
  <1>7. CASE UNCHANGED sessionVars
    BY <1>1, <1>7 DEF sessionVars, SessionInv, Opened, Truthful
  <1> QED BY <1>2, <1>3, <1>4, <1>5, <1>6, <1>7 DEF SessionNext

(***************************************************************************)
(* What a call over the session reports is so, however callers race to     *)
(* open it, whatever the server loses and whatever comes back.             *)
(***************************************************************************)
THEOREM OutcomesStayTrue == SessionSpec => []OutcomesAreTrue
  <1>1. SessionInv => OutcomesAreTrue
    BY DEF SessionInv, OutcomesAreTrue, Truthful
  <1> QED BY <1>1, SessionInitially, SessionStep, PTL DEF SessionSpec
=============================================================================
