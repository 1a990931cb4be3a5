----------------------------- MODULE OrderBook -----------------------------
(***************************************************************************)
(* sdk/client.rs: inference_order_book and inference/book.rs:              *)
(* fetch_order_book, which reconstructs an order book from one fetched     *)
(* account image by probing order ids, while the book goes on trading.     *)
(* The contract is external: what its getters answer, and that it numbers  *)
(* orders from 1 upwards.                                                  *)
(***************************************************************************)
EXTENDS Naturals, Sequences, FiniteSets, SequencesExt, Arrangement

CONSTANTS
  Price,         \* prices per tick, from 1
  MAX_PLACED     \* bound: orders placed

ASSUME BookAssumption == Price \subseteq Nat \ {0} /\ MAX_PLACED \in Nat

(* The DApps inference_order_book looks in when it is given none. *)
DEFAULT_DAPPS == <<"own", "system">>

VARIABLES
  orders,     \* the chain: id -> order, or Gone once filled or cancelled
  ownerless,  \* the chain: ids whose slot is kept with a zero note
  now,        \* the chain: the time orders are stamped with
  livesIn,    \* the chain: the DApp of the book, "none" if it is not deployed
  looking,    \* the reader: DApps still to look in, "scan" among them once found
  image,      \* the reader: the account as it was fetched
  scan,       \* the reader: next id, orders found, ids left to probe
  snapshot    \* the reader: what it answered

bookVars == <<orders, ownerless, now, livesIn, looking, image, scan, snapshot>>

Gone == [price |-> 0]
NoImage == [orders |-> << >>, ownerless |-> {}]
NoScan == [id |-> 0, found |-> {}, left |-> 0]
NoSnapshot ==
  [status |-> "none", of |-> NoImage, bids |-> << >>, asks |-> << >>,
   bestBid |-> 0, bestAsk |-> 0, truncated |-> FALSE, exhausted |-> FALSE]

BookInit ==
  /\ orders = << >> /\ ownerless = {} /\ now = 0
  /\ livesIn \in {"own", "system", "none"}
  /\ looking = << >> /\ image = NoImage /\ scan = NoScan /\ snapshot = NoSnapshot

(* The orders of an image that rest in the book. *)
Live(book) == {id \in DOMAIN book.orders : book.orders[id] # Gone}

-----------------------------------------------------------------------------
(* The order book (external); bound: it trades until the reader answers. *)

Trading == livesIn # "none" /\ snapshot = NoSnapshot

PlaceOrder(isBuy, price) ==
  /\ Trading /\ Len(orders) < MAX_PLACED
  /\ orders' = Append(orders, [price |-> price, isBuy |-> isBuy, at |-> now])
  /\ now' \in {now, now + 1}
  /\ UNCHANGED <<ownerless, livesIn, looking, image, scan, snapshot>>

(* Filled or cancelled: the getter fails, or answers a slot with no owner. *)
RemoveOrder(id) ==
  /\ Trading /\ id \in Live([orders |-> orders])
  /\ orders' = [orders EXCEPT ![id] = Gone]
  /\ ownerless' \in {ownerless, ownerless \cup {id}}
  /\ UNCHANGED <<now, livesIn, looking, image, scan, snapshot>>

-----------------------------------------------------------------------------
(* The reader *)

Call(dapps) ==
  /\ looking = << >> /\ scan = NoScan /\ snapshot = NoSnapshot
  /\ looking' = dapps
  /\ UNCHANGED <<orders, ownerless, now, livesIn, image, scan, snapshot>>

Fails ==
  /\ snapshot' = [NoSnapshot EXCEPT !.status = "error"]
  /\ looking' = << >> /\ scan' = NoScan /\ image' = NoImage
  /\ UNCHANGED <<orders, ownerless, now, livesIn>>

(* A read that fails ends the search: another DApp is not looked in. *)
FetchFails == looking # << >> /\ Fails

(* One fetch of the whole account; the next DApp if it is not in this one. *)
FetchBook(maxScan) ==
  /\ looking # << >>
  /\ \/ /\ Head(looking) = livesIn
        /\ image' = [orders |-> orders, ownerless |-> ownerless]
        /\ scan' = [id |-> 1, found |-> {}, left |-> maxScan]
        /\ looking' = << >>
        /\ UNCHANGED snapshot
     \/ /\ Head(looking) # livesIn
        /\ looking' = Tail(looking)
        /\ snapshot' = IF Len(looking) = 1
                       THEN [NoSnapshot EXCEPT !.status = "not found"] ELSE snapshot
        /\ UNCHANGED <<image, scan>>
  /\ UNCHANGED <<orders, ownerless, now, livesIn>>

Scanning == scan # NoScan

(* Against orderCount, nextOrderId and max_scan. *)
MoreToProbe ==
  /\ Cardinality(scan.found) < Cardinality(Live(image))
  /\ scan.id <= Len(image.orders) + 1 /\ scan.left > 0

AnswersOrder_Refetched(id) == id \in Live([orders |-> orders])

(* run_getter executes getOrder on the fetched image, without the chain:   *)
(* for an id it does not hold it reverts, and a zero note is no live order. *)
AnswersOrder(id) == id \in Live(image)

ProbeOrder ==
  /\ Scanning /\ MoreToProbe
  /\ scan' = [id |-> scan.id + 1, left |-> scan.left - 1,
              found |-> scan.found \cup
                          (IF AnswersOrder(scan.id) THEN {scan.id} ELSE {})]
  /\ UNCHANGED <<orders, ownerless, now, livesIn, looking, image, snapshot>>

(* A getter of the book as a whole that fails, or an answer of which a     *)
(* field is missing or no number, ends the call.                           *)
GetterFails == Scanning /\ Fails

(* sort_by is stable, and orders were found by rising id. *)
Before(book, i, j) ==
  LET a == book.orders[i]  b == book.orders[j]
  IN  IF a.price = b.price THEN a.at < b.at \/ (a.at = b.at /\ i < j)
      ELSE IF a.isBuy THEN a.price > b.price ELSE a.price < b.price

Side(book, ids, isBuy) ==
  Arranged({i \in ids : i \in Live(book) /\ book.orders[i].isBuy = isBuy},
           {p \in ids \X ids : Before(book, p[1], p[2])})

(* getBestBidAsk, over all live orders (external). *)
BestPrice(book, isBuy) ==
  LET side == {book.orders[i].price :
                 i \in {id \in Live(book) : book.orders[id].isBuy = isBuy}}
  IN  IF side = {} THEN 0
      ELSE IF isBuy THEN Max(side) ELSE Min(side)

TakeSnapshot ==
  /\ Scanning /\ ~MoreToProbe
  /\ snapshot' =
       [status |-> "found", of |-> image,
        bids |-> Side(image, scan.found, TRUE),
        asks |-> Side(image, scan.found, FALSE),
        bestBid |-> BestPrice(image, TRUE), bestAsk |-> BestPrice(image, FALSE),
        truncated |-> Cardinality(scan.found) < Cardinality(Live(image)),
        exhausted |-> scan.left = 0]
  /\ scan' = NoScan /\ image' = NoImage
  /\ UNCHANGED <<orders, ownerless, now, livesIn, looking>>

BookNext ==
  \/ \E price \in Price, isBuy \in BOOLEAN : PlaceOrder(isBuy, price)
  \/ \E id \in 1..MAX_PLACED : RemoveOrder(id)
  \/ \E dapps \in {DEFAULT_DAPPS} \cup {<<d>> : d \in {"own", "system"}} : Call(dapps)
  \/ \E maxScan \in {1, MAX_PLACED} : FetchBook(maxScan)
  \/ FetchFails \/ ProbeOrder \/ GetterFails \/ TakeSnapshot

BookSpec == BookInit /\ [][BookNext]_bookVars

-----------------------------------------------------------------------------
(* Properties *)

(* What an answer shows of the account it was read from. *)
IsConsistent(answer) ==
  LET shown == ToSet(answer.bids) \cup ToSet(answer.asks)
      order == answer.of.orders
      Best(side) == order[Head(side)].price
  IN  /\ shown \subseteq Live(answer.of)
      /\ ~answer.truncated =>
           /\ shown = Live(answer.of)
           /\ answer.bids # << >> => Best(answer.bids) = answer.bestBid
           /\ answer.asks # << >> => Best(answer.asks) = answer.bestAsk
      /\ answer.truncated => answer.exhausted
      /\ Len(answer.bids) + Len(answer.asks) = Cardinality(shown)
      /\ \A side \in {answer.bids, answer.asks} :
           \A i, j \in 1..Len(side) :
             i < j /\ order[side[i]].price = order[side[j]].price => side[i] < side[j]

(***************************************************************************)
(* A snapshot that does not say it is truncated holds all orders that were *)
(* live when the account was fetched and no other, whatever traded while   *)
(* the ids were probed; one that does holds some of them, and used up its  *)
(* budget of ids.  Price-time priority holds: a whole side begins with the *)
(* best price the contract reports, and of two orders at one price the     *)
(* earlier comes first.                                                    *)
(***************************************************************************)
SnapshotIsConsistent == IsConsistent(snapshot)
=============================================================================
