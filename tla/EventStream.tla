---------------------------- MODULE EventStream ----------------------------
(***************************************************************************)
(* Reading an account's event log (airegistry/getter.rs, with the decoders *)
(* of airegistry/events.rs and inference/events.rs) and its users:         *)
(* subscribe_events and subscribe_inference_events of sdk/client.rs, which *)
(* turn pages into an endless stream, and the tool list_marketplace, whose *)
(* caller pages on from the cursor of the last answer and stops when told  *)
(* that it has caught up.  Cursors are positions in the log, 0 for none.   *)
(***************************************************************************)
EXTENDS Integers, Sequences, FiniteSets, SequencesExt

CONSTANTS
  Message,       \* what an account can emit: [out, abi, event, whole]
  PAGE,          \* the subscriber's page size
  MAX_FIRST,     \* the largest page of list_marketplace
  MAX_LAG,       \* messages the node that answers may be behind
  MAX_LOG,       \* bound: messages emitted
  MAX_RESTARTS   \* bound: times the subscriber starts again

ASSUME StreamAssumption ==
  /\ PAGE \in Nat \ {0} /\ MAX_FIRST \in Nat \ {0}
  /\ MAX_LAG \in Nat /\ MAX_LOG \in Nat

VARIABLES
  log,        \* the chain: what the account has emitted, oldest first
  home,       \* the chain: the DApp the account lives in
  family,     \* the stream: "registry" or "inference", the events it decodes
  origin,     \* AccountOrigin the reader gives: "self" or "explicit"
  override,   \* cfg.dapp_id_override: a DApp, or "none"
  cursor,     \* the stream: read up to here
  buf,        \* the stream: positions read and not yet yielded
  item,       \* the stream: what it yielded last, "record" or "error"
  delivered,  \* history: positions yielded since the subscription began
  restarts,
  checkpoint, \* the caller of list_marketplace: end_cursor of its last page
  catalogue,  \* ... the registrations it has been told of
  caughtUp,   \* ... whether has_more was false
  horizon     \* history: what the log held, less the lag, when it was last read

streamVars == <<log, home, family, origin, override, cursor, buf, item, delivered,
                restarts, checkpoint, catalogue, caughtUp, horizon>>
subscriber == <<cursor, buf, item, delivered, restarts>>
indexer == <<checkpoint, catalogue, caughtUp, horizon>>
routing == <<home, family, origin, override>>

StreamInit ==
  /\ log = << >> /\ home \in {"own", "system"}
  /\ family \in {"registry", "inference"}
  /\ origin \in {"self"} \cup (IF family = "inference" THEN {"explicit"} ELSE {})
  /\ override \in {"none", "system"}
  /\ cursor = 0 /\ buf = << >> /\ item = "none" /\ delivered = << >>
  /\ restarts = 0
  /\ checkpoint = 0 /\ catalogue = {} /\ caughtUp = FALSE /\ horizon = 0

(* What is given with the call wins, then the override, then the account's *)
(* own id; an explicit DApp is given by who knows it.                      *)
ResolveDappId ==
  IF origin = "explicit" THEN home
  ELSE IF override # "none" THEN override ELSE "own"

routed == ResolveDappId = home

-----------------------------------------------------------------------------
(* Decoding a message *)

Foreign == "foreign"

(* The ABIs a reader has: that of the registry contract it was given, or   *)
(* those of the inference market.                                          *)
Abis(reader) ==
  IF reader = "registry" THEN {"SuperRoot"} ELSE {"OrderBook", "PrivateNote", "RootPN"}

(* Events with a type of their own; any other of the ABI becomes Other.    *)
RegistryEvents ==
  {"ContractDeployed", "RootRegistered", "ManifestRegistered",
   "TokenContractRegistered", "ManifestUpdated", "TokensPurchased", "FeeBurned",
   "TokensConsumed", "TokensReplenished", "ShellWithdrawn",
   "ReservationCancelled", "AvailableReduced", "ContractDestroyed"}

InferenceEvents ==
  {"InferenceOrderPlaced", "InferenceOrderCancelled", "InferenceFilled",
   "InferenceExecuted", "InferenceRefunded", "InferenceSubscriptionPlaced",
   "InferenceCycleForfeited", "InferenceForfeitClaimed",
   "InferenceOrderBookDeployed", "InferenceOrderPlacedConfirmed",
   "InferenceFilledConfirmed", "OrderSubmitted", "OrderPlacedConfirmed",
   "OrderFilledConfirmed", "OrderCancelledConfirmed", "OrderPlaceRejected",
   "TransferInitiated", "TransferReceived", "VoucherGenerated",
   "PrivateNoteDeployed"}

MapEvent(reader, event) ==
  IF event \in (IF reader = "registry" THEN RegistryEvents ELSE InferenceEvents)
  THEN event ELSE "Other"

(* decode_event_body: an id that is in none of the ABIs is foreign, and so *)
(* is, for the reader, an event whose fields are not all there.            *)
DecodeEventBody(reader, m) ==
  IF m.abi \in Abis(reader) /\ m.whole THEN MapEvent(reader, m.event) ELSE Foreign

(* Only messages that leave the chain, and have a body, are looked at.     *)
Decodes(reader) == {m \in Message : m.out /\ DecodeEventBody(reader, m) # Foreign}

decodable == Decodes(family)

(* registration_of *)
Registrations ==
  {m \in Decodes("registry") : DecodeEventBody("registry", m) \in
     {"RootRegistered", "ManifestRegistered", "TokenContractRegistered"}}

-----------------------------------------------------------------------------
(* One page *)

(* The messages from after the cursor to the last one, oldest first. *)
Between(after, last) == [k \in 1..(last - after) |-> after + k]

ParsePage_NothingMore(after, first, n) ==
  [at |-> Between(after, IF after + first < n THEN after + first ELSE n), more |-> FALSE]

(* A page of a node that has the first n messages. *)
ParsePage(after, first, n) ==
  LET last == IF after + first < n THEN after + first ELSE n
  IN  [at |-> Between(after, last), more |-> last < n]

(* Foreign messages are skipped but count for the cursor.                  *)
Records(page, wanted) == SelectSeq(page.at, LAMBDA i : log[i] \in wanted)

EndCursor_Verbatim(page, before) ==
  IF page.at # << >> THEN Last(page.at) ELSE 0

(* An empty page has no endCursor: the reader keeps the one it has.        *)
EndCursor(page, before) ==
  IF page.at # << >> THEN Last(page.at) ELSE before

(* What the node that answers may have; an account it does not find, at    *)
(* all or in that DApp, is an error and not an empty page.                 *)
Served ==
  IF routed THEN {n \in 1..Len(log) : n + MAX_LAG >= Len(log)} ELSE {}

-----------------------------------------------------------------------------

Emit(m) ==
  /\ Len(log) < MAX_LOG
  /\ log' = Append(log, m)
  /\ UNCHANGED <<routing, subscriber, indexer>>

(* The stream reads only when it has nothing left to yield. *)
PollPage(n) ==
  /\ buf = << >> /\ n \in Served
  /\ LET page == ParsePage(cursor, PAGE, n)
     IN  cursor' = EndCursor(page, cursor) /\ buf' = Records(page, decodable)
  /\ UNCHANGED <<log, routing, item, delivered, restarts, indexer>>

(* A read that fails, for whatever reason, is yielded and read again. *)
PollFails ==
  /\ buf = << >>
  /\ item' = "error"
  /\ UNCHANGED <<log, routing, cursor, buf, delivered, restarts, indexer>>

YieldRecord ==
  /\ buf # << >>
  /\ buf' = Tail(buf) /\ delivered' = Append(delivered, Head(buf))
  /\ item' = "record"
  /\ UNCHANGED <<log, routing, cursor, restarts, indexer>>

(* The subscriber's process dies: a new subscription has no cursor. *)
Resubscribe ==
  /\ restarts < MAX_RESTARTS
  /\ restarts' = restarts + 1
  /\ cursor' = 0 /\ buf' = << >> /\ delivered' = << >> /\ item' = "none"
  /\ UNCHANGED <<log, routing, indexer>>

ListMarketplace(first, n) ==
  /\ n \in Served
  /\ LET size == IF first < 1 THEN 1 ELSE IF first > MAX_FIRST THEN MAX_FIRST ELSE first
         page == ParsePage(checkpoint, size, n)
     IN  /\ checkpoint' = EndCursor(page, checkpoint)
         /\ catalogue' = catalogue \cup {i \in ToSet(page.at) : log[i] \in Registrations}
         /\ caughtUp' = ~page.more
  /\ horizon' = IF Len(log) > MAX_LAG THEN Len(log) - MAX_LAG ELSE 0
  /\ UNCHANGED <<log, routing, subscriber>>

StreamNext ==
  \/ \E m \in Message : Emit(m)
  \/ \E n \in 0..MAX_LOG :
       PollPage(n) \/ \E first \in 0..MAX_FIRST + 1 : ListMarketplace(first, n)
  \/ PollFails \/ YieldRecord \/ Resubscribe

StreamSpec == StreamInit /\ [][StreamNext]_streamVars

(* The subscriber keeps asking the stream for the next item; of the reads  *)
(* it makes again and again, some reach a node that has the whole log.     *)
StreamFairness ==
  /\ WF_streamVars(YieldRecord)
  /\ SF_streamVars(PollPage(Len(log)))

-----------------------------------------------------------------------------
(* Properties *)

(***************************************************************************)
(* The stream is the feed: in order, without gaps or repetitions, and in   *)
(* the end complete, over failing reads, nodes that lag behind, pages with *)
(* nothing of the family and pages that are empty.                         *)
(***************************************************************************)
Feed == INSTANCE EventFeed
StreamIsTheFeed == Feed!FeedSpec

(***************************************************************************)
(* A caller of list_marketplace that has been told it has caught up knows  *)
(* every registration that was in the log, less the lag of the node that   *)
(* answered: "not found" is never mistaken for "nothing more".             *)
(***************************************************************************)
CaughtUpIsComplete ==
  caughtUp => \A i \in 1..horizon : log[i] \in Registrations => i \in catalogue
=============================================================================
