----------------------------- MODULE MessageFilter -----------------------------
(***************************************************************************)
(* The filter the block stream feeds (filter/rules.rs, filter/engine.rs),  *)
(* the subscription tools that change it while it runs (mcp/tools.rs), and *)
(* the identity of the facts it produces (transform/mod.rs).  For a block  *)
(* the decoder first copies the rules and then takes the lock of the ABI   *)
(* registry: a tool call may come in between.                              *)
(***************************************************************************)
EXTENDS Naturals, Sequences, SequencesExt, Arrangement

CONSTANTS
  Account,      \* addresses, as messages spell them
  External,     \* the external end of a message: no address
  Block,        \* blocks the stream may deliver, [seqNo, thread, accounts]:
                \* of each account block its transactions, [root, in, out]
  AbiFile,      \* ABIs: functions from body ids to method and event names
  GlobalAbis,   \* AbiRegistry.global, in order of registration
  NoName,       \* the name of a body no ABI knows
  Configured,   \* the rules of the filter file
  Wish,         \* [types, methods] of the subscriptions asked for
  MAX_RULES     \* bound: rules in the filter

MsgType == {"internal", "ext_in", "ext_out"}

ASSUME RuleAssumption ==
  /\ Configured \in Seq(ToSet(Configured))
  /\ \A r \in ToSet(Configured) :
       r.addresses \subseteq Account /\ r.types \subseteq MsgType
  /\ \A wish \in Wish : wish.types \subseteq MsgType

(***************************************************************************)
(* What a cell of a block may hold instead of what belongs there: bits     *)
(* that do not parse (BadCell, or no cell at all), or a cell the library   *)
(* cannot open, as a pruned one is (LostCell).                             *)
(***************************************************************************)
BadCell == [type |-> "unreadable"]
LostCell == [type |-> "unloadable"]

VARIABLES
  rules,      \* state.filter_config.rules
  abis,       \* state.abi_registry.abis: address -> ABI
  taken,      \* the decoder's block and its copy of the rules, or NoBlock
  facts,      \* history: <<source_id, thread, message>> of every fact made
  asked,      \* history: the rules subscribed to and not revoked
  promised,   \* history: those asked for when the decoder copied the rules
  forgotten   \* history: addresses unsubscribed and not subscribed since

filterVars == <<rules, abis, taken, facts, asked, promised, forgotten>>

NoBlock == [blocks |-> {}, rules |-> << >>]

FilterInit ==
  /\ rules = Configured
  /\ abis = [a \in {} |-> NoName]
  /\ taken = NoBlock
  /\ facts = {} /\ asked = {} /\ promised = {} /\ forgotten = {}

-----------------------------------------------------------------------------
(* Matching *)

(* FilterRule::matches: an empty criterion accepts everything. *)
MatchesRule(r, m, name) ==
  /\ r.addresses # {} => m.src \in r.addresses \/ m.dst \in r.addresses
  /\ r.types # {} => m.type \in r.types
  /\ r.methods # {} => name \in r.methods

(* FilterConfig::matches: without rules nothing passes. *)
Matches(rs, m, name) == \E i \in DOMAIN rs : MatchesRule(rs[i], m, name)

(* decode_method: the ABI of the address first, then the global ones. *)
DecodeMethod(a, id) ==
  LET global == SelectSeq(GlobalAbis, LAMBDA abi : id \in DOMAIN abi)
  IN  IF a \in DOMAIN abis /\ id \in DOMAIN abis[a] THEN abis[a][id]
      ELSE IF global # << >> THEN global[1][id] ELSE NoName

(* try_match_message looks under the destination, if the message has one. *)
MethodOf(m) == DecodeMethod(IF m.dst # External THEN m.dst ELSE m.src, m.id)

SourceId_BlockOnly(b, m) == <<b.seqNo>>

(* to_fact: an external inbound message has no logical time, and gets 0. *)
SourceId(b, m) == <<b.seqNo, IF m.type = "ext_in" THEN 0 ELSE m.lt>>

Cells(tx) == ToSet(tx.in) \cup ToSet(tx.out)

Transactions(b) == UNION {ToSet(b.accounts[a]) : a \in DOMAIN b.accounts}

Messages(b) == (UNION {Cells(tx) : tx \in Transactions(b)}) \ {BadCell, LostCell}

(***************************************************************************)
(* What the chain promises: one block per thread and number, and in it no  *)
(* two messages of one account at one logical time.                        *)
(***************************************************************************)
ASSUME BlockAssumption ==
  \A b, c \in Block :
    /\ b.seqNo = c.seqNo /\ b.thread = c.thread => b = c
    /\ \A a \in DOMAIN b.accounts : b.accounts[a] \in Seq(Transactions(b))
    /\ \A tx \in Transactions(b) :
         /\ tx.in \in Seq(Cells(tx)) /\ Len(tx.in) <= 1
         /\ tx.out \in Seq(Cells(tx))
    /\ \A m, n \in Messages(b) :
         /\ m.type = "ext_in" <=> m.src = External
         /\ m.src = n.src /\ m.lt = n.lt /\ m.src # External => m = n

Breaks_BadCell(tx) ==
  tx.root # "parsed" \/ ToSet(tx.in) \cap {BadCell, LostCell} # {}

(***************************************************************************)
(* load_cell(..)? on the transaction or its inbound message: the error     *)
(* leaves the closure run for each transaction, which ends the account     *)
(* block.  A transaction that does not parse is only passed over.          *)
(***************************************************************************)
Breaks(tx) ==
  \/ tx.root = "unloadable"
  \/ tx.root = "parsed" /\ LostCell \in ToSet(tx.in)

(* load_cell(..)? on an outbound message ends those of its transaction. *)
HeardOut(tx) ==
  {tx.out[k] : k \in {k \in DOMAIN tx.out : \A j \in 1..k : tx.out[j] # LostCell}}

(* A message that does not parse costs itself. *)
HeardOf(tx) ==
  IF tx.root = "parsed" THEN (ToSet(tx.in) \cup HeardOut(tx)) \ {BadCell} ELSE {}

HeardIn(txs) ==
  UNION {HeardOf(txs[k]) : k \in {k \in DOMAIN txs : \A j \in 1..k : ~Breaks(txs[j])}}

(* Both errors are dropped, and the next account block is processed. *)
Heard(b) == UNION {HeardIn(b.accounts[a]) : a \in DOMAIN b.accounts}

-----------------------------------------------------------------------------
(* The decoder *)

(* let config = stream_state.filter_config.lock().clone() *)
CopyRules(b) ==
  /\ taken = NoBlock
  /\ taken' = [blocks |-> {b}, rules |-> rules]
  /\ promised' = asked
  /\ UNCHANGED <<rules, abis, facts, asked, forgotten>>

(* process_block and to_fact, under the lock of the ABI registry. *)
ProcessBlock ==
  /\ \E b \in taken.blocks :
       LET matched == {m \in Heard(b) : Matches(taken.rules, m, MethodOf(m))}
       IN  facts' = facts \cup {<<SourceId(b, m), b.thread, m>> : m \in matched}
  /\ taken' = NoBlock
  /\ UNCHANGED <<rules, abis, asked, promised, forgotten>>

-----------------------------------------------------------------------------
(* The tools *)

NewRule(a, wish) == [addresses |-> {a}, types |-> wish.types, methods |-> wish.methods]

SubscribeAddress(a, wish) ==
  /\ Len(rules) < MAX_RULES
  /\ rules' = Append(rules, NewRule(a, wish))
  /\ asked' = asked \cup {NewRule(a, wish)}
  /\ forgotten' = forgotten \ {a}
  /\ UNCHANGED <<abis, taken, facts, promised>>

(* rules.retain: every rule that names the address goes, whoever else it names. *)
RulesWithout(a) == Selected(rules, {i \in DOMAIN rules : a \notin rules[i].addresses})

UnsubscribeAddress(a) ==
  /\ rules' = RulesWithout(a)
  /\ asked' = {r \in asked : a \notin r.addresses}
  /\ promised' = {r \in promised : a \notin r.addresses}
  /\ forgotten' = forgotten \cup {a}
  /\ UNCHANGED <<abis, taken, facts>>

RegisterAbi(a, abi) ==
  /\ abis' = [x \in DOMAIN abis \cup {a} |-> IF x = a THEN abi ELSE abis[x]]
  /\ UNCHANGED <<rules, taken, facts, asked, promised, forgotten>>

FilterNext ==
  \/ \E b \in Block : CopyRules(b)
  \/ ProcessBlock
  \/ \E a \in Account, wish \in Wish : SubscribeAddress(a, wish)
  \/ \E a \in Account : UnsubscribeAddress(a)
  \/ \E a \in Account, abi \in AbiFile : RegisterAbi(a, abi)

FilterSpec == FilterInit /\ [][FilterNext]_filterVars

-----------------------------------------------------------------------------
(* Properties *)

(***************************************************************************)
(* Type invariant.                                                         *)
(***************************************************************************)
FilterTypeOK ==
  /\ \A i \in DOMAIN rules :
       /\ rules[i].addresses \subseteq Account
       /\ rules[i].types \subseteq MsgType
  /\ DOMAIN abis \subseteq Account
  /\ taken.blocks \subseteq Block
  /\ \A f \in facts : f[3] \in UNION {Messages(b) : b \in Block}

(***************************************************************************)
(* The messages no damage of the block is in the way of: legible ones of   *)
(* transactions that parse, in account blocks whose cells can all be       *)
(* opened.                                                                 *)
(***************************************************************************)
Loads(txs) ==
  \A k \in DOMAIN txs : txs[k].root # "unloadable" /\ LostCell \notin Cells(txs[k])

Legible(txs) ==
  (UNION {Cells(txs[k]) : k \in {k \in DOMAIN txs : txs[k].root = "parsed"}}) \ {BadCell}

Unharmed(b) ==
  UNION {Legible(b.accounts[a]) : a \in {a \in DOMAIN b.accounts : Loads(b.accounts[a])}}

(***************************************************************************)
(* What a client subscribed to before the decoder took a block, and has    *)
(* not revoked, is heard, whatever other clients subscribe, unsubscribe or *)
(* register meanwhile and whatever the filter file named.  Damage stays    *)
(* where it is: what cannot be parsed costs only itself, what cannot be    *)
(* opened costs only messages of its own account block.                    *)
(***************************************************************************)
SubscribedIsHeard ==
  [][taken' = NoBlock =>
       \A b \in taken.blocks, r \in promised : \A m \in Unharmed(b) :
         MatchesRule(r, m, MethodOf(m)) => \E f \in facts' : f[3] = m]_filterVars

(***************************************************************************)
(* Once unsubscribe_address has answered, no rule names the address, not   *)
(* even one of the filter file or a subscription made twice, until a       *)
(* client subscribes to it again.                                          *)
(***************************************************************************)
UnsubscribedIsForgotten ==
  \A i \in DOMAIN rules : rules[i].addresses \cap forgotten = {}

(***************************************************************************)
(* In one thread, the source_id tells the facts of one sender apart.  It   *)
(* does no more than that: two accounts may send at the same logical time  *)
(* of a block, an external inbound message has no sender, and an internal  *)
(* message that its sender's block and its receiver's hold has two names.  *)
(***************************************************************************)
FactsTellMessagesApart ==
  \A f, g \in facts :
    f[1] = g[1] /\ f[2] = g[2] /\ f[3].src = g[3].src =>
      f[3] = g[3] \/ f[3].type = "ext_in"

(***************************************************************************)
(* Subscriptions mean what the tools say: an address is heard from the     *)
(* answer of subscribe_address on, and no longer matched by any rule from  *)
(* that of unsubscribe_address on.                                         *)
(***************************************************************************)
SubscriptionsHold ==
  [](FilterTypeOK /\ UnsubscribedIsForgotten) /\ SubscribedIsHeard
=============================================================================
