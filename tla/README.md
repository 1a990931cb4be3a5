# A TLA+ model of gosh.ackinacki

`gosh.ackinacki` is a bridge between the Acki Nacki blockchain and AI agents.
A Rust process (`src/src`) listens to Block Keepers, turns the messages it
cares about into facts for a `gosh.memory` server, and serves tools to agents
over MCP: wallets, transfers, and an on-chain registry of AI models with its
payments. The same crate is a library (SDK) for event streams, private notes
and the inference order book. A pair of
Solidity contracts (`src/contracts/swarm`) holds the money: a multisignature
wallet owned by agents, controllers and people, and a root that deploys such
wallets.

This directory holds TLA+ modules for the parts of it where order, failure and
concurrency matter, the TLC instances that check them, and TLAPS proofs of
most of what they check, for every value of the constants. Sections: [system](#1-the-system) ·
[modules](#2-the-modules) · [runs](#3-the-runs-bounds-and-fairness) ·
[proofs](#4-the-proofs) · [findings](#5-where-code-and-documentation-disagree) ·
[limits](#6-what-is-not-modelled) · [plan](#7-plan).

Run a check with `tlc -config <run>.cfg <MC module>` and the proofs with
`tlapm <module>.tla` for each module whose name ends in `Proofs`.

## 1. The system

### How the parts interact

```
Block Keepers --QUIC--> subscribers --unbounded queue--> decoder thread
                           ^                                |  dedup, filter, transform
                     connection pool                        v  bounded channel
                     ^ watch channel                  ingestion task --HTTP--> gosh.memory
                     | (Block Keeper list)                                      ^
                   main                                                         | keys, policies,
                                                                                | tx records
 agent --MCP/HTTP--> tool handlers --rate limiter--policy--locks----------------+
                           |
                           +-- external messages / getters (HTTP) --> Block Keeper
                                                                          |
                        SwarmMultisigWallet, SwarmRoot, registry contracts
```

Tool handlers run concurrently on a tokio runtime. They share `AppState`
(`state.rs`): the rate limiter behind a mutex, a map of per-treasury async
locks, the memory clients. Nothing of it survives a restart. On the chain side
there are no calls, only messages: the process posts a signed message, which a
Block Keeper executes at some time before it expires, or never, and learns the
outcome by polling getters.

### Inventory

| Component | State | Operations | What is hard | What makes it correct |
|---|---|---|---|---|
| **SwarmMultisigWallet** (`contracts/swarm/SwarmMultisigWallet.sol`) | owners and their indexes, two thresholds, a queue of transfers and one of owner updates, a packed counter of queued requests per custodian, cleanup limit | `sendTransaction`, `submitTransaction`, `confirmTransaction`, `submitDataUpdate`, `confirmDataUpdate`, `setMaxCleanupOperations` | bounded sweeps committed before the later checks fail, expiry, owner changes while requests are queued, byte arithmetic, ids from clocks | a transfer leaves only with a quorum of current owners, once, before it expires; no vote outlives its voter; counters never borrow |
| **SwarmRoot** (`SwarmRoot.sol`) | code cells, hash of wallets | deploy a wallet at an address derived from its owner | same address for same input | address is a function of the key |
| **Rate limiter** (`mcp/tools.rs`, `TxRateLimiter`) | bucket per wallet: window start, count | `check` | clock read before the lock, eviction | never more than a fixed window allows, never refuses early, forgets only what is stale |
| **Block stream** (`transport/subscriber.rs`, `decoder/`, `main.rs`) | queues, recent-block filter, session counter, ingestion channel | receive, decode, hand over, post, exit | back-pressure, duplicates from several nodes, failing posts, exit with work in flight | duplicates dropped, order kept, loss only with an error, exit not stuck |
| **Connection pool** (`transport/pool.rs`) | nodes, active tasks, cooldowns | health tick, configuration change, channel closed | deaths noticed late, reload while tasks die, starvation | one connection per node, cooldown respected, slots filled, failover, reload takes effect |
| **fund_buyer** (`mcp/airegistry.rs`) | per-treasury lock; the phases of a call | lock, preflight reads, submit, poll | the message outlives the call; other custodians; restart | released by one signature only if the owners lowered the quorum meanwhile; never two calls with one id; id belongs to the custodian's own request |
| **Manifest store** (`mcp/airegistry.rs`, `set_manifest`, `get_manifest`) | phases of a set; chunks on chain | deploy, write chunk, confirm, clear tail, read back; read | retries, late messages, concurrent sets, torn reads | a verified package is stored and stays |
| **Other registry tools** (`mcp/airegistry.rs`, `airegistry/`) | pointers to what was deployed, in gosh.memory | deploy a contract and record it, buy, bill, cancel, prepare an intent for a user's wallet, verify readiness, list the marketplace | concurrent deploys of one address, messages executed late or twice, answers put together from several reads, paging | a pointer names a live contract; SHELL comes back to who paid it; "verified" is true; "nothing more" is complete |
| **Wallet tools** (`mcp/tools.rs`) | keys and transaction records in gosh.memory | `create_keys`, `deploy_wallet`, `send_transaction`, `confirm_transaction`, subscriptions, ABIs | policy checked on a read that may be stale, several writes to memory per operation, rules changed under the stream | no spend outside the policy; no wallet without its secret; a subscription is heard |
| **Server gate** (`mcp/mod.rs`, `mcp/tools.rs`) | mode, server token | authorize, list tools, dispatch | list and dispatch decide apart; tools need resources deep in their work | what is listed works; what is not listed does nothing; no tool without the token |
| **Policy** (`wallet/policy.rs`) | a document in gosh.memory | set, look up, parse, check | lost answers, policies changed while a call runs, limits that do not parse | every signature is covered by a policy in force; what is reported stored is stored |
| **Wallet chain access** (`wallet/`) | none | encode, send, judge the answer, fund, deploy, wait for status | lost answers, aborts behind HTTP 200, tolerated aborts, polling limits | what is reported done is done |
| **Filter** (`filter/`) | rules | match messages | precedence of rules | selects what the configuration says |
| **Transform** (`transform/`) | none | message to fact | identity of a fact | one message, one identity |
| **Memory clients** (`client/`) | MCP session id | initialize, call, sealed secrets | cached session after a server restart, sessions opened by several tasks, damaged answers | a failure is never taken for an answer |
| **Bootstrap authentication** (`client/auth.rs`, `main.rs`) | auth file, bootstrap file | `resolve_auth`, key registration | crash between writing one file and deleting the other | the token is never lost; a refused file changes nothing |
| **Process wiring, configuration** (`main.rs`, `config.rs`, `state.rs`) | task handles | start, select, exit | which handle ends the process | runs until something ends |
| **Private note onboarding** (`private_note/`) | keys, vouchers, a process-wide latch | deposit, prove, mint, deploy, gas | failure after a paid step, waits that end early, a run dropped at an await | one run at a time; gas only for a note that exists; no false success, no false alarm |
| **SDK client** (`sdk/`) | paging cursor, buffer | `subscribe_events`, `subscribe_inference_events`, call, deploy | cursor moved before the records are handed out, lagging nodes, failing reads | each event once, in order, and in the end |
| **Order book** (`inference/`) | none | find the book, probe its orders, sort | it trades meanwhile; ids of filled orders; bounded scan | a snapshot of one moment, price-time order, honest about truncation |

The hazards, each at its line, are in `PROJECT.json` with the properties that
cover them.

## 2. The modules

| Module | Models | Lines of thought |
|---|---|---|
| `RequestQueue` | the contract's queues and masks as values | pure operators shared by both queues |
| `SwarmMultisig` | `SwarmMultisigWallet.sol` | one action per public function |
| `QuorumWallet` | nothing in particular: what a quorum wallet *promises* | no masks, indexes, sweeps or clocks |
| `SwarmMultisigRefinement` | the mapping from the contract to the promise | `INSTANCE QuorumWallet WITH ...` |
| `SwarmMultisigProofs` | theorems about `SwarmMultisig` | section 4 |
| `SwarmMultisigRefinementProofs` | that the mapping is a refinement | section 4 |
| `TxRateLimiter` | `TxRateLimiter::check` | reading the clock and taking the lock are two steps |
| `RecentBlockFilter` | `decoder/dedup.rs` | a set and a queue kept in step |
| `BlockPipeline` | subscriber queue, decoder thread, ingestion channel and task, exit | composes `RecentBlockFilter` |
| `ConnectionPool` | `transport/pool.rs` | select! arms as actions, time in seconds |
| `SpendPolicy` | `wallet/policy.rs` and the tools that obey it | every await a step, the wallet and gosh.memory external |
| `SpendPolicyProofs` | theorems about `SpendPolicy` | section 4 |
| `FundBuyer` | `fund_buyer` and the chain between it and its treasury | composes `SwarmMultisig` |
| `FundBuyerProofs` | theorems about `FundBuyer` | section 4; builds on `SwarmMultisigProofs` |
| `ManifestStore` | `set_manifest`, `get_manifest` over `ManifestMetadata` | the contract is external |
| `ManifestStoreProofs` | theorems about `ManifestStore` | section 4 |
| `MessageFilter` | `filter/`, the subscription tools, the identity of facts | copying the rules and using the ABIs are two steps |
| `McpServer` | `mcp/mod.rs` and the tool list and dispatch of `mcp/tools.rs` | a tool is the sequence of resources it uses |
| `McpSession` | `client/mcp_http.rs`, `object_store.rs`, `memory.rs` | every request a step; answers may be damaged |
| `WalletKeys` | `create_keys`, `deploy_wallet`, `deploy_buyer`, `SwarmRoot.deployWallet` | every write a step; crashes between any two |
| `RegistryDeploy` | `deploy_signed` and the tools that call it | the chain external |
| `RegistryPayments` | buying, billing, cancelling, intents, `verify_payment_readiness` | the lot external |
| `EventStream` | `airegistry/getter.rs`, the event decoders, `subscribe_events`, `list_marketplace` | implements `EventFeed` |
| `EventFeed` | what a subscription *promises* | no pages, cursors or failures |
| `OrderBook` | `inference/book.rs`, `sdk::inference_order_book` | the book trades while it is read |
| `NoteOnboarding` | `private_note/` | two legs; every wait and failure a step |
| `AuthBootstrap` | `main.rs` up to the bound port, `client/auth.rs` | two files, crashes anywhere |
| `MessageSend` | `wallet/query.rs`, `giver.rs`, `multisig.rs`, `sdk::call`, `deploy` | outcome and answer are different things |
| `ToolsProofs` | theorems about `RegistryPayments`, `WalletKeys`, `McpServer`, `McpSession` | section 4 |
| `FlowsProofs` | theorems about `AuthBootstrap`, `MessageSend`, `RegistryDeploy`, `BlockPipeline`, `EventStream`, `NoteOnboarding` | section 4 |
| `Arrangement` | what sorting and `retain` make of a list | pure operators, defined by their result |
| `ArrangementProofs` | theorems about `ConnectionPool`, `MessageFilter`, `OrderBook` | section 4 |
| `MCTools`, `MCFlows` | instances of the modules above, side by side | a variable picks the part a behaviour is about |
| other `MC*` | small instances | constants only |

Operators whose names carry a suffix (`MakeRoom_OneEarly`, `Terminal_ErrorIsZero`)
are plausible bugs; no specification uses them. Put in place of the operator
they are named after they break the property listed beside them in
`PROJECT.json`, which shows that the property can fail.

Components that share no state are checked side by side in one run: `MCTools`
holds what a tool call goes through, `MCFlows` the long-running flows. Every
behaviour picks one part at its start, so that the state spaces add up and do not
multiply. Some of the properties there are named conjunctions
(`WalletsStayUsable`, `LimiterHolds`): each conjunct has a name and a comment of
its own in the module.

### SwarmMultisig

The chain executes one external call at a time and atomically, so each public
function is one action whose disjuncts are the ways it can end. Two features
of the source shape it:

* **The committed sweep.** A submit or a confirm first removes expired requests
  (`_removeExpired*`), at most `_max_cleanup_operations` of them, and calls
  `tvm.commit`, so that the sweep stays even when a later `require` fails. A
  "failing" call is therefore a disjunct that changes the queue and its mask
  only. A call that fails before the sweep, or aborts for lack of balance,
  changes nothing and needs no disjunct.
* **Expired leftovers.** A sweep that stopped early leaves expired requests
  addressable; `confirmTransaction` deletes them instead of confirming.

`m_config` holds what `_initialize` sets: owner to index, count, thresholds.
The bit masks are sets of indexes, the packed counters functions from index to
`Int`: an integer that could go negative is exactly a byte that would borrow.
Ids are `(seconds << 32) | logical time`; the model keeps the order
(`GenerateId`), with `LT_SPAN` ids per second. `sent` records what left the
wallet in the last step and whose signatures released it.

### QuorumWallet

Requests and the sets of owners who signed them, identified by owner, not by
index; a transfer leaves with a quorum of the owners in force; requests may
lapse at any time; replacing the owners drops all requests. The refinement maps
a mask to the owners whose bits it holds. That the mapping works across owner
updates is the point: an index means a different owner afterwards.

### TxRateLimiter

`check` evicts buckets two windows old, then opens a window, counts or refuses.
`ReadClock` and `Check` are separate because `Instant::now()` is read before
the mutex is taken; `duration_since` saturates at zero.

### BlockPipeline and RecentBlockFilter

`Receive` pushes to the decoder's queue; `Decode` is `block::run` with main's
callback up to its `blocking_send`; `SendBatch` waits for room; the ingestion
task takes and posts, and a failed post is logged and forgotten. A post may
also be stored and reported as failed. `ProcessExits` is main's `select!`
returning: the tasks are dropped where they stand, while the decoder, a
blocking thread, runs on until every queue sender is gone. A block that the
filter rules reject is one that is not in `Matching`. `BlockCommand::Shutdown`
is never sent by the code and has no action.

### ConnectionPool

`HealthTick`, `ConfigChanged`, `WatchClosed` are the arms of the pool's
`select!`. Subscriber tasks die without telling: `Die` clears a flag that only
the next tick notices. The loop of `fill_connections` is given in closed form
(`Filled`): the candidates in list order, as many as there is room for. What
`reap_dead` and a reload leave of the subscribers is `Selected` of `Arrangement`:
the entries that stay, in their order.
Cooldowns are counted in seconds up to `COOLDOWN`; `rested` is a history
variable with the true time since a node's connection died. The sender of the
watch channel may go away at any moment (`DropSender`), as it does in main.

### SpendPolicy

A spending call goes through a lookup of the policy, for a confirmation a read
of the queued transaction, and the signature; `Fails` may end it at any of
these (a refused limiter, a failed lookup, an unreadable wallet, a missing
key): the code fails closed. `SendTransaction` is `send_transaction`; `Forward`
stands for `wallet_forward_call` and the submit of `fund_buyer`, which are
checked for the SHELL attached only; a confirmation is checked for the larger
of SHELL and value. A signed message stays in `inflight` until the wallet
executes it, at whatever time, or it is `Lost`. A request for the whole balance
(`all`, which only others make) is queued without an amount (`Queued`), as the
contract queues it; what it moves is `Moves`.

`set_wallet_policy` is a request that gosh.memory ingests (`IngestAsked`) before
the answer, or, when the call has given up, at any later time (`IngestLate`).
Memory is taken to keep one policy per wallet, the last ingested: the code
stores it under one source id and takes the first fact of an answer. A stored
limit that `parse_nanotoken` cannot read is `Unreadable` and limits nothing.
The wallet is that of `QuorumWallet` with fixed owners; that ids are given out
once, on which confirmations rely, is `IdsNeverReused` of `SwarmMultisig`.
History: `inForce` is the set of policies a call has seen in force since it
began, and a message carries that of its call; `told` is the last policy
reported stored by a call that ran with no earlier request outstanding.

### FundBuyer

The phases of a call are its awaits: lock, `treasury_required_confirms` (what it
read is `req`), `read_transactions`, submit, poll. `Deliver` is the chain executing the message,
possibly after the call has returned, up to its `expire` header, at most once.
Other custodians submit, confirm and change owners in between (`OthersAct`,
which are the contract's own actions), and a restart forgets the locks. In the
polling loop only the round that ends it is a step.

### ManifestStore

A package is a sequence of chunks. `mf_apply_chunk` sends a write and polls
until the chunk reads back, up to `MAX_TRIES` sends; then the tail of a longer
predecessor is deleted; then everything is read back and compared. The contract
executes a message at most once and only with a time header above the last
executed one (its ABI has the `time` and `expire` headers and a `_timestamp`
field). A writer may stop anywhere (`Abandon`); its messages live on. History
in a writer: `alone` (no other set was running when it began), `quiet` (and no
message was outstanding), `acted` (one of its messages was executed before it had
confirmed a chunk). A writer that is `Undisturbed` began last, alone, and is
`quiet` or has `acted`: no older message can be executed any more. `Chunk` is
the set of pieces packages are made of, none of which is the empty string;
`chunk_str` makes one empty piece of an empty package only.

### MessageFilter

The decoder's callback clones the rules (`CopyRules`) and then locks the ABIs
and processes the block (`ProcessBlock`); tools run in between. A method is
looked up under the destination, or under the source for an outbound message;
a message or a transaction that does not parse (`BadCell`, `unreadable`) is passed
over. A cell that cannot be opened (`LostCell`, `unloadable`) is an error that `?`
carries out of the closure: it ends the outbound messages of its transaction, or,
for a transaction or its inbound message, the account block (`HeardOut`, `HeardIn`,
`Breaks`). `SubscribedIsHeard` says so the other way round, without the
closures: of an account block whose cells can all be opened, whatever parses is
heard (`Unharmed`). A fact is named
`(seq_no, logical time)` within its thread, and external inbound messages have
logical time 0: `FactsTellMessagesApart` says for which messages this is enough,
given what the chain promises of numbers and times (`BlockAssumption`). It tells
messages apart and no more: a message that both the block of its sender and that
of its receiver hold becomes two facts with two names. `promised` is what had been
asked for when the rules were copied and has not been revoked since.

### McpServer

`Uses` gives, per tool, the resources in the order the code asks for them:
memory, limiter, filter, chain. `CallUses` consumes one, and fails without
memory where the accessors of `AppState` fail. `HonestContract` holds because
`tool_served` lets through only tools whose whole sequence is free of memory,
and because `call_contract` is shown without its signer argument in the modes
where a signer would need memory.

### McpSession and WalletKeys

`McpSession` is the client as its callers see it: what outcome it derives from
which answer (`Outcome`), over a session that several tasks may open at once and
that a restart of the server forgets. `ensure_initialized` takes any success for
one, also without a session id (`NoSession`); the call is then posted without a
session, or with the one another task has stored meanwhile. `ingest_facts` looks
for an error only, so an answer that says nothing counts as done; for an upsert
it does not. `WalletKeys` builds on such outcomes: a write may be made without
its answer. It keeps, per role, which pair the private and the public half
belong to. `deploy_buyer` runs the same steps as `create_keys` for the roles
that lack a public key.

### RegistryDeploy and RegistryPayments

`RegistryDeploy` is the sequence active? - fund twice - wait for exactly
`Uninit` - send - wait for `Active` - record. The address does not depend on what
the constructor is given, so two calls with different terms meet in one account.
`account` and `flying` are the chain; a message accepted without a result may be
executed later or expire. `RegistryPayments` follows the SHELL: in the wallet,
under way, reserved, billed. The agent's wallets (`Buyer \ User`) are sent by the tools,
users' wallets carry out prepared intents whenever they like. The lot's rules
(one buyer at a time, refund on cancel, bounce on refusal) are external and taken
from its interface.

### EventStream and EventFeed

Cursors are positions in the log. `ParsePage` is a page of a node that may be
up to `MAX_LAG` messages behind; foreign messages are skipped but move the
cursor, an empty page leaves it. An account is found only in the DApp the reader
resolves (`ResolveDappId`); a wrong one is an error and not an empty page.
The mapping to `EventFeed` is by name: `log` and the history `delivered`, with
`routed` and `decodable` as defined there.

### OrderBook, NoteOnboarding, AuthBootstrap, MessageSend

`OrderBook` fetches one account image and runs getters on it locally, while
`PlaceOrder` and `RemoveOrder` change the chain: the mutant that reads the chain
again shows what the image is for. A side is its orders `Arranged` by `Before`.
`NoteOnboarding` is one action per await of `deploy_private_note_from_multisig`;
a proof is an attempt per history layer that may fail, RootPN executes what it
has accepted at any time, and `DropRun` drops the future anywhere.
`AuthBootstrap` numbers bootstrap files: a generation is a join token with its
X25519 key; `Crash` may come between writing the temporary file, the rename, the
removal, the registration and the bind. `MessageSend` separates what became of a
message (`outcome`, chosen by the chain; what is queued may still succeed or
fail) from the answer about it and from the verdict the code derives.

## 3. The runs, bounds and fairness

| Run | Shows | Bounds, and why they suffice |
|---|---|---|
| `multisig_transfers` | votes, masks, quorum, ids, life and expiry of requests, with transfers only | three custodians (two keys, an address; also one custodian listed twice), thresholds 1-3, two queue slots per custodian, expiry after 1 s, clock to 3, sweeps of 2: full queues, sweeps that stop early and expired leftovers all occur |
| `multisig_updates` | thresholds and expiry across owner updates; the contract implements `QuorumWallet` | an update that reorders the indexes, one to a single owner, one that is invalid; one slot; cleanup limits 1 and 0; clock to 4 |
| `multisig_mask_leak` | *violation*: finding 1 | one slot, sweeps of 1 |
| `pool` | uniqueness, cleanup, slots, cooldown; failover and reload (liveness) | five nodes, `MAX_ACTIVE` 2, four unreachable ones first; two reloads among four lists (all, two reordered, one twice, none), so a node can leave and return |
| `pool_main` | *violation*: finding 2 | as `pool` |
| `spend_policy` | signatures obey a policy in force during the call; a policy reported stored is stored | a limit of 0 with one account both allowed and blocked, an unreadable limit, a freeze, no policy; five transfers (within, over in value, over in SHELL, to the blocked account, of the whole balance); one call and one message at a time, as calls meet only in the wallet and the policy, which a second custodian and the administrator change all the time; two request ids, so that one can lapse and another follow. The theorem covers any number of calls and messages |
| `all_balance` | *violation*: finding 5 | as `spend_policy` |
| `fund_buyer` | lock, no shared ids, correlation, quorum | three calls of one custodian for the same top-up, alike under symmetry, and another custodian wanting the same: the hardest case for correlation, and the fewest calls with which a call can be told the id of one that had itself been told another's. Times scaled (3601/45/60 s to 1/0/1): a message outlives polling and a request the call that made it; both run out within the run. Two ids per second, three queue slots, an owner update to one signature, proposed and confirmed at any time, one restart |
| `fund_buyer_correlation` | *violation*: finding 3 | no restart |
| `tools` | filter: subscriptions, identity of facts | two blocks of three and two account blocks: messages and a transaction that do not parse, cells that cannot be opened in each of the three places that open one, with messages before and after; two messages at one logical time, one message that both blocks hold; an ABI registered late; two rules, one of the filter file for two addresses |
| | server: the tool contract and the token | all three modes, all tools and methods, with and without key arguments; headers empty, a prefix, equal, different, longer |
| | sessions: truth of outcomes | two tasks, three calls, one restart of the server: two sessions opened at once, one forgotten; answers to initialize without a session |
| | keys: wallets stay usable | two calls at once, two of the three roles, three key pairs, two wallets: a re-keyed role, and a governed wallet after a buyer's |
| | payments: refunds, readiness | two wallets, one of them a user's, with 2 SHELL each and purchases of 1 and 2 |
| | order book: one moment, price-time | three orders at two prices, scans of 1 and 3 ids |
| | manifest: chunks confirmed, verified packages stay, whole reads | two writers with packages of 2 and 1 chunks (a package that shrinks), two sends per chunk (4 in the code), one reader |
| `flows` | pipeline: no silent loss, duplicates, exit | two connections, three hashes (two match), filter of 2, channel of 1, six messages: enough to forget a block, fill the channel and block the decoder |
| | deploy: pointers, and calls that end (liveness) | two callers, three calls, two terms, with and without a Giver |
| | stream: implements `EventFeed`; a listing that has caught up is complete | a log of three among a whole event, one cut short and a foreign one; pages of 2 and 1 to 2, a lag of 1, one restart; both families, right and wrong DApps |
| | notes: latch, gas after the note, honest verdicts | two callers, three runs, two layers |
| | auth: restarts lose nothing | two bootstrap files, valid or not, three starts, a crash at any step |
| | send: no false success | three wallet kinds of which one has no code here; every outcome with every answer it can have, and queued messages that fail later |
| | limiter: tight, and does not grow | two wallets, two threads, one call per window of 3, clocks up to 1 old; time 6 is past two windows and the eviction |
| `bootstrap_consumed` | *violation*: finding 4 | one file, two starts |

Type invariants are part of the compound properties where a module's data has a
shape worth checking (`SubscribersAreOfNodes`, `TopUpsKeptApart`,
`PackagesPersist`, `BatchesAccountedFor`, `LimiterHolds`, `SubscriptionsHold`);
those of the wallet and of the policy (`TypeOK`) are proved instead (section 4).
The wallet's and the queues' bounds are guards on `now` and `lt` and the sizes
of the constants; `MAX_*` constants marked "bound" in a module exist for TLC
only. Three-valued thresholds over three custodians cover every relation between
a threshold and the count (below, equal, clamped).

**Deadlock.** Checked in the runs of the wallet, the pool, the policy and
`fund_buyer`. `tools`, `flows` and `bootstrap_consumed` do not check it: their
parts really come to an end (a snapshot taken, the bounded calls made, the last
start failed). That no *call* gets stuck before its end is `DeployCallsEnd`,
`ExitCompletes` and `StreamIsTheFeed`.

**Fairness.**
* `pool`: weak fairness of each arm of `select!` (tokio polls the task while an
  arm is ready, and picks among ready arms at random, so an arm that stays
  ready is not passed over for ever), of time, and of an unreachable node's
  connection attempt failing in time. Nothing is assumed of the sender, of
  reloads or of other deaths.
* `PipelineFairness`: weak fairness of the decoder's own steps, an OS thread.
  Nothing is assumed of gosh.memory or of the network.
* `DeployFairness`: weak fairness of the steps of a call. All its waits have a
  deadline, so it is the clock that moves it on; nothing is assumed of the chain.
  (A single request that hangs for ever in the HTTP client is left out.)
* `StreamFairness`: the caller polls the stream while it has records (weak), and
  of the reads it makes again and again some reach a node that has the whole log
  (strong: they may fail in between). Without that a subscriber can obviously
  not be promised anything.
* No liveness is claimed for `fund_buyer`, the manifest tools and onboarding: the
  HTTP client has no timeout, so a server may keep a call, and with it the
  treasury's lock, for ever. None for the contract: custodians need not act.

**Failover has a limit.** `FailoverReachesGoodNode` holds in `pool` because an
attempt to connect to an unreachable node fails (2 s) well before the cooldown
of the nodes ahead of it is over (4 s). With a connect timeout of `COOLDOWN`
or more and `2 * MAX_ACTIVE` unreachable nodes in front, TLC finds that the
front nodes alternate for ever and the good one is never tried: candidates are
taken in list order (`pool.rs:110`), not in order of rest.

**The rate limit is per fixed window.** `LimitIsTight` says what the code
keeps. A sliding minute may see up to twice `TX_RATE_LIMIT_MAX_CALLS`, a burst
at the end of one window and one at the start of the next, where README.md:658
speaks of "10 tx/min per wallet".

## 4. The proofs

The theorems hold for every value of the constants that the named assumptions
(`ASSUME` in the modules, evaluated by TLC in the runs) allow. Each proof has the
same form: an invariant that is inductive, found by strengthening what the runs
check until no step can break it; one lemma that the initial states satisfy it;
one step per action that keeps it; and the property from the invariant.

### The wallet contract (`SwarmMultisigProofs`)

For any sets of keys, addresses, transfers and owner lists and any limits
(`OwnersAssumption`, `ArgsAssumption`, `TransferAssumption`, `LimitsAssumption`):

| Theorem | Says |
|---|---|
| `TypeCorrect` | `Spec => []TypeOK` |
| `ThresholdsStaySane` | thresholds can be met, an owner update never needs fewer signatures than a transfer, indexes are distinct |
| `VotesStayCurrent` | queued requests carry only votes of current custodians, correctly counted, short of the quorum in force |
| `MasksStayInTheirByte` | each counter covers the custodian's queued requests and stays within the limit: no borrow, no carry |
| `NothingLeavesWithoutQuorum` | every transfer carries the signatures of enough distinct custodians |
| `IdsStayFresh` | no id in a queue is ever handed out again |
| `ExpiredTransfersStay` | only what is queued and live is sent, as it was queued |
| `LiveRequestsStay` | a live transfer leaves the queue only by being sent or by a change of owners |
| `ExpiredUpdatesStay` | where a quorum is needed, owners change only by a queued, live update |

None of these is inductive alone. The invariant is

    IInv == ConfigInv /\ ClockInv /\ TransactionsInv /\ DataInv /\ SentWithQuorum

`ConfigInv` is the shape of the owners and thresholds after `_initialize`
(including that indexes are distinct and below the count: without it "a bit not
yet set" does not mean "a custodian who has not voted"). `TransactionsInv` and
`DataInv` say, of each queue and its mask, that requests are well formed, votes
consistent, ids below the next id, and the mask covers the queue. The mask
conjunct needs the ids: a new request must not land on an existing one, or the
count of queued requests and the mask would part. Vote consistency needs the
reset in `_initialize`, without which old votes would meet new indexes.
`SentWithQuorum` follows from vote consistency one step before: the mask has
`signsReceived` bits, the confirmer's is not among them, and
`signsReceived + 1 >= signsRequired`. Lemmas about queues and masks
(`Without`, `WithRequest`, `ReleaseMask`, ...) are stated once; `NextKeepsIInv`
has one step per action and under it one per queue it disturbs. The last three
theorems are action properties: the sweep takes only what has expired (the
purged ids are below the bound), so what an action finds in the swept queue was
there before, and what it sends passed `NotExpired`.

### The refinement (`SwarmMultisigRefinementProofs`)

`WalletImplementsQuorum`: every behaviour of the contract is, under the mapping of
`SwarmMultisigRefinement`, a behaviour of `QuorumWallet`. `TermsAssumption` says
that the mark for refused terms is not the terms of a contract. The proof needs
`IInv` on both sides of a step: that a mask maps to a set of owners of the same
size (`VotersGrow`, and `VotersCount` of the wallet's proofs) is due to distinct
indexes and to masks holding only bits of custodians. A refused call that has
swept is a lapse or nothing; a submit is a vote for a new request, after a
lapse when it swept; a confirmation that meets the quorum sends, and one that
replaces the owners maps the update's lists to the terms it was queued with.

### The policy (`SpendPolicyProofs`)

For any policies, any number of concurrent calls and messages and a wallet of
any size (`SpendAssumption`):

| Theorem | Says |
|---|---|
| `TypeCorrect` | `Spec => []TypeOK` |
| `SignaturesObeyThePolicy` | a message of the tools, executed whenever, votes only for a transfer that a policy in force during its call allows, going by the amount the queued request names |
| `ReportsAreTrue` | a policy reported stored is the one lookups find until another is asked for |

`SignedWithinPolicy` speaks of messages, and of
the queue at the time they might be executed. `SpendInv` adds what calls know
on their way: the policy in memory is among those a call has seen; one that
reads the queue has a policy it has seen; one that is about to sign is
`Justified`. `Justified` must survive everything the wallet does meanwhile, so
for a confirmation under a policy it says more than the property: the id
confirmed is *below the next id*. With `GoesOn` (the wallet makes requests only
under new ids and alters none, proved of every step) the request under that id
is then the one that was checked, or gone for good. A confirmation of an id not
yet made, signed under a policy, would break this; the code refuses it, as it
does not find the transaction. `SetInv` is the corresponding strengthening for
`ReportedPolicyHolds`.

### fund_buyer (`FundBuyerProofs`)

For any number of calls and custodians, any treasury and times
(`CallAssumption` beside those of the wallet: the tools sign with keys that
nobody else uses, and a top-up does not send all there is):

| Theorem | Says |
|---|---|
| `TopUpsStayApart` | one call at a time holds the lock, no two are told one id, and the id told is accounted for (`CorrelationIsSound`) |
| `SubmitNeverReleases` | a submit sends by itself only under a quorum lower than the one its call's preflight read |

The invariant `FInv` adds to the wallet's `IInv`: what a call has posted
(`MessageInv`), that every queued request of a custodian for whom the tools
work was made by the message of some call (`RequestsAreMade`), and `ToldInv`: an
id told to a call is not among what a call that is still looking could take for
new. The lemma that carries the proof is of the treasury: a step leaves the queue as
it was except for lapses and at most one request, under the next id, by the one
who submits (`GrowsBy`, `Shrinks`). `ToldInv` rests on the snapshot being taken
under the lock: what an earlier call was told was queued, or gone, by then.
`SubmitNeverReleases` needs `SendsGoverned` besides: whoever sends, or has sent,
read a quorum of two or more; and only a quorum of one makes a submit pay out.

### The manifest store (`ManifestStoreProofs`)

For any writers, packages and number of retries (`ManifestAssumption`: packages
are made of non-empty chunks, or are one empty chunk, and fit `MAX_CHUNKS`):

| Theorem | Says |
|---|---|
| `PackagesStayWhole` | chunks confirmed by an undisturbed writer stay on chain; a package it verified is the content until another set begins |
| `SettledReadsStayWhole` | a read that began after such a set returns its package whole unless another set begins |

`ManifestInv` says of every writer what it has sent where it is (`WriterInv`),
of every message what it would write (`MessageInv`: the chunk its own writer wants
at that index), and of the writer in charge (`ChargeInv`) that all messages of
others are older than its own: as the contract executes messages in the order of
their time headers, the first of its own to be executed makes the others
void. From then on every message left writes what is wanted, which keeps
`ConfirmedChunksHold` and makes what has been read so far (`ReadbackInv`,
`ReaderInv`) what is there. What joins to the package in the readback is then the
content; nothing need be known of how `Joined` computes.

### Tools (`ToolsProofs`)

| Theorem | Says, for any | by |
|---|---|---|
| `PaymentsStayHonest` | wallets and amounts (`PaymentsAssumption`): SHELL comes back to its payer; "verified" is true unless the lot changed hands | `PaymentsInv`: with one message per wallet under way, what a wallet had is the sum of what it has, what is under way, reserved and billed (`Balanced`); `ReadHolds`: what a check has read still holds |
| `WalletsRemainUsable` | number of calls, pairs and roles (`RolesAssumption`): every wallet has its secrets, buyers' wallets stay autonomous | `KeysInv`: a public key is stored only after its secret (`PairsInv`), owners read so far are stored (`ReadInv`); both only while no role is keyed twice |
| `ContractStaysHonest` | token, headers and number of requests (`TokenAssumption`): listed is served, unlisted does nothing, nothing without the token | `ServerInv`; `AuthorizedIsToken`: a header that passes the comparison is the token, byte by byte |
| `OutcomesStayTrue` | tasks, calls and restarts: no failure is taken for an answer, no call refused but after a restart or for want of a session | `SessionInv`: an id cached, stored or used is one that the server issued; a call posts without one only if its initialize was answered so; `Truthful` of each call |

### Flows (`FlowsProofs`)

| Theorem | Says, for any | by |
|---|---|---|
| `RestartsStaySafe` | number of bootstrap files and starts (`GenerationAssumption`): nothing is lost in a restart | `AuthInv`: a bootstrap file that exists is the newest; between reading and removing it the token is in it; when it is removed, in `memory-auth.json` |
| `SuccessIsNeverFalse` | kinds of wallet (`SendAssumption`): what is reported done is done | `SendInv`; `AcceptedIsSent`: what an answer that is let pass says of the outcome |
| `PointersStayTrue` | callers and terms: pointers name active lots with terms somebody asked for | `DeployInv`, `IsFiniteSet(requested)` for the case of one request |
| `DuplicatesStayRecent` | capacity (`CapacityAssumption`), 0 included: set and queue of the filter agree, and forget in order | `FilterInv`: the queue is the end of the sequence of blocks accepted (`RecentIn`), without repetition |
| `BatchesStayAccountedFor` | connections and channel (`PipelineAssumption`): no batch is lost unnoticed, and they arrive in order | `BatchInv`: stored, posted, queued and held batches follow each other in the order of their numbers (`InLine`) and cover all numbers (`Accounted`) |
| `CaughtUpStaysComplete` | log, page and lag (`StreamAssumption`): a listing that has caught up is complete | `IndexInv`: registrations up to the cursor are in the catalogue; `horizon <= checkpoint` once caught up |

### Onboarding (`FlowsProofs`)

For any callers, any depth of the block history and any bound on the number of
runs (`OnboardingAssumption`):

| Theorem | Says |
|---|---|
| `RunsAreSerial` | at most one run is under way, and the latch is held exactly while one is |
| `GasComesLast` | no run pays for gas before its note is active; an answer `ok` means both vouchers paid for and used |
| `OutagesSayNothing` | a note is called short of gas only if its gas was not delivered |

`MintingIsSerial` is nearly inductive:
`LatchInv` says it without cardinalities, and `StepOf`, proved of every action,
says that a step touches one run only and how it may change the latch. The lemma
`LatchStep` then needs no case for single actions. `GasFollowsTheNote` is not
inductive: `RunInv` adds what a run's place implies. What RootPN executed was
submitted and what was submitted was paid for; past the voucher's event the
voucher of the leg is paid; a run is in its gas leg only if its note is active;
a run under way has not answered yet. The last conjunct is what
`OutagesSayNothing` needs: a step after which the answer is `short` can then only
be `ObserveGas` of that run.

### Pool, filter and order book (`ArrangementProofs`)

These three select and sort. `Arrangement` defines what sorting makes of a set by
its result: the function on `1..Cardinality(S)` that is in order. That there is one
is the first thing to prove, without induction: the rank of an element is the
number of those before it (`RanksInOrder`), ranks are the numbers below the size
(`OrderExists`), and every element has its place (`EachHasAPlace`).
`ArrangedInOrder` and `SelectedInOrder` are what the rest uses.

| Theorem | Says, for any | by |
|---|---|---|
| `SubscribersStayOfNodes` | nodes, lists and times (`PoolAssumption`): one subscriber per node, at most `MAX_ACTIVE`, nothing left of removed nodes | `PoolInv`; `FilledIs`: what the loop adds are candidates, once each, and none is left over while there is room |
| `SlotsStayFilled` | the same: between ticks no slot is empty while a rested node is idle | `PoolInv` |
| `NodesRest` | the same: a node that gets a connection has rested `COOLDOWN` seconds since its last one died, also when one tick notices the death and connects | `RestIsTrue`: a node whose connection is not a dead one waiting to be noticed has rested at least what its cooldown says. It holds only while the pool runs: afterwards nobody notices a death |
| `SubscriptionsMeanWhatTheySay` | rules, wishes, ABIs and blocks (`RuleAssumption`, `BlockAssumption`): subscriptions are heard, unsubscribed addresses forgotten | `FilterInv`: what has been asked for is among the rules, what is promised among the copied ones; `UnharmedIsHeard`: where every cell can be opened and everything before it in the account block is passed, what parses is looked at |
| `FactsStayApart` | the same: names tell the messages of one sender apart | `FilterInv`: a fact is made of a message of a block; the rest is `BlockAssumption` |
| `SnapshotsAreConsistent` | prices and numbers of orders (`BookAssumption`): a snapshot is of one moment, in order, honest about truncation | `BookInv`: ids rise with time (`InTime`), which turns "earlier" into "smaller id"; the scan has found exactly the live ids it has passed. `BeforeIsAnOrder` for `ArrangedInOrder`, `BestFirst` for the best price |

### What proving has changed

Two statements that TLC had passed turned out false for larger instances when
their proofs failed: `CorrelationIsSound` with three calls (section 5, finding
3), now one of the cases of the run `fund_buyer`, and `VerifiedPackageStays`
with more writers and longer packages (section 5, last paragraph). Both now say
what the code guarantees. In the other direction, the limits and the types of
constants that the code takes for granted are now assumptions with a name. A
third statement, that a message has one name, said more than the code does once
blocks were arbitrary: `source_id` contains the number of the block, so a
message held by two blocks has two. The instance now has such a message, and the
property no longer says it.

### Only model-checked

`LimiterHolds`, which sums over time. The refinement of `EventFeed`
(`StreamIsTheFeed`), which includes liveness, and all other liveness
(`ExitCompletes`, `DeployCallsEnd`, `ReloadTakesEffect`,
`FailoverReachesGoodNode`): the prover handles neither fairness nor `ENABLED`.

## 5. Where code and documentation disagree

Each is a run that TLC refutes; details and quotations are in `PROJECT.json`.

1. **Request masks leak** (`multisig_mask_leak`). Confirming an expired request
   that a bounded sweep left in the queue deletes it without decrementing its
   creator's counter, for transfers and for updates. The custodian loses a
   queue slot until the owners are replaced. With the contract's own numbers it
   needs more than 40 expired requests. The proved bound still holds: the
   counter only errs upwards.
2. **The pool ends as soon as it starts** (`pool_main`). `let _ = nodes_tx;` in
   main.rs binds nothing, so the watch channel closes when its block ends and
   the pool takes that for a request to stop, which ends the process.
3. **A top-up may return another call's id** (`fund_buyer_correlation`). The lock
   is released when a call gives up, its message can be executed later, while
   the next call polls for its own. `CorrelationIsSound` says what still holds:
   the id is of an identical top-up by the same custodian whose call failed, or
   had itself been told the id of yet another request. (The second case needs
   three calls; it came to light when the proof of the narrower statement failed,
   and TLC reaches it in `fund_buyer`.)
4. **The bootstrap file goes before the start has succeeded**
   (`bootstrap_consumed`). It is deleted as soon as `memory-auth.json` is saved;
   the key is registered and the port bound afterwards. A start that fails there
   (the port is taken) leaves an operator who kept no copy without the X25519
   secret. The join token survives: `RestartsLoseNothing`.
5. **The whole balance reads as nothing** (`all_balance`).
   `confirm_transaction` checks the amount of the queued request, and the contract
   queues a transfer with `SENDMSG_ALL_BALANCE` with the value 0. Such a request
   of another custodian is confirmed whatever `max_tx_amount` says. The destination
   is checked as for any other. `SignedWithinPolicy` is about the amounts that
   requests name.

Weaker observations are not runs. `fund_buyer` asks once that the treasury be
governed, as otherwise the first signature would bypass what "this tool promises"
(airegistry.rs:1435); its message is executed up to a minute later, under the
quorum of that moment. `NeverReleasedBySubmit` says that a quorum lowered in
between is the only way a submit pays out by itself, and the run `fund_buyer`
contains such an update. On a network without a Giver the deploy tools ask for
the address to be funded "out-of-band before deploying" (airegistry.rs:225), and
answer the same when it is, as only an account that is already active is let
through. `set_wallet_policy` accepts any number as
`max_tx_amount` (tools.rs:203), but only a non-negative integer of 64 bits is
read back as a limit (policy.rs:95): `1000.5` is stored, reported as stored and
never enforced, where README.md:349 says that enforcement checks
`max_tx_amount`. `read_queued_tx_for_policy` (airegistry.rs:459) promises "the
same destination/amount policy the first custodian's submit would face", but a
forward is checked for its SHELL and a confirmation for the larger of SHELL and
native value: with a limit below `AIREGISTRY_GAS_VMSHELL` a top-up is queued that
can then not be confirmed through these tools. A cell of a block that cannot
be opened silently costs the rest of its account block (engine.rs:202, 210), or of
its transaction's outbound messages (222), because `?` leaves the closure and the
result of the iteration is dropped. An initialize answered without a session id
counts as done (mcp_http.rs:84). `get_manifest` during a set may return parts of two
packages; `SettledReadsAreWhole` covers the reads that do not overlap one. A set
that finds its chunks in place may be reported verified though none of its
messages was executed, and the message of an earlier, abandoned set may then
overwrite it. Even one whose own messages are executed, but late, is not safe:
with five sets and packages of four chunks, messages of abandoned sets can undo
chunks it has confirmed (a deletion of one, the next chunks each written a place
further on) so that the pieces read back still join to its package, and its own
late `set` of the deleted chunk then breaks what was reported verified.
`VerifiedPackageStays` says when the report can be relied on.
`verify_payment_readiness` may pair one buyer's counters with the next buyer's
name if the lot changes hands between its reads. `create_keys` overwrites the
keys of a role, in two writes, without asking whether a wallet was deployed for
the old ones: `WalletsOperable` holds while no role is keyed twice. An MCP
session is never renewed, so every call fails after a restart of gosh.memory until
the process is restarted too. `private_note/halo2/live.rs` validates the prover's
paths with each proof, after the voucher is paid, where `paths.rs` speaks of doing so
at boot. And README.md:247 says that an X25519 keypair is generated in memory
where the code uses the `secret_key` of the bootstrap file.

## 6. What is not modelled

* **Reads are current** for `fund_buyer` and `set_manifest`: a getter answers from
  the state the chain has now. A Block Keeper that lags would add stale reads.
  (`EventStream` models the lag of the node that answers.) The same goes for the
  last look at a note's gas in `NoteOnboarding`: a node that lags, or does not know
  the account yet (onboard.rs:335), makes the code report a shortfall that is none.
* **Account blocks that the block library cannot parse**, or whose dictionaries of
  transactions and messages it cannot walk, end the library's own iteration:
  `MessageFilter` starts from the account blocks and transactions it yields.
* **What a queued message does later**, for senders that do not wait: `NoFalseSuccess`
  promises no effect of a message that was reported sent while in the queue.
* **Replay protection of external messages** belongs to the VM and the ABI, not
  to the source: a message is executed at most once, in the order of its time
  header, before it expires.
* **Balances, gas and bounces** of the wallet; `sendTransaction` of a single
  owner is modelled, its money is not. The upgrade hook, getters and currency
  conversion are left out.
* **QUIC, TLS, BOC and ABI encoding, zero-knowledge proofs, cryptography** are
  I/O or pure conversions; so are the wording of facts, command line and
  configuration parsing, and the getters that only pass on what they read.
* **External code**: Block Keepers and Managers, gosh.memory, `ManifestMetadata`,
  `TokenContract`, the order book contract and RootPN are known by what the
  code in `src/` sends them and reads from them.
* **SwarmRoot**'s owner administration and code update, which none of the tools
  uses; `replenish` and `set_endpoint`, each a single message of the seller to
  its own lot.
* **Examples and tests** (`examples/`, `tests/`) are callers of the library and
  keep no state of the system.

## 7. Plan

Modelled: all components of section 1, as far as said there. Proved: all that
section 4 lists. What is left, in order of importance:

1. The safety part of `StreamIsTheFeed`: that every step of the stream is one of
   `EventFeed` or a stutter. What is delivered is selected from the log, so the
   lemmas of `ArrangementProofs` apply once the model is written with `Selected`.
2. `LimiterHolds`, which needs sums over intervals of time.

Abstract specifications worth stating beside `QuorumWallet` and `EventFeed`: an
at-most-once top-up for `fund_buyer`, and a versioned register for the manifest.
