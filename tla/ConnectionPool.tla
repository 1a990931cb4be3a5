---------------------------- MODULE ConnectionPool ----------------------------
(***************************************************************************)
(* transport/pool.rs: at most MAX_ACTIVE subscriber tasks, one per Block   *)
(* Keeper.  Once a second the pool collects the tasks that have ended,     *)
(* lets their nodes rest for COOLDOWN seconds and starts others; a new     *)
(* list of nodes arrives over a tokio watch channel.  The subscriber task  *)
(* itself (transport/subscriber.rs, run_once) is only alive or ended.      *)
(***************************************************************************)
EXTENDS Integers, Sequences, FiniteSets, SequencesExt, Arrangement

CONSTANTS
  Addr,           \* addresses of Block Keepers
  Configs,        \* lists of nodes a configuration may hold
  MAX_ACTIVE,
  COOLDOWN,       \* seconds a node rests after its connection died
  Reliable,       \* environment: nodes whose connections never die
  Unreachable,    \* environment: nodes whose connections always die ...
  LIFE,           \* ... within LIFE seconds (a connect timeout)
  MAX_RELOADS     \* bound: configurations sent

ASSUME PoolAssumption ==
  /\ Configs \subseteq Seq(Addr)
  /\ Reliable \subseteq Addr /\ Unreachable \subseteq Addr
  /\ MAX_ACTIVE \in Nat \ {0} /\ COOLDOWN \in Nat \ {0}
  /\ LIFE \in Nat /\ MAX_RELOADS \in Nat

VARIABLES
  nodes,      \* the list the pool works with
  active,     \* subscribers: their node, whether the task runs, its age
  cooldowns,  \* seconds since a death was noticed, by node (COOLDOWN: at least)
  due,        \* the health interval has a tick ready
  pool,       \* "running", "stopped" (Ok) or "bailed" (Err)
  published,  \* the watch channel's value,
  unseen,     \* ... whether the pool has yet to see it,
  sender,     \* ... and whether its sender exists
  reloads,    \* configurations sent so far
  rested      \* history: seconds since a connection to the node last died

vars == <<nodes, active, cooldowns, due, pool, published, unseen, sender,
          reloads, rested>>

NodesOf(list) == ToSet(list)
ActiveNodes == {active[i].addr : i \in DOMAIN active}
Least(a, b) == IF a <= b THEN a ELSE b

-----------------------------------------------------------------------------
(* fill_connections.  Operators whose name carries a suffix are plausible  *)
(* bugs used to check that the properties can fail.                        *)

IsRested(rest, n) == n \notin DOMAIN rest \/ rest[n] >= COOLDOWN

Candidate_Repeats(list, connected, rest, i) ==
  /\ IsRested(rest, list[i])
  /\ \A j \in 1..(i - 1) : list[j] # list[i]

Candidate_Unrested(list, connected, rest, i) ==
  /\ list[i] \notin connected
  /\ \A j \in 1..(i - 1) : list[j] # list[i]

(***************************************************************************)
(* The find() of the loop: a node not connected and not resting (a node    *)
(* listed twice is connected by its first entry).                          *)
(***************************************************************************)
Candidate(list, connected, rest, i) ==
  /\ \A j \in 1..(i - 1) : list[j] # list[i]
  /\ IsRested(rest, list[i])
  /\ list[i] \notin connected

Room(list, subs) == Least(MAX_ACTIVE, Len(list)) - Len(subs)

(***************************************************************************)
(* The loop takes candidates in the order of the list until the target is  *)
(* reached or none is left: a prefix of all the candidates there are.      *)
(***************************************************************************)
Filled(list, subs, rest) ==
  LET connected == {subs[i].addr : i \in DOMAIN subs}
      free == {i \in DOMAIN list : Candidate(list, connected, rest, i)}
      chosen == Ascending(free)
  IN  subs \o [k \in 1..Least(Room(list, subs), Cardinality(free)) |->
                 [addr |-> list[chosen[k]], alive |-> TRUE, age |-> 0]]

-----------------------------------------------------------------------------
Init ==
  /\ nodes \in Configs /\ nodes # << >>
  /\ active = Filled(nodes, << >>, << >>)
  /\ cooldowns = << >>
  /\ due = TRUE
  /\ pool = "running"
  /\ published = nodes
  /\ unseen = FALSE
  /\ sender = TRUE
  /\ reloads = 0
  /\ rested = [n \in Addr |-> COOLDOWN]

(* reap_dead: the tasks that ended leave, their nodes start to rest. *)
Reaped == Selected(active, {i \in DOMAIN active : active[i].alive})

CooldownsAfterReap_Forgotten == cooldowns

CooldownsAfterReap ==
  LET dead == {active[i].addr : i \in {k \in DOMAIN active : ~active[k].alive}}
  IN  [n \in dead \cup DOMAIN cooldowns |->
         IF n \in dead THEN 0 ELSE cooldowns[n]]

HealthTick_ReapOnly ==
  /\ pool = "running" /\ due
  /\ due' = FALSE
  /\ cooldowns' = CooldownsAfterReap
  /\ active' = Reaped
  /\ UNCHANGED <<nodes, pool, published, unseen, sender, reloads, rested>>

(***************************************************************************)
(* One tick of the health interval.                                        *)
(***************************************************************************)
HealthTick ==
  /\ pool = "running" /\ due
  /\ due' = FALSE
  /\ cooldowns' = CooldownsAfterReap
  /\ \E remaining \in {Reaped} :
       IF remaining = << >> /\ nodes = << >>
       THEN pool' = "bailed" /\ active' = remaining
       ELSE pool' = pool /\ active' = Filled(nodes, remaining, cooldowns')
  /\ UNCHANGED <<nodes, published, unseen, sender, reloads, rested>>

Kept_All(list) == active

(* Subscribers of nodes that left the list are aborted, dead or alive. *)
Kept(list) ==
  Selected(active, {i \in DOMAIN active : active[i].addr \in NodesOf(list)})

Remembered(list) ==
  [n \in DOMAIN cooldowns \cap NodesOf(list) |-> cooldowns[n]]

(***************************************************************************)
(* nodes_rx.changed() is Ok.                                               *)
(***************************************************************************)
ConfigChanged ==
  /\ pool = "running" /\ unseen
  /\ unseen' = FALSE
  /\ nodes' = published
  /\ cooldowns' = Remembered(published)
  /\ active' = Filled(published, Kept(published), cooldowns')
  /\ rested' = [n \in Addr |-> IF n \in NodesOf(published) THEN rested[n]
                                                            ELSE COOLDOWN]
  /\ UNCHANGED <<due, pool, published, sender, reloads>>

(***************************************************************************)
(* nodes_rx.changed() is Err: nothing new and no sender left.              *)
(***************************************************************************)
WatchClosed ==
  /\ pool = "running" /\ ~unseen /\ ~sender
  /\ pool' = "stopped"
  /\ active' = << >>
  /\ UNCHANGED <<nodes, cooldowns, due, published, unseen, sender, reloads,
                 rested>>

-----------------------------------------------------------------------------
(* The environment *)

(***************************************************************************)
(* A subscriber task ends: it cannot connect, or its stream breaks.        *)
(***************************************************************************)
Die(i) ==
  /\ pool = "running" /\ i \in DOMAIN active
  /\ active[i].alive /\ active[i].addr \notin Reliable
  /\ active' = [active EXCEPT ![i].alive = FALSE]
  /\ rested' = [rested EXCEPT ![active[i].addr] = 0]
  /\ UNCHANGED <<nodes, cooldowns, due, pool, published, unseen, sender,
                 reloads>>

Overdue(sub) ==
  sub.alive /\ sub.addr \in Unreachable \ Reliable /\ sub.age >= LIFE

(***************************************************************************)
(* A second passes.  The pool's own steps take no time, so none is owed;   *)
(* a connection to an unreachable node has failed when its time is up.     *)
(***************************************************************************)
PassSecond ==
  /\ pool = "running" /\ ~due
  /\ \A i \in DOMAIN active : ~Overdue(active[i])
  /\ due' = TRUE
  /\ cooldowns' = [n \in DOMAIN cooldowns |-> Least(cooldowns[n] + 1, COOLDOWN)]
  /\ rested' = [n \in Addr |-> Least(rested[n] + 1, COOLDOWN)]
  /\ active' = [i \in DOMAIN active |->
       IF active[i].addr \in Unreachable
       THEN [active[i] EXCEPT !.age = Least(@ + 1, LIFE)]
       ELSE active[i]]
  /\ UNCHANGED <<nodes, pool, published, unseen, sender, reloads>>

SendConfig(list) ==
  /\ pool = "running" /\ sender /\ reloads < MAX_RELOADS
  /\ published' = list
  /\ unseen' = TRUE
  /\ reloads' = reloads + 1
  /\ UNCHANGED <<nodes, active, cooldowns, due, pool, sender, rested>>

(***************************************************************************)
(* The sender goes out of scope at some moment, or never.  (In main.rs at  *)
(* the end of the block that starts the pool: `let _ = nodes_tx` does not  *)
(* keep it.)                                                               *)
(***************************************************************************)
DropSender ==
  /\ sender
  /\ sender' = FALSE
  /\ UNCHANGED <<nodes, active, cooldowns, due, pool, published, unseen,
                 reloads, rested>>

(* The pool has returned. *)
Ended ==
  /\ pool # "running"
  /\ UNCHANGED vars

PoolStep == HealthTick \/ ConfigChanged \/ WatchClosed

Next ==
  \/ PoolStep
  \/ PassSecond
  \/ \E i \in 1..MAX_ACTIVE : Die(i)
  \/ \E list \in Configs : SendConfig(list)
  \/ DropSender
  \/ Ended

Spec == Init /\ [][Next]_vars

(***************************************************************************)
(* The pool's task is polled whenever an arm of its select! is ready, and  *)
(* select! picks among the ready arms at random, so no arm that stays      *)
(* ready is passed over forever; time passes; unreachable nodes fail in    *)
(* time.                                                                   *)
(***************************************************************************)
Fairness ==
  /\ WF_vars(HealthTick) /\ WF_vars(ConfigChanged) /\ WF_vars(WatchClosed)
  /\ WF_vars(PassSecond)
  /\ WF_vars(\E i \in DOMAIN active : Overdue(active[i]) /\ Die(i))

FairSpec == Spec /\ Fairness

-----------------------------------------------------------------------------
(* Properties *)

(***************************************************************************)
(* Type invariant, with the pool's size.                                   *)
(***************************************************************************)
TypeOK ==
  /\ active \in Seq([addr : Addr, alive : BOOLEAN, age : 0..LIFE])
  /\ Len(active) <= MAX_ACTIVE
  /\ DOMAIN cooldowns \subseteq Addr
  /\ \A n \in DOMAIN cooldowns : cooldowns[n] \in 0..COOLDOWN
  /\ nodes \in Configs /\ published \in Configs
  /\ pool \in {"running", "stopped", "bailed"}

(***************************************************************************)
(* However deaths, ticks and reloads interleave, no node ever has two      *)
(* subscribers (the same block stream twice), though it may be listed      *)
(* twice, come back while its old task is still being aborted, or have     *)
(* died with the death not yet noticed.                                    *)
(***************************************************************************)
OneSubscriberPerNode ==
  \A i, j \in DOMAIN active : active[i].addr = active[j].addr => i = j

(***************************************************************************)
(* Once a reload has been processed nothing of a removed node is left:     *)
(* neither a subscriber nor a cooldown that would delay its return.        *)
(***************************************************************************)
RemovedNodesLeaveNothing ==
  ActiveNodes \cup DOMAIN cooldowns \subseteq NodesOf(nodes)

(***************************************************************************)
(* The pool holds at most MAX_ACTIVE subscribers, each for a node of its   *)
(* own that is still configured.                                           *)
(***************************************************************************)
SubscribersAreOfNodes == TypeOK /\ OneSubscriberPerNode /\ RemovedNodesLeaveNothing

(***************************************************************************)
(* Between ticks the pool is never short of connections while a node it    *)
(* could use is idle and rested.                                           *)
(***************************************************************************)
SlotsFilled ==
  (pool = "running" /\ ~due) =>
    \/ Len(active) >= Least(MAX_ACTIVE, Len(nodes))
    \/ \A n \in NodesOf(nodes) : n \in ActiveNodes \/ ~IsRested(cooldowns, n)

(***************************************************************************)
(* A step starts a connection to a node when the node has a running        *)
(* subscriber after it and had none before: a dead subscriber still in its *)
(* slot is no connection, so one that is collected and replaced in a       *)
(* single tick counts as a start.                                          *)
(***************************************************************************)
ConnectedNodes ==
  {active[i].addr : i \in {k \in DOMAIN active : active[k].alive}}

Starts(n) == n \in ConnectedNodes' \ ConnectedNodes

(***************************************************************************)
(* A node is given a new connection only COOLDOWN seconds after its last   *)
(* one truly died (not only after that was noticed), unless the node was   *)
(* taken off the list in between.                                          *)
(***************************************************************************)
NodesRestBeforeReconnect ==
  [][\A n \in Addr : Starts(n) => rested'[n] >= COOLDOWN]_vars

(***************************************************************************)
(* Hot reload: a configuration that stays published is the one the         *)
(* connections belong to, from some time on (unless the pool ended).       *)
(***************************************************************************)
ReloadTakesEffect ==
  \A list \in Configs :
    <>[](published = list) =>
      <>[](pool # "running" \/ (nodes = list /\ ActiveNodes \subseteq NodesOf(list)))

GoodConnection ==
  \E i \in DOMAIN active : active[i].alive /\ active[i].addr \in Reliable

(***************************************************************************)
(* Failover: with a reliable node on the list, wherever it stands, the     *)
(* pool comes to be connected to a reliable node.                          *)
(***************************************************************************)
FailoverReachesGoodNode ==
  (NodesOf(nodes) \cap Reliable # {}) ~>
    (GoodConnection \/ NodesOf(nodes) \cap Reliable = {} \/ pool # "running")

(***************************************************************************)
(* The pool runs for as long as it has nodes to connect to.                *)
(***************************************************************************)
PoolKeepsRunning == pool # "running" => nodes = << >>
=============================================================================
