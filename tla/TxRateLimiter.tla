---------------------------- MODULE TxRateLimiter ----------------------------
(***************************************************************************)
(* TxRateLimiter of mcp/tools.rs: the in-memory limiter every tool that    *)
(* spends from a wallet consults first.  A bucket per wallet counts the    *)
(* calls admitted since the bucket's window opened; a call that finds the  *)
(* window over opens a new one.  check() reads the clock before it takes   *)
(* the lock, so a call may be judged by a clock that is a little old.      *)
(***************************************************************************)
EXTENDS Integers, FiniteSets, FiniteSetsExt, Functions

CONSTANTS
  Wallet,       \* canonical wallet addresses
  Caller,       \* threads that call check()
  MAX_CALLS,    \* TX_RATE_LIMIT_MAX_CALLS
  WINDOW,       \* TX_RATE_LIMIT_WINDOW
  MAX_DELAY,    \* bound: time between reading the clock and taking the lock
  MAX_TIME      \* bound: the clock

ASSUME RateAssumption ==
  /\ MAX_CALLS \in Nat \ {0}
  /\ WINDOW \in Nat \ {0}
  /\ MAX_DELAY \in Nat /\ MAX_DELAY < WINDOW
  /\ MAX_TIME \in Nat

Time == 0..MAX_TIME
NotCalling == [wallet |-> {}, read |-> -1]

VARIABLES
  instant,     \* Instant::now()
  buckets,   \* wallet -> (window_start, call_count)
  calling,   \* per thread, the wallet asked for and the instant it read
  admitted,  \* history: calls admitted, per wallet and time of admission
  refused    \* history: the last call refused, if the last step refused one

limiterVars == <<instant, buckets, calling, admitted, refused>>

NoRefusal == [wallet |-> {}, at |-> -1]

(***************************************************************************)
(* Instant::duration_since saturates at zero.                              *)
(***************************************************************************)
DurationSince(later, earlier) == IF later <= earlier THEN 0 ELSE later - earlier

(***************************************************************************)
(* Operators whose name carries a suffix are plausible bugs used to check  *)
(* that the properties can fail; the specification does not use them.      *)
(***************************************************************************)
(* The buckets that survive the eviction of expired entries. *)
Retained(now) ==
  {w \in DOMAIN buckets : DurationSince(now, buckets[w].start) < 2 * WINDOW}

Bucket(w, now) ==
  IF w \in Retained(now) THEN buckets[w] ELSE [start |-> now, count |-> 0]

Put(w, now, bucket) ==
  [x \in Retained(now) \cup {w} |-> IF x = w THEN bucket ELSE buckets[x]]

WindowOver(w, now) == DurationSince(now, Bucket(w, now).start) >= WINDOW

LimiterInit ==
  /\ instant = 0
  /\ buckets = [w \in {} |-> 0]
  /\ calling = [p \in Caller |-> NotCalling]
  /\ admitted = [w \in Wallet |-> [t \in Time |-> 0]]
  /\ refused = NoRefusal

(***************************************************************************)
(* let now = Instant::now(), the lock not yet taken.                       *)
(***************************************************************************)
ReadClock(p, w) ==
  /\ calling[p] = NotCalling
  /\ calling' = [calling EXCEPT ![p] = [wallet |-> w, read |-> instant]]
  /\ refused' = NoRefusal
  /\ UNCHANGED <<instant, buckets, admitted>>

Admit(p, w, now, bucket) ==
  /\ buckets' = Put(w, now, bucket)
  /\ admitted' = [admitted EXCEPT ![w][instant] = @ + 1]
  /\ calling' = [calling EXCEPT ![p] = NotCalling]
  /\ refused' = NoRefusal
  /\ UNCHANGED instant

Refuse(p, w, now) ==
  /\ buckets' = Put(w, now, Bucket(w, now))
  /\ refused' = [wallet |-> w, at |-> instant]
  /\ calling' = [calling EXCEPT ![p] = NotCalling]
  /\ UNCHANGED <<instant, admitted>>

HasRoom(bucket) == bucket.count < MAX_CALLS

NewWindow_Resumed(now, bucket) == [start |-> now, count |-> 0]

NewWindow(now, bucket) == [start |-> now, count |-> 1]

(***************************************************************************)
(* check() under the lock.                                                 *)
(***************************************************************************)
Check(p) ==
  LET w == calling[p].wallet
      now == calling[p].read
      bucket == Bucket(w, now)
  IN  /\ calling[p] # NotCalling
      /\ \/ /\ WindowOver(w, now)
            /\ Admit(p, w, now, NewWindow(now, bucket))
         \/ /\ ~WindowOver(w, now)
            /\ HasRoom(bucket)
            /\ Admit(p, w, now, [bucket EXCEPT !.count = @ + 1])
         \/ /\ ~WindowOver(w, now)
            /\ ~HasRoom(bucket)
            /\ Refuse(p, w, now)

Tick ==
  /\ instant < MAX_TIME
  /\ \A p \in Caller : calling[p] # NotCalling => instant - calling[p].read < MAX_DELAY
  /\ instant' = instant + 1
  /\ refused' = NoRefusal
  /\ UNCHANGED <<buckets, calling, admitted>>

LimiterNext ==
  \/ \E p \in Caller, w \in Wallet : ReadClock(p, w)
  \/ \E p \in Caller : Check(p)
  \/ Tick

LimiterSpec == LimiterInit /\ [][LimiterNext]_limiterVars

-----------------------------------------------------------------------------
(* Properties *)

(***************************************************************************)
(* Type invariant.                                                         *)
(***************************************************************************)
LimiterTypeOK ==
  /\ instant \in Time
  /\ DOMAIN buckets \subseteq Wallet
  /\ \A w \in DOMAIN buckets :
       buckets[w] \in [start : Time, count : 1..MAX_CALLS]
  /\ calling \in [Caller -> [wallet : Wallet, read : Time] \cup {NotCalling}]
  /\ admitted \in [Wallet -> [Time -> Nat]]

AdmittedDuring(w, first, last) ==
  MapThenSumSet(LAMBDA t : admitted[w][t], first..last \cap Time)

(***************************************************************************)
(* The limit is tight, whatever clocks the callers read, in which order    *)
(* they get the lock and what is evicted in between.  No wallet is ever    *)
(* admitted more than 2 * MAX_CALLS times within a window's length (less   *)
(* the delay by which a caller's clock may be old): the most a fixed       *)
(* window allows, a burst at the end of one and another at the start of    *)
(* the next.  And a call is refused only when its own wallet has used up   *)
(* MAX_CALLS within the last WINDOW: neither another wallet's calls, nor   *)
(* an old clock, nor an entry of an earlier window can refuse it.          *)
(***************************************************************************)
LimitIsTight ==
  /\ \A w \in Wallet :
       AdmittedDuring(w, instant - (WINDOW - 1 - MAX_DELAY), instant) <= 2 * MAX_CALLS
  /\ refused # NoRefusal =>
       AdmittedDuring(refused.wallet, refused.at - WINDOW - MAX_DELAY + 1, refused.at)
         >= MAX_CALLS

(***************************************************************************)
(* The map stays small: a call, whoever's, leaves behind no bucket whose   *)
(* window opened two windows or more before the clock that call read.      *)
(***************************************************************************)
StaleBucketsGo ==
  [][\A p \in Caller :
       calling[p] # NotCalling /\ calling'[p] = NotCalling =>
         \A w \in DOMAIN buckets' :
           calling[p].read - buckets'[w].start < 2 * WINDOW]_limiterVars

(***************************************************************************)
(* The limiter admits neither too much nor too little, and does not grow.  *)
(***************************************************************************)
LimiterHolds == [](LimiterTypeOK /\ LimitIsTight) /\ StaleBucketsGo
=============================================================================
