-------------------------- MODULE ArrangementProofs --------------------------
(***************************************************************************)
(* Proofs about the components that select and sort: which nodes the       *)
(* connection pool is connected to (ConnectionPool), what an order book    *)
(* snapshot shows (OrderBook) and what the message filter lets through     *)
(* (MessageFilter); for any nodes, orders, blocks and rules.               *)
(***************************************************************************)
EXTENDS ConnectionPool, OrderBook, MessageFilter, FiniteSetTheorems, TLAPS

-----------------------------------------------------------------------------
(* Putting a finite set in order *)

(* How many come before i. *)
Rank(S, R, i) == Cardinality({j \in S : <<j, i>> \in R})

(***************************************************************************)
(* Ranks are the numbers below the size, in the order of the elements.     *)
(***************************************************************************)
LEMMA RanksInOrder ==
  ASSUME NEW S, IsFiniteSet(S), NEW R,
         \A i \in S : <<i, i>> \notin R,
         \A i, j, k \in S : <<i, j>> \in R /\ <<j, k>> \in R => <<i, k>> \in R,
         \A i, j \in S : i # j => <<i, j>> \in R \/ <<j, i>> \in R
  PROVE  /\ Cardinality(S) \in Nat
         /\ \A i \in S : Rank(S, R, i) \in 0..(Cardinality(S) - 1)
         /\ \A i, j \in S : <<i, j>> \in R <=> Rank(S, R, i) < Rank(S, R, j)
         /\ \A i, j \in S : Rank(S, R, i) = Rank(S, R, j) => i = j
  <1> DEFINE Lower(i) == {j \in S : <<j, i>> \in R}
  <1>1. Cardinality(S) \in Nat
    BY FS_CardinalityType
  <1>2. ASSUME NEW i \in S
        PROVE  /\ IsFiniteSet(Lower(i)) /\ Cardinality(Lower(i)) \in Nat
               /\ Cardinality(Lower(i)) + 1 <= Cardinality(S)
    <2>1. IsFiniteSet(Lower(i)) /\ Cardinality(Lower(i)) \in Nat
      BY FS_Subset, FS_CardinalityType
    <2>2. i \notin Lower(i)
      OBVIOUS
    <2>3. Cardinality(Lower(i) \cup {i}) = Cardinality(Lower(i)) + 1
      BY <2>1, <2>2, FS_AddElement
    <2>4. Lower(i) \cup {i} \in SUBSET S
      OBVIOUS
    <2>5. Cardinality(Lower(i) \cup {i}) <= Cardinality(S)
      BY <2>4, FS_Subset
    <2> QED BY <2>1, <2>3, <2>5
  <1>3. ASSUME NEW i \in S, NEW j \in S, <<i, j>> \in R
        PROVE  Cardinality(Lower(i)) + 1 <= Cardinality(Lower(j))
    <2>1. i \notin Lower(i)
      OBVIOUS
    <2>2. Cardinality(Lower(i) \cup {i}) = Cardinality(Lower(i)) + 1
      BY <1>2, <2>1, FS_AddElement
    <2>3. Lower(i) \cup {i} \in SUBSET Lower(j)
      BY <1>3
    <2>4. Cardinality(Lower(i) \cup {i}) <= Cardinality(Lower(j))
      BY <1>2, <2>3, FS_Subset
    <2> QED BY <2>2, <2>4
  <1>4. \A i \in S : Rank(S, R, i) = Cardinality(Lower(i))
    BY DEF Rank
  <1> HIDE DEF Lower
  <1>5. \A i \in S : Rank(S, R, i) \in 0..(Cardinality(S) - 1)
    BY <1>1, <1>2, <1>4
  <1>6. \A i, j \in S : <<i, j>> \in R => Rank(S, R, i) < Rank(S, R, j)
    BY <1>2, <1>3, <1>4
  <1>7. \A i, j \in S : Rank(S, R, i) \in Int /\ Rank(S, R, j) \in Int
    BY <1>2, <1>4
  <1>8. ASSUME NEW i \in S, NEW j \in S
        PROVE  /\ Rank(S, R, i) = Rank(S, R, j) => i = j
               /\ Rank(S, R, i) < Rank(S, R, j) => <<i, j>> \in R
    <2>1. i # j => <<i, j>> \in R \/ <<j, i>> \in R
      OBVIOUS
    <2>2. <<i, j>> \in R => Rank(S, R, i) < Rank(S, R, j)
      BY <1>6
    <2>3. <<j, i>> \in R => Rank(S, R, j) < Rank(S, R, i)
      BY <1>6
    <2>4. Rank(S, R, i) \in Int /\ Rank(S, R, j) \in Int
      BY <1>7
    <2> QED BY <2>1, <2>2, <2>3, <2>4
  <1> QED BY <1>1, <1>5, <1>6, <1>8

(***************************************************************************)
(* A finite set can be put in any strict total order.                      *)
(***************************************************************************)
LEMMA OrderExists ==
  ASSUME NEW S, IsFiniteSet(S), NEW R,
         \A i \in S : <<i, i>> \notin R,
         \A i, j, k \in S : <<i, j>> \in R /\ <<j, k>> \in R => <<i, k>> \in R,
         \A i, j \in S : i # j => <<i, j>> \in R \/ <<j, i>> \in R
  PROVE  \E f \in [1..Cardinality(S) -> S] :
           \A k, l \in DOMAIN f : k < l <=> <<f[k], f[l]>> \in R
  <1> DEFINE rank == [i \in S |-> Rank(S, R, i)]
  <1>1. PICK n \in Nat : n = Cardinality(S)
    BY FS_CardinalityType
  <1>2. /\ \A i \in S : Rank(S, R, i) \in 0..(n - 1)
        /\ \A i, j \in S : <<i, j>> \in R <=> Rank(S, R, i) < Rank(S, R, j)
        /\ \A i, j \in S : Rank(S, R, i) = Rank(S, R, j) => i = j
    BY <1>1, RanksInOrder
  <1>3. rank \in Injection(S, 0..(n - 1))
    BY <1>2 DEF Injection, IsInjective
  <1>4. IsFiniteSet(0..(n - 1)) /\ Cardinality(0..(n - 1)) = n
    BY FS_Interval
  <1>5. rank \in Surjection(S, 0..(n - 1))
    BY <1>1, <1>3, <1>4, FS_Injection
  <1>6. \A k \in 1..n : \E i \in S : Rank(S, R, i) = k - 1
    <2> SUFFICES ASSUME NEW k \in 1..n
                 PROVE  \E i \in S : Rank(S, R, i) = k - 1
      OBVIOUS
    <2>1. k - 1 \in 0..(n - 1)
      OBVIOUS
    <2> QED BY <1>5, <2>1 DEF Surjection
  <1> DEFINE f == [k \in 1..n |-> CHOOSE i \in S : Rank(S, R, i) = k - 1]
  <1>7. \A k \in 1..n : f[k] \in S /\ Rank(S, R, f[k]) = k - 1
    BY <1>6
  <1>8. f \in [1..n -> S]
    BY <1>7
  <1>9. \A k, l \in 1..n : k < l <=> <<f[k], f[l]>> \in R
    <2> HIDE DEF f
    <2> QED BY <1>2, <1>7
  <1> HIDE DEF f
  <1> QED BY <1>1, <1>8, <1>9

(***************************************************************************)
(* Every element of the set then has one place in it.                      *)
(***************************************************************************)
LEMMA EachHasAPlace ==
  ASSUME NEW S, IsFiniteSet(S), NEW f \in [1..Cardinality(S) -> S],
         \A k, l \in 1..Cardinality(S) : f[k] = f[l] => k = l
  PROVE  \A i \in S : \E k \in 1..Cardinality(S) : f[k] = i
  <1>1. PICK n \in Nat : n = Cardinality(S)
    BY FS_CardinalityType
  <1>2. f \in Injection(1..n, S)
    BY <1>1 DEF Injection, IsInjective
  <1>3. IsFiniteSet(1..n) /\ Cardinality(1..n) = n
    BY FS_Interval
  <1>4. f \in Surjection(1..n, S)
    BY <1>1, <1>2, <1>3, FS_Injection
  <1> QED BY <1>1, <1>4 DEF Surjection

(***************************************************************************)
(* A set put in order: each element has its place, and they come in order. *)
(***************************************************************************)
LEMMA ArrangedInOrder ==
  ASSUME NEW S, IsFiniteSet(S), NEW R,
         \A i \in S : <<i, i>> \notin R,
         \A i, j, k \in S : <<i, j>> \in R /\ <<j, k>> \in R => <<i, k>> \in R,
         \A i, j \in S : i # j => <<i, j>> \in R \/ <<j, i>> \in R,
         NEW A, A = Arranged(S, R)
  PROVE  /\ Cardinality(S) \in Nat
         /\ A \in [1..Cardinality(S) -> S]
         /\ \A i \in S : \E k \in 1..Cardinality(S) : A[k] = i
         /\ \A k, l \in 1..Cardinality(S) : k < l <=> <<A[k], A[l]>> \in R
  <1>1. PICK n \in Nat : n = Cardinality(S)
    BY FS_CardinalityType
  <1>2. A = Arranged(S, R)
    OBVIOUS
  <1>3. A \in [1..n -> S] /\ \A k, l \in DOMAIN A : k < l <=> <<A[k], A[l]>> \in R
    BY <1>1, <1>2, OrderExists DEF Arranged
  <1>4. \A k, l \in 1..n : A[k] = A[l] => k = l
    <2> SUFFICES ASSUME NEW k \in 1..n, NEW l \in 1..n, A[k] = A[l], k < l
                 PROVE  FALSE
      BY <1>1
    <2>1. A[k] \in S /\ <<A[k], A[l]>> \in R
      BY <1>3
    <2> QED BY <2>1
  <1> QED BY <1>1, <1>2, <1>3, <1>4, EachHasAPlace

(***************************************************************************)
(* Positions in ascending order.                                           *)
(***************************************************************************)
LEMMA AscendingInOrder ==
  ASSUME NEW S, IsFiniteSet(S), S \subseteq Int
  PROVE  /\ Cardinality(S) \in Nat
         /\ Ascending(S) \in [1..Cardinality(S) -> S]
         /\ \A i \in S : \E k \in 1..Cardinality(S) : Ascending(S)[k] = i
         /\ \A k, l \in 1..Cardinality(S) :
              k < l <=> Ascending(S)[k] < Ascending(S)[l]
  <1> DEFINE R == {p \in S \X S : p[1] < p[2]}
  <1>1. \A i, j \in S : <<i, j>> \in R <=> i < j
    OBVIOUS
  <1>2. PICK n \in Nat : n = Cardinality(S)
    BY FS_CardinalityType
  <1> HIDE DEF R
  <1>3. \E f \in [1..n -> S] : \A k, l \in DOMAIN f : k < l <=> <<f[k], f[l]>> \in R
    <2>1. /\ \A i \in S : <<i, i>> \notin R
          /\ \A i, j, k \in S : <<i, j>> \in R /\ <<j, k>> \in R => <<i, k>> \in R
          /\ \A i, j \in S : i # j => <<i, j>> \in R \/ <<j, i>> \in R
      BY <1>1
    <2> QED BY <1>2, <2>1, OrderExists
  <1>4. \E f \in [1..n -> S] : \A k, l \in DOMAIN f : k < l <=> f[k] < f[l]
    BY <1>1, <1>3
  <1>5. PICK A : A = Ascending(S)
    OBVIOUS
  <1>6. A \in [1..n -> S] /\ \A k, l \in DOMAIN A : k < l <=> A[k] < A[l]
    BY <1>2, <1>4, <1>5 DEF Ascending
  <1>7. \A k, l \in 1..n : A[k] = A[l] => k = l
    BY <1>6
  <1> QED BY <1>2, <1>5, <1>6, <1>7, EachHasAPlace

(***************************************************************************)
(* A function on the numbers up to n is a sequence of that length.         *)
(***************************************************************************)
LEMMA FunctionIsSeq ==
  ASSUME NEW T, NEW n \in Nat, NEW t \in [1..n -> T]
  PROVE  t \in Seq(T) /\ Len(t) = n
  OBVIOUS

(***************************************************************************)
(* The entries selected from a sequence are entries of it, all of those    *)
(* asked for, once each and in its order.                                  *)
(***************************************************************************)
LEMMA SelectedInOrder ==
  ASSUME NEW T, NEW s \in Seq(T), NEW S \in SUBSET DOMAIN s
  PROVE  /\ Selected(s, S) \in Seq(T)
         /\ Len(Selected(s, S)) <= Len(s)
         /\ \E at \in [1..Len(Selected(s, S)) -> S] :
              /\ \A k \in 1..Len(Selected(s, S)) : Selected(s, S)[k] = s[at[k]]
              /\ \A i \in S : \E k \in 1..Len(Selected(s, S)) : at[k] = i
              /\ \A k, l \in 1..Len(Selected(s, S)) : k < l <=> at[k] < at[l]
  <1>1. /\ IsFiniteSet(1..Len(s)) /\ Cardinality(1..Len(s)) = Len(s)
        /\ DOMAIN s = 1..Len(s) /\ Len(s) \in Nat
    <2>1. DOMAIN s = 1..Len(s) /\ Len(s) \in Nat
      OBVIOUS
    <2>2. PICK m \in Nat : m = Len(s)
      BY <2>1
    <2>3. IsFiniteSet(1..m) /\ Cardinality(1..m) = m
      BY FS_Interval
    <2> QED BY <2>1, <2>2, <2>3
  <1>2. IsFiniteSet(S) /\ S \subseteq Int /\ Cardinality(S) <= Len(s)
    BY <1>1, FS_Subset
  <1>3. PICK n \in Nat : n = Cardinality(S)
    BY <1>2, FS_CardinalityType
  <1>4. PICK A : A = Ascending(S)
    OBVIOUS
  <1>5. /\ A \in [1..n -> S]
        /\ \A i \in S : \E k \in 1..n : A[k] = i
        /\ \A k, l \in 1..n : k < l <=> A[k] < A[l]
    BY <1>2, <1>3, <1>4, AscendingInOrder
  <1>6. PICK t : t = Selected(s, S)
    OBVIOUS
  <1>7. t = [k \in 1..n |-> s[A[k]]]
    BY <1>4, <1>5, <1>6 DEF Selected
  <1>8. \A k \in 1..n : s[A[k]] \in T
    BY <1>1, <1>5
  <1>9. t \in Seq(T) /\ Len(t) = n
    <2>1. t \in [1..n -> T]
      BY <1>7, <1>8
    <2> QED BY <2>1, FunctionIsSeq
  <1>10. \A k \in 1..n : t[k] = s[A[k]]
    BY <1>7
  <1>11. \E at \in [1..n -> S] :
           /\ \A k \in 1..n : t[k] = s[at[k]]
           /\ \A i \in S : \E k \in 1..n : at[k] = i
           /\ \A k, l \in 1..n : k < l <=> at[k] < at[l]
    BY <1>5, <1>10
  <1>12. Len(t) <= Len(s)
    BY <1>2, <1>3, <1>9
  <1>13. Len(t) = n /\ t \in Seq(T)
    BY <1>9
  <1>14. /\ t \in Seq(T) /\ Len(t) <= Len(s)
         /\ \E at \in [1..Len(t) -> S] :
              /\ \A k \in 1..Len(t) : t[k] = s[at[k]]
              /\ \A i \in S : \E k \in 1..Len(t) : at[k] = i
              /\ \A k, l \in 1..Len(t) : k < l <=> at[k] < at[l]
    BY <1>11, <1>12, <1>13
  <1> QED BY <1>6, <1>14, ZenonT(60)

-----------------------------------------------------------------------------
(* The connection pool *)

Subscriber == [addr : Addr, alive : BOOLEAN, age : 0..LIFE]

AddrsOf(subs) == {subs[i].addr : i \in DOMAIN subs}

OnePerNode(subs) ==
  \A i, j \in DOMAIN subs : subs[i].addr = subs[j].addr => i = j

(***************************************************************************)
(* A sequence with one entry replaced.                                     *)
(***************************************************************************)
LEMMA ReplacedEntry ==
  ASSUME NEW T, NEW s \in Seq(T), NEW i \in DOMAIN s, NEW x \in T,
         NEW t, t = [s EXCEPT ![i] = x]
  PROVE  /\ t \in Seq(T) /\ DOMAIN t = DOMAIN s
         /\ t[i] = x /\ \A j \in DOMAIN s \ {i} : t[j] = s[j]
  OBVIOUS

(***************************************************************************)
(* Of two sequences joined, what comes from the first and what from the    *)
(* second.                                                                 *)
(***************************************************************************)
LEMMA JoinedIs ==
  ASSUME NEW T, NEW s \in Seq(T), NEW t \in Seq(T)
  PROVE  /\ s \o t \in Seq(T)
         /\ Len(s) \in Nat /\ Len(t) \in Nat
         /\ Len(s \o t) = Len(s) + Len(t)
         /\ DOMAIN (s \o t) = 1..(Len(s) + Len(t))
         /\ \A i \in 1..Len(s) : (s \o t)[i] = s[i]
         /\ \A k \in 1..Len(t) : (s \o t)[Len(s) + k] = t[k]
  OBVIOUS

(***************************************************************************)
(* A node on the list that is idle and rested is connected by its first    *)
(* entry: find() does not miss it.                                         *)
(***************************************************************************)
LEMMA IdleNodeIsCandidate ==
  ASSUME NEW list \in Seq(Addr), NEW connected, NEW rest,
         NEW n \in NodesOf(list), n \notin connected, IsRested(rest, n)
  PROVE  \E i \in DOMAIN list : list[i] = n /\ Candidate(list, connected, rest, i)
  <1> DEFINE places == {i \in DOMAIN list : list[i] = n}
  <1>1. DOMAIN list = 1..Len(list) /\ Len(list) \in Nat
    OBVIOUS
  <1>2. PICK i \in DOMAIN list : list[i] = n
    BY DEF NodesOf, ToSet
  <1>3. IsFiniteSet(places) /\ places \subseteq Int /\ i \in places
    <2>1. PICK m \in Nat : m = Len(list)
      BY <1>1
    <2>2. IsFiniteSet(1..m)
      BY FS_Interval
    <2>3. places \in SUBSET (1..m)
      BY <1>1, <2>1
    <2> QED BY <1>2, <2>2, <2>3, FS_Subset
  <1> DEFINE first == Ascending(places)[1]
  <1>4. first \in places /\ \A j \in places : first <= j
    <2> HIDE DEF places
    <2>1. PICK c \in Nat : c = Cardinality(places)
      BY <1>3, FS_CardinalityType
    <2>2. PICK A : A = Ascending(places)
      OBVIOUS
    <2>3. /\ A \in [1..c -> places]
          /\ \A j \in places : \E k \in 1..c : A[k] = j
          /\ \A k, l \in 1..c : k < l <=> A[k] < A[l]
      BY <1>3, <2>1, <2>2, AscendingInOrder
    <2>4. 1 \in 1..c
      BY <1>3, <2>1, <2>3
    <2>5. ASSUME NEW j \in places
          PROVE  A[1] <= j
      <3>1. PICK k \in 1..c : A[k] = j
        BY <2>3
      <3>2. A[1] \in Int /\ A[k] \in Int
        BY <1>3, <2>3, <2>4
      <3> QED BY <2>3, <2>4, <3>1, <3>2
    <2> QED BY <2>2, <2>3, <2>4, <2>5
  <1> HIDE DEF first
  <1>5. first \in 1..Len(list) /\ list[first] = n
    BY <1>1, <1>4
  <1>6. \A j \in 1..(first - 1) : list[j] # list[first]
    BY <1>1, <1>4, <1>5
  <1> QED BY <1>1, <1>5, <1>6 DEF Candidate

(***************************************************************************)
(* fill_connections: whatever was connected stays; what is new is alive,   *)
(* on the list, rested and was not connected; at most MAX_ACTIVE nodes are *)
(* connected, each once; and there is no room left or nobody to fill it.   *)
(***************************************************************************)
LEMMA FilledIs ==
  ASSUME NEW list \in Seq(Addr), NEW subs \in Seq(Subscriber),
         Len(subs) <= MAX_ACTIVE, OnePerNode(subs), NEW rest
  PROVE  /\ Filled(list, subs, rest) \in Seq(Subscriber)
         /\ Len(Filled(list, subs, rest)) <= MAX_ACTIVE
         /\ OnePerNode(Filled(list, subs, rest))
         /\ Len(subs) <= Len(Filled(list, subs, rest))
         /\ \A i \in 1..Len(subs) : Filled(list, subs, rest)[i] = subs[i]
         /\ \A i \in (Len(subs) + 1)..Len(Filled(list, subs, rest)) :
              /\ Filled(list, subs, rest)[i].alive
              /\ Filled(list, subs, rest)[i].addr \in NodesOf(list) \ AddrsOf(subs)
              /\ IsRested(rest, Filled(list, subs, rest)[i].addr)
         /\ \/ Len(Filled(list, subs, rest)) >= Least(MAX_ACTIVE, Len(list))
            \/ \A n \in NodesOf(list) :
                 n \in AddrsOf(Filled(list, subs, rest)) \/ ~IsRested(rest, n)
  <1> DEFINE connected == AddrsOf(subs)
             free == {i \in DOMAIN list : Candidate(list, connected, rest, i)}
             chosen == Ascending(free)
             count == Least(Room(list, subs), Cardinality(free))
             new(k) == [addr |-> list[chosen[k]], alive |-> TRUE, age |-> 0]
             added == [k \in 1..count |-> new(k)]
             both == subs \o added
  <1>1. /\ DOMAIN list = 1..Len(list) /\ Len(list) \in Nat
        /\ DOMAIN subs = 1..Len(subs) /\ Len(subs) \in Nat
        /\ MAX_ACTIVE \in Nat /\ LIFE \in Nat
    BY PoolAssumption
  <1>2. Filled(list, subs, rest) = both
    BY DEF Filled, AddrsOf
  <1>3. IsFiniteSet(free) /\ free \subseteq DOMAIN list /\ free \subseteq Int
    <2>1. PICK m \in Nat : m = Len(list)
      BY <1>1
    <2>2. IsFiniteSet(1..m)
      BY FS_Interval
    <2>3. free \in SUBSET (1..m)
      BY <1>1, <2>1
    <2> QED BY <1>1, <2>2, <2>3, FS_Subset
  <1> HIDE DEF free
  <1>4. PICK c \in Nat : c = Cardinality(free)
    BY <1>3, FS_CardinalityType
  <1>5. PICK A : A = chosen
    OBVIOUS
  <1>6. /\ A \in [1..c -> free]
        /\ \A i \in free : \E k \in 1..c : A[k] = i
        /\ \A k, l \in 1..c : k < l <=> A[k] < A[l]
    BY <1>3, <1>4, <1>5, AscendingInOrder
  <1>7. /\ count \in Int /\ count <= c
        /\ count <= Room(list, subs)
        /\ count = c \/ count = Room(list, subs)
        /\ Room(list, subs) = Least(MAX_ACTIVE, Len(list)) - Len(subs)
        /\ count <= MAX_ACTIVE - Len(subs)
    BY <1>1, <1>4 DEF Room, Least
  <1> HIDE DEF count, chosen
  <1>8. PICK m \in Nat : m = IF count < 0 THEN 0 ELSE count
    BY <1>7
  <1>9. 1..count = 1..m /\ m <= c /\ (m = c \/ m >= Room(list, subs))
    BY <1>7, <1>8
  <1>10. \A k \in 1..m : A[k] \in free /\ A[k] \in DOMAIN list /\ list[A[k]] \in Addr
    BY <1>1, <1>3, <1>6, <1>9
  <1>11. \A k \in 1..m : added[k] = [addr |-> list[A[k]], alive |-> TRUE, age |-> 0]
    BY <1>5, <1>9
  <1>12. added \in Seq(Subscriber) /\ Len(added) = m
    <2>1. ASSUME NEW k \in 1..m
          PROVE  added[k] \in Subscriber
      <3>1. list[A[k]] \in Addr /\ 0 \in 0..LIFE
        BY <1>1, <1>10
      <3>2. added[k] = [addr |-> list[A[k]], alive |-> TRUE, age |-> 0]
        BY <1>11
      <3>3. [addr |-> list[A[k]], alive |-> TRUE, age |-> 0] \in Subscriber
        BY <3>1 DEF Subscriber
      <3> HIDE DEF added
      <3> QED BY <3>2, <3>3
    <2>2. added \in [1..m -> Subscriber]
      BY <1>9, <2>1
    <2> HIDE DEF added
    <2> QED BY <2>2, FunctionIsSeq
  <1> HIDE DEF added
  <1>13. /\ both \in Seq(Subscriber) /\ Len(both) = Len(subs) + m
         /\ DOMAIN both = 1..(Len(subs) + m)
         /\ \A i \in 1..Len(subs) : both[i] = subs[i]
         /\ \A k \in 1..m : both[Len(subs) + k] = added[k]
    BY <1>12, JoinedIs
  <1> HIDE DEF both
  <1>14. \A k \in 1..m :
           /\ both[Len(subs) + k].alive
           /\ both[Len(subs) + k].addr = list[A[k]]
           /\ list[A[k]] \in NodesOf(list) \ AddrsOf(subs)
           /\ IsRested(rest, list[A[k]])
    <2> SUFFICES ASSUME NEW k \in 1..m
                 PROVE  /\ both[Len(subs) + k].alive
                        /\ both[Len(subs) + k].addr = list[A[k]]
                        /\ list[A[k]] \in NodesOf(list) \ AddrsOf(subs)
                        /\ IsRested(rest, list[A[k]])
      OBVIOUS
    <2>1. both[Len(subs) + k] = [addr |-> list[A[k]], alive |-> TRUE, age |-> 0]
      BY <1>11, <1>13
    <2>2. list[A[k]] \in NodesOf(list)
      BY <1>10 DEF NodesOf, ToSet
    <2>3. Candidate(list, connected, rest, A[k])
      BY <1>10 DEF free
    <2> QED BY <2>1, <2>2, <2>3 DEF Candidate
  <1>15. \A i \in DOMAIN both : i \in 1..Len(subs) \/ \E k \in 1..m : i = Len(subs) + k
    <2> SUFFICES ASSUME NEW i \in DOMAIN both, i \notin 1..Len(subs)
                 PROVE  \E k \in 1..m : i = Len(subs) + k
      OBVIOUS
    <2>1. i - Len(subs) \in 1..m /\ i = Len(subs) + (i - Len(subs))
      BY <1>1, <1>13
    <2> QED BY <2>1
  <1>16. \A k, l \in 1..m : list[A[k]] = list[A[l]] => k = l
    <2> SUFFICES ASSUME NEW k \in 1..m, NEW l \in 1..m, k < l,
                        list[A[k]] = list[A[l]]
                 PROVE  FALSE
      OBVIOUS
    <2>1. A[k] < A[l] /\ A[k] \in 1..Len(list) /\ A[l] \in 1..Len(list)
      BY <1>1, <1>6, <1>9, <1>10
    <2>2. Candidate(list, connected, rest, A[l])
      BY <1>10 DEF free
    <2>3. A[k] \in 1..(A[l] - 1)
      BY <2>1
    <2> QED BY <2>2, <2>3 DEF Candidate
  <1>17. OnePerNode(both)
    <2> SUFFICES ASSUME NEW i \in DOMAIN both, NEW j \in DOMAIN both,
                        both[i].addr = both[j].addr
                 PROVE  i = j
      BY DEF OnePerNode
    <2>1. CASE i \in 1..Len(subs) /\ j \in 1..Len(subs)
      BY <1>1, <1>13, <2>1 DEF OnePerNode
    <2>2. CASE i \in 1..Len(subs) /\ j \notin 1..Len(subs)
      <3>1. both[i].addr \in AddrsOf(subs)
        BY <1>1, <1>13, <2>2 DEF AddrsOf
      <3>2. PICK k \in 1..m : j = Len(subs) + k
        BY <1>15, <2>2
      <3> QED BY <1>14, <3>1, <3>2
    <2>3. CASE i \notin 1..Len(subs) /\ j \in 1..Len(subs)
      <3>1. both[j].addr \in AddrsOf(subs)
        BY <1>1, <1>13, <2>3 DEF AddrsOf
      <3>2. PICK k \in 1..m : i = Len(subs) + k
        BY <1>15, <2>3
      <3> QED BY <1>14, <3>1, <3>2
    <2>4. CASE i \notin 1..Len(subs) /\ j \notin 1..Len(subs)
      <3>1. PICK k \in 1..m : i = Len(subs) + k
        BY <1>15, <2>4
      <3>2. PICK l \in 1..m : j = Len(subs) + l
        BY <1>15, <2>4
      <3> QED BY <1>14, <1>16, <3>1, <3>2
    <2> QED BY <2>1, <2>2, <2>3, <2>4
  <1>18. ASSUME m = c
         PROVE  \A n \in NodesOf(list) : n \in AddrsOf(both) \/ ~IsRested(rest, n)
    <2>1. ASSUME NEW n \in NodesOf(list), n \notin AddrsOf(subs), IsRested(rest, n)
          PROVE  n \in AddrsOf(both)
      <3>1. PICK i \in DOMAIN list : list[i] = n /\ Candidate(list, connected, rest, i)
        BY <2>1, IdleNodeIsCandidate
      <3>2. PICK k \in 1..m : A[k] = i
        BY <1>6, <1>18, <3>1 DEF free
      <3>3. Len(subs) + k \in DOMAIN both /\ both[Len(subs) + k].addr = n
        BY <1>1, <1>13, <1>14, <3>1, <3>2
      <3> QED BY <3>3 DEF AddrsOf
    <2>2. AddrsOf(subs) \subseteq AddrsOf(both)
      BY <1>1, <1>13 DEF AddrsOf
    <2> QED BY <2>1, <2>2
  <1>19. ASSUME m >= Room(list, subs)
         PROVE  Len(both) >= Least(MAX_ACTIVE, Len(list))
    BY <1>1, <1>7, <1>13, <1>19 DEF Least
  <1>20. Len(both) <= MAX_ACTIVE /\ Len(subs) <= Len(both)
    BY <1>1, <1>7, <1>8, <1>13
  <1>21. ASSUME NEW i \in (Len(subs) + 1)..Len(both)
         PROVE  /\ both[i].alive
                /\ both[i].addr \in NodesOf(list) \ AddrsOf(subs)
                /\ IsRested(rest, both[i].addr)
    <2>1. i \in DOMAIN both /\ i \notin 1..Len(subs)
      BY <1>1, <1>13
    <2>2. PICK k \in 1..m : i = Len(subs) + k
      BY <1>15, <2>1
    <2> QED BY <1>14, <2>2
  <1>22. Filled(list, subs, rest) = both
    BY <1>2
  <1>23. both \in Seq(Subscriber) /\ \A i \in 1..Len(subs) : both[i] = subs[i]
    BY <1>13
  <1> HIDE DEF connected
  <1> QED BY <1>9, <1>17, <1>18, <1>19, <1>20, <1>21, <1>22, <1>23

(***************************************************************************)
(* reap_dead and retain: the subscribers that stay are the selected ones,  *)
(* still one per node.                                                     *)
(***************************************************************************)
LEMMA SurvivorsAre ==
  ASSUME NEW subs \in Seq(Subscriber), OnePerNode(subs),
         NEW S \in SUBSET DOMAIN subs, NEW t, t = Selected(subs, S)
  PROVE  /\ t \in Seq(Subscriber) /\ Len(t) <= Len(subs) /\ OnePerNode(t)
         /\ \A k \in DOMAIN t : \E i \in S : t[k] = subs[i]
         /\ AddrsOf(t) = {subs[i].addr : i \in S}
  <1>1. t = Selected(subs, S)
    OBVIOUS
  <1>2. t \in Seq(Subscriber) /\ Len(t) <= Len(subs)
    BY <1>1, SelectedInOrder
  <1>3. PICK at \in [1..Len(t) -> S] :
          /\ \A k \in 1..Len(t) : t[k] = subs[at[k]]
          /\ \A i \in S : \E k \in 1..Len(t) : at[k] = i
          /\ \A k, l \in 1..Len(t) : k < l <=> at[k] < at[l]
    BY <1>1, SelectedInOrder
  <1>4. DOMAIN t = 1..Len(t) /\ Len(t) \in Nat
    BY <1>2
  <1>5. ASSUME NEW k \in DOMAIN t, NEW l \in DOMAIN t, t[k].addr = t[l].addr
        PROVE  k = l
    <2>1. at[k] \in DOMAIN subs /\ at[l] \in DOMAIN subs /\ at[k] = at[l]
      BY <1>3, <1>4, <1>5 DEF OnePerNode
    <2>2. at[k] \in Int
      BY <2>1
    <2>3. ~(at[k] < at[l]) /\ ~(at[l] < at[k])
      BY <2>1, <2>2
    <2>4. ~(k < l) /\ ~(l < k)
      BY <1>3, <1>4, <2>3
    <2> QED BY <1>4, <2>4
  <1>6. \A k \in DOMAIN t : at[k] \in S /\ t[k] = subs[at[k]]
    BY <1>3, <1>4
  <1>7. AddrsOf(t) = {subs[i].addr : i \in S}
    <2>1. AddrsOf(t) \subseteq {subs[i].addr : i \in S}
      BY <1>6 DEF AddrsOf
    <2>2. ASSUME NEW i \in S
          PROVE  subs[i].addr \in AddrsOf(t)
      <3>1. PICK k \in 1..Len(t) : at[k] = i
        BY <1>3
      <3> QED BY <1>4, <1>6, <3>1 DEF AddrsOf
    <2> QED BY <2>1, <2>2
  <1>8. OnePerNode(t)
    BY <1>5 DEF OnePerNode
  <1> QED BY <1>2, <1>6, <1>7, <1>8

(***************************************************************************)
(* What is true of the pool at every moment.  A node whose death has been  *)
(* noticed rests at least as long as its cooldown says; one without a      *)
(* cooldown has rested in full.                                            *)
(***************************************************************************)
Dying(n) == \E i \in DOMAIN active : active[i].addr = n /\ ~active[i].alive

RestIsTrue ==
  \A n \in Addr :
    \/ Dying(n)
    \/ rested[n] >= IF n \in DOMAIN cooldowns THEN cooldowns[n] ELSE COOLDOWN

PoolTyped ==
  /\ active \in Seq(Subscriber) /\ Len(active) <= MAX_ACTIVE
  /\ DOMAIN cooldowns \subseteq Addr
  /\ cooldowns \in [DOMAIN cooldowns -> 0..COOLDOWN]
  /\ rested \in [Addr -> 0..COOLDOWN]
  /\ nodes \in Configs /\ published \in Configs
  /\ pool \in {"running", "stopped", "bailed"}

PoolInv ==
  /\ PoolTyped /\ OneSubscriberPerNode /\ RemovedNodesLeaveNothing /\ SlotsFilled
  /\ pool = "running" => RestIsTrue

StartsRested == \A n \in Addr : Starts(n) => rested'[n] >= COOLDOWN

(***************************************************************************)
(* The names the pool uses for its subscribers and lists.                  *)
(***************************************************************************)
LEMMA PoolNames ==
  /\ ActiveNodes = AddrsOf(active)
  /\ OneSubscriberPerNode <=> OnePerNode(active)
  /\ \A list \in Configs : list \in Seq(Addr) /\ NodesOf(list) \subseteq Addr
  /\ MAX_ACTIVE \in Nat /\ COOLDOWN \in Nat \ {0} /\ LIFE \in Nat
  <1>1. \A list \in Configs : list \in Seq(Addr)
    BY PoolAssumption
  <1>2. \A list \in Configs : NodesOf(list) \subseteq Addr
    BY <1>1 DEF NodesOf, ToSet
  <1> QED BY <1>1, <1>2, PoolAssumption DEF ActiveNodes, AddrsOf, OneSubscriberPerNode, OnePerNode

LEMMA PoolNamesNext ==
  /\ ActiveNodes' = AddrsOf(active')
  /\ OneSubscriberPerNode' <=> OnePerNode(active')
  BY DEF ActiveNodes, AddrsOf, OneSubscriberPerNode, OnePerNode

(***************************************************************************)
(* Whoever an action connects has rested.                                  *)
(***************************************************************************)
LEMMA NobodyStarts ==
  ASSUME ConnectedNodes' \subseteq ConnectedNodes
  PROVE  StartsRested
  BY DEF StartsRested, Starts

LEMMA PoolBegins == Init => PoolInv
  <1> SUFFICES ASSUME Init
               PROVE  PoolInv
    OBVIOUS
  <1> USE DEF Init
  <1>1. /\ nodes \in Seq(Addr) /\ COOLDOWN \in Nat \ {0} /\ MAX_ACTIVE \in Nat
        /\ << >> \in Seq(Subscriber) /\ Len(<< >>) = 0
        /\ DOMAIN cooldowns = {}
    BY PoolNames
  <1>2. OnePerNode(<< >>) /\ Len(<< >>) <= MAX_ACTIVE
    BY <1>1 DEF OnePerNode
  <1>3. /\ active \in Seq(Subscriber) /\ Len(active) <= MAX_ACTIVE
        /\ OnePerNode(active)
        /\ \A i \in 1..Len(active) : active[i].alive /\ active[i].addr \in NodesOf(nodes)
    <2>1. PICK rest : rest = << >>
      OBVIOUS
    <2>2. PICK subs \in Seq(Subscriber) : subs = << >>
      BY <1>1
    <2>3. /\ active = Filled(nodes, subs, rest) /\ OnePerNode(subs)
          /\ Len(subs) = 0 /\ Len(subs) <= MAX_ACTIVE
      BY <1>1, <1>2, <2>1, <2>2
    <2>4. /\ active \in Seq(Subscriber) /\ Len(active) <= MAX_ACTIVE
          /\ OnePerNode(active)
      <3> HIDE DEF Init
      <3> QED BY <1>1, <2>3, FilledIs
    <2>5. \A i \in (Len(subs) + 1)..Len(active) :
            active[i].alive /\ active[i].addr \in NodesOf(nodes)
      <3> HIDE DEF Init
      <3> QED BY <1>1, <2>3, FilledIs
    <2> QED BY <2>3, <2>4, <2>5
  <1>4. PoolTyped
    BY <1>1, <1>3 DEF PoolTyped
  <1>5. OneSubscriberPerNode /\ RemovedNodesLeaveNothing
    BY <1>1, <1>3, PoolNames DEF RemovedNodesLeaveNothing, AddrsOf
  <1>6. SlotsFilled
    BY DEF SlotsFilled
  <1>7. RestIsTrue
    BY <1>1 DEF RestIsTrue
  <1> QED BY <1>4, <1>5, <1>6, <1>7 DEF PoolInv

(***************************************************************************)
(* FilledIs, by where each subscriber comes from.                          *)
(***************************************************************************)
LEMMA RefillIs ==
  ASSUME NEW list \in Seq(Addr), NEW subs \in Seq(Subscriber),
         Len(subs) <= MAX_ACTIVE, OnePerNode(subs), NEW rest,
         NEW full, full = Filled(list, subs, rest)
  PROVE  /\ full \in Seq(Subscriber) /\ Len(full) <= MAX_ACTIVE /\ OnePerNode(full)
         /\ AddrsOf(subs) \subseteq AddrsOf(full)
         /\ \A i \in DOMAIN full :
              \/ \E k \in DOMAIN subs : full[i] = subs[k]
              \/ /\ full[i].alive /\ IsRested(rest, full[i].addr)
                 /\ full[i].addr \in NodesOf(list) \ AddrsOf(subs)
         /\ \/ Len(full) >= Least(MAX_ACTIVE, Len(list))
            \/ \A n \in NodesOf(list) : n \in AddrsOf(full) \/ ~IsRested(rest, n)
  <1>1. /\ full \in Seq(Subscriber) /\ Len(full) <= MAX_ACTIVE /\ OnePerNode(full)
        /\ Len(subs) <= Len(full)
        /\ \A i \in 1..Len(subs) : full[i] = subs[i]
    BY FilledIs
  <1>2. \A i \in (Len(subs) + 1)..Len(full) :
          /\ full[i].alive /\ IsRested(rest, full[i].addr)
          /\ full[i].addr \in NodesOf(list) \ AddrsOf(subs)
    BY FilledIs
  <1>3. \/ Len(full) >= Least(MAX_ACTIVE, Len(list))
        \/ \A n \in NodesOf(list) : n \in AddrsOf(full) \/ ~IsRested(rest, n)
    BY FilledIs
  <1>4. /\ DOMAIN full = 1..Len(full) /\ Len(full) \in Nat
        /\ DOMAIN subs = 1..Len(subs) /\ Len(subs) \in Nat
    BY <1>1
  <1>5. AddrsOf(subs) \subseteq AddrsOf(full)
    BY <1>1, <1>4 DEF AddrsOf
  <1>6. \A i \in DOMAIN full : i \in DOMAIN subs \/ i \in (Len(subs) + 1)..Len(full)
    BY <1>4
  <1>7. \A i \in DOMAIN full :
          \/ \E k \in DOMAIN subs : full[i] = subs[k]
          \/ /\ full[i].alive /\ IsRested(rest, full[i].addr)
             /\ full[i].addr \in NodesOf(list) \ AddrsOf(subs)
    BY <1>1, <1>2, <1>4, <1>6
  <1> QED BY <1>1, <1>3, <1>5, <1>7

(***************************************************************************)
(* A tick notices every death, and the dead rest from then on.             *)
(***************************************************************************)
LEMMA HealthTickKeeps ==
  ASSUME PoolInv, HealthTick
  PROVE  PoolInv' /\ StartsRested
  <1> DEFINE alive == {i \in DOMAIN active : active[i].alive}
             dead == {active[i].addr : i \in {k \in DOMAIN active : ~active[k].alive}}
  <1>1. /\ PoolTyped /\ OnePerNode(active) /\ RestIsTrue
        /\ ActiveNodes \cup DOMAIN cooldowns \subseteq NodesOf(nodes)
        /\ nodes \in Seq(Addr) /\ NodesOf(nodes) \subseteq Addr
        /\ MAX_ACTIVE \in Nat /\ COOLDOWN \in Nat \ {0}
    BY PoolNames DEF PoolInv, PoolTyped, RemovedNodesLeaveNothing, HealthTick
  <1>2. /\ Reaped \in Seq(Subscriber) /\ Len(Reaped) <= MAX_ACTIVE
        /\ OnePerNode(Reaped)
        /\ \A k \in DOMAIN Reaped : \E i \in alive : Reaped[k] = active[i]
        /\ AddrsOf(Reaped) = {active[i].addr : i \in alive}
    <2>1. /\ active \in Seq(Subscriber) /\ OnePerNode(active)
          /\ alive \in SUBSET DOMAIN active /\ Reaped = Selected(active, alive)
      BY <1>1 DEF PoolTyped, Reaped
    <2> HIDE DEF alive
    <2>2. /\ Reaped \in Seq(Subscriber) /\ Len(Reaped) <= Len(active)
          /\ OnePerNode(Reaped)
          /\ \A k \in DOMAIN Reaped : \E i \in alive : Reaped[k] = active[i]
          /\ AddrsOf(Reaped) = {active[i].addr : i \in alive}
      BY <2>1, SurvivorsAre
    <2>3. Len(Reaped) \in Nat /\ Len(active) \in Nat /\ Len(active) <= MAX_ACTIVE
      BY <1>1, <2>1, <2>2 DEF PoolTyped
    <2> QED BY <1>1, <2>2, <2>3
  <1>3. /\ due' = FALSE /\ nodes' = nodes /\ published' = published /\ rested' = rested
        /\ cooldowns' = [n \in dead \cup DOMAIN cooldowns |->
                           IF n \in dead THEN 0 ELSE cooldowns[n]]
        /\ \/ pool' = "bailed" /\ active' = Reaped
           \/ pool' = pool /\ active' = Filled(nodes, Reaped, cooldowns')
    BY DEF HealthTick, CooldownsAfterReap
  <1>4. /\ AddrsOf(Reaped) \subseteq ActiveNodes
        /\ dead \subseteq ActiveNodes /\ AddrsOf(Reaped) = ConnectedNodes
    BY <1>2 DEF ActiveNodes, ConnectedNodes
  <1>5. \A n \in Addr : Dying(n) <=> n \in dead
    BY DEF Dying
  <1> HIDE DEF alive, dead
  <1>6. /\ DOMAIN cooldowns' = dead \cup DOMAIN cooldowns
        /\ cooldowns' \in [DOMAIN cooldowns' -> 0..COOLDOWN]
        /\ \A n \in dead : cooldowns'[n] = 0
        /\ \A n \in DOMAIN cooldowns \ dead : cooldowns'[n] = cooldowns[n]
    BY <1>1, <1>3 DEF PoolTyped
  <1>7. /\ active' \in Seq(Subscriber) /\ Len(active') <= MAX_ACTIVE
        /\ OnePerNode(active')
        /\ \A i \in DOMAIN active' :
             \/ active'[i].addr \in AddrsOf(Reaped)
             \/ /\ active'[i].addr \in NodesOf(nodes)
                /\ IsRested(cooldowns', active'[i].addr)
        /\ SlotsFilled'
    <2>1. CASE pool' = "bailed" /\ active' = Reaped
      BY <1>2, <2>1 DEF SlotsFilled, AddrsOf
    <2>2. CASE pool' = pool /\ active' = Filled(nodes, Reaped, cooldowns')
      <3>1. /\ active' \in Seq(Subscriber) /\ Len(active') <= MAX_ACTIVE
            /\ OnePerNode(active')
            /\ \A i \in DOMAIN active' :
                 \/ \E k \in DOMAIN Reaped : active'[i] = Reaped[k]
                 \/ /\ active'[i].alive /\ IsRested(cooldowns', active'[i].addr)
                    /\ active'[i].addr \in NodesOf(nodes) \ AddrsOf(Reaped)
        BY <1>1, <1>2, <2>2, RefillIs
      <3>2. \/ Len(active') >= Least(MAX_ACTIVE, Len(nodes))
            \/ \A n \in NodesOf(nodes) :
                 n \in AddrsOf(active') \/ ~IsRested(cooldowns', n)
        BY <1>1, <1>2, <2>2, RefillIs
      <3>3. SlotsFilled'
        BY <1>3, <3>2, PoolNamesNext DEF SlotsFilled
      <3>4. \A i \in DOMAIN active' :
              \/ active'[i].addr \in AddrsOf(Reaped)
              \/ /\ active'[i].addr \in NodesOf(nodes)
                 /\ IsRested(cooldowns', active'[i].addr)
        BY <3>1 DEF AddrsOf
      <3> QED BY <3>1, <3>3, <3>4
    <2> QED BY <1>3, <2>1, <2>2
  <1>8. PoolTyped'
    BY <1>1, <1>3, <1>4, <1>6, <1>7 DEF PoolTyped
  <1>9. RemovedNodesLeaveNothing'
    <2>1. \A i \in DOMAIN active' : active'[i].addr \in NodesOf(nodes)
      BY <1>1, <1>4, <1>7
    <2>2. AddrsOf(active') \subseteq NodesOf(nodes)
      BY <2>1 DEF AddrsOf
    <2> QED BY <1>1, <1>3, <1>4, <1>6, <2>2, PoolNamesNext DEF RemovedNodesLeaveNothing, NodesOf
  <1>10. RestIsTrue'
    <2> SUFFICES ASSUME NEW n \in Addr
                 PROVE  rested'[n] >= IF n \in DOMAIN cooldowns' THEN cooldowns'[n]
                                                                 ELSE COOLDOWN
      BY DEF RestIsTrue
    <2>1. CASE n \in dead
      BY <1>1, <1>3, <1>6, <2>1 DEF PoolTyped
    <2>2. CASE n \notin dead
      BY <1>1, <1>3, <1>5, <1>6, <2>2 DEF RestIsTrue
    <2> QED BY <2>1, <2>2
  <1>11. StartsRested
    <2> SUFFICES ASSUME NEW n \in Addr, Starts(n)
                 PROVE  rested'[n] >= COOLDOWN
      BY DEF StartsRested
    <2>1. IsRested(cooldowns', n)
      BY <1>4, <1>7 DEF Starts, ConnectedNodes
    <2>2. n \notin dead
      BY <1>1, <1>6, <2>1 DEF IsRested
    <2>3. rested[n] >= IF n \in DOMAIN cooldowns THEN cooldowns[n] ELSE COOLDOWN
      BY <1>1, <1>5, <2>2 DEF RestIsTrue
    <2>4. n \in DOMAIN cooldowns => cooldowns[n] >= COOLDOWN
      BY <1>6, <2>1, <2>2 DEF IsRested
    <2>5. /\ rested[n] \in Int /\ COOLDOWN \in Int
          /\ n \in DOMAIN cooldowns => cooldowns[n] \in Int
      BY <1>1 DEF PoolTyped
    <2> QED BY <1>3, <2>3, <2>4, <2>5
  <1> QED BY <1>7, <1>8, <1>9, <1>10, <1>11, PoolNamesNext DEF PoolInv

(***************************************************************************)
(* A reload drops all that belongs to nodes no longer listed, and leaves   *)
(* the others, dead or alive, and their cooldowns alone.                   *)
(***************************************************************************)
LEMMA ConfigChangedKeeps ==
  ASSUME PoolInv, ConfigChanged
  PROVE  PoolInv' /\ StartsRested
  <1> DEFINE listed == NodesOf(published)
             stay == {i \in DOMAIN active : active[i].addr \in listed}
  <1>1. /\ PoolTyped /\ OnePerNode(active) /\ RestIsTrue
        /\ published \in Seq(Addr) /\ listed \subseteq Addr
        /\ MAX_ACTIVE \in Nat /\ COOLDOWN \in Nat \ {0}
    BY PoolNames DEF PoolInv, PoolTyped, ConfigChanged
  <1>2. PICK kept : kept = Kept(published)
    OBVIOUS
  <1>3. /\ nodes' = published /\ published' = published /\ pool' = pool
        /\ cooldowns' = [n \in DOMAIN cooldowns \cap listed |-> cooldowns[n]]
        /\ rested' = [n \in Addr |-> IF n \in listed THEN rested[n] ELSE COOLDOWN]
        /\ active' = Filled(published, kept, cooldowns')
    BY <1>2 DEF ConfigChanged, Remembered
  <1>4. /\ kept \in Seq(Subscriber) /\ Len(kept) <= MAX_ACTIVE
        /\ OnePerNode(kept)
        /\ \A k \in DOMAIN kept : \E i \in DOMAIN active : kept[k] = active[i]
        /\ AddrsOf(kept) = {active[i].addr : i \in stay}
    <2>1. /\ active \in Seq(Subscriber) /\ OnePerNode(active)
          /\ stay \in SUBSET DOMAIN active /\ kept = Selected(active, stay)
      BY <1>1, <1>2 DEF PoolTyped, Kept
    <2> HIDE DEF stay
    <2>2. /\ kept \in Seq(Subscriber) /\ Len(kept) <= Len(active)
          /\ OnePerNode(kept)
          /\ \A k \in DOMAIN kept : \E i \in stay : kept[k] = active[i]
          /\ AddrsOf(kept) = {active[i].addr : i \in stay}
      BY <2>1, SurvivorsAre
    <2>3. Len(kept) \in Nat /\ Len(active) \in Nat /\ Len(active) <= MAX_ACTIVE
      BY <1>1, <2>1, <2>2 DEF PoolTyped
    <2> QED BY <1>1, <2>1, <2>2, <2>3
  <1>5. AddrsOf(kept) = ActiveNodes \cap listed
    BY <1>4 DEF ActiveNodes
  <1>5a. /\ published \in Seq(Addr) /\ kept \in Seq(Subscriber)
         /\ Len(kept) <= MAX_ACTIVE /\ OnePerNode(kept)
         /\ active' = Filled(published, kept, cooldowns')
    BY <1>1, <1>3, <1>4
  <1>6. /\ active' \in Seq(Subscriber) /\ Len(active') <= MAX_ACTIVE
        /\ OnePerNode(active') /\ AddrsOf(kept) \subseteq AddrsOf(active')
        /\ \A i \in DOMAIN active' :
             \/ \E k \in DOMAIN kept : active'[i] = kept[k]
             \/ /\ active'[i].alive /\ IsRested(cooldowns', active'[i].addr)
                /\ active'[i].addr \in listed \ AddrsOf(kept)
    BY <1>5a, RefillIs
  <1>7. \/ Len(active') >= Least(MAX_ACTIVE, Len(published))
        \/ \A n \in listed : n \in AddrsOf(active') \/ ~IsRested(cooldowns', n)
    BY <1>5a, RefillIs
  <1>8. \A i \in DOMAIN active' :
          \/ active'[i].addr \in AddrsOf(kept)
          \/ active'[i].addr \in listed /\ IsRested(cooldowns', active'[i].addr)
    BY <1>6 DEF AddrsOf
  <1> HIDE DEF stay, listed
  <1>9. /\ DOMAIN cooldowns' = DOMAIN cooldowns \cap listed
        /\ cooldowns' \in [DOMAIN cooldowns' -> 0..COOLDOWN]
        /\ \A n \in DOMAIN cooldowns' : cooldowns'[n] = cooldowns[n]
        /\ rested' \in [Addr -> 0..COOLDOWN]
        /\ \A n \in listed : rested'[n] = rested[n]
        /\ \A n \in Addr \ listed : rested'[n] = COOLDOWN
    <2>1. /\ cooldowns \in [DOMAIN cooldowns -> 0..COOLDOWN]
          /\ rested \in [Addr -> 0..COOLDOWN] /\ COOLDOWN \in 0..COOLDOWN
      BY <1>1 DEF PoolTyped
    <2>2. /\ DOMAIN cooldowns' = DOMAIN cooldowns \cap listed
          /\ cooldowns' \in [DOMAIN cooldowns' -> 0..COOLDOWN]
          /\ \A n \in DOMAIN cooldowns' : cooldowns'[n] = cooldowns[n]
      BY <1>3, <2>1
    <2>3. /\ rested' \in [Addr -> 0..COOLDOWN]
          /\ \A n \in listed : rested'[n] = rested[n]
          /\ \A n \in Addr \ listed : rested'[n] = COOLDOWN
      BY <1>1, <1>3, <2>1
    <2> QED BY <2>2, <2>3
  <1>10. PoolTyped'
    <2>1. /\ DOMAIN cooldowns' \subseteq Addr /\ nodes' \in Configs
          /\ published' \in Configs /\ pool' \in {"running", "stopped", "bailed"}
      BY <1>1, <1>3, <1>9 DEF PoolTyped
    <2> QED BY <1>6, <1>9, <2>1 DEF PoolTyped
  <1>11. RemovedNodesLeaveNothing'
    <2>1. AddrsOf(active') \subseteq listed
      BY <1>5, <1>8 DEF AddrsOf
    <2> QED BY <1>3, <1>9, <2>1, PoolNamesNext DEF RemovedNodesLeaveNothing, listed
  <1>12. SlotsFilled'
    BY <1>3, <1>7, PoolNamesNext DEF SlotsFilled, listed
  <1>13. RestIsTrue'
    <2> SUFFICES ASSUME NEW n \in Addr, ~Dying(n)'
                 PROVE  rested'[n] >= IF n \in DOMAIN cooldowns' THEN cooldowns'[n]
                                                                 ELSE COOLDOWN
      BY DEF RestIsTrue
    <2>1. CASE n \notin listed
      BY <1>1, <1>9, <2>1
    <2>2. CASE n \in listed
      <3>1. ~Dying(n)
        <4> SUFFICES ASSUME NEW i \in DOMAIN active, active[i].addr = n, ~active[i].alive
                     PROVE  FALSE
          BY DEF Dying
        <4>1. n \in AddrsOf(kept)
          BY <1>5, <2>2 DEF ActiveNodes
        <4>2. PICK j \in DOMAIN active' : active'[j].addr = n
          BY <1>6, <4>1 DEF AddrsOf
        <4>3. PICK k \in DOMAIN kept : active'[j] = kept[k]
          BY <1>6, <4>1, <4>2
        <4>4. PICK l \in DOMAIN active : kept[k] = active[l]
          BY <1>4
        <4>5. l = i
          BY <1>1, <4>2, <4>3, <4>4 DEF OnePerNode
        <4> QED BY <4>2, <4>3, <4>4, <4>5 DEF Dying
      <3> QED BY <1>1, <1>9, <2>2, <3>1 DEF RestIsTrue
    <2> QED BY <2>1, <2>2
  <1>14. StartsRested
    <2> SUFFICES ASSUME NEW n \in Addr, Starts(n)
                 PROVE  rested'[n] >= COOLDOWN
      BY DEF StartsRested
    <2>1. n \notin ActiveNodes /\ n \in listed /\ IsRested(cooldowns', n)
      <3>1. PICK i \in DOMAIN active' : active'[i].addr = n /\ active'[i].alive
        BY DEF Starts, ConnectedNodes
      <3>2. ASSUME NEW k \in DOMAIN kept, active'[i] = kept[k]
            PROVE  FALSE
        <4>1. PICK l \in DOMAIN active : kept[k] = active[l]
          BY <1>4
        <4> QED BY <3>1, <3>2, <4>1 DEF Starts, ConnectedNodes
      <3> QED BY <1>5, <1>6, <3>1, <3>2
    <2>2. ~Dying(n)
      BY <2>1 DEF Dying, ActiveNodes
    <2>3. rested[n] >= IF n \in DOMAIN cooldowns THEN cooldowns[n] ELSE COOLDOWN
      BY <1>1, <2>2 DEF RestIsTrue
    <2>4. n \in DOMAIN cooldowns => cooldowns[n] >= COOLDOWN
      BY <1>9, <2>1 DEF IsRested
    <2>5. /\ rested[n] \in Int /\ COOLDOWN \in Int
          /\ n \in DOMAIN cooldowns => cooldowns[n] \in Int
      BY <1>1 DEF PoolTyped
    <2> QED BY <1>9, <2>1, <2>3, <2>4, <2>5
  <1> QED BY <1>6, <1>10, <1>11, <1>12, <1>13, <1>14, PoolNamesNext DEF PoolInv

(***************************************************************************)
(* An action that leaves every subscriber with its node, and the lists and *)
(* cooldowns as they are, connects nobody and needs no room.               *)
(***************************************************************************)
LEMMA SameNodesKeep ==
  ASSUME PoolInv, active' \in Seq(Subscriber),
         DOMAIN active' = DOMAIN active,
         \A i \in DOMAIN active : /\ active'[i].addr = active[i].addr
                                  /\ active'[i].alive => active[i].alive,
         nodes' = nodes, DOMAIN cooldowns' = DOMAIN cooldowns
  PROVE  /\ Len(active') = Len(active) /\ Len(active) \in Nat
         /\ AddrsOf(active') = AddrsOf(active)
         /\ OneSubscriberPerNode' /\ RemovedNodesLeaveNothing'
         /\ StartsRested
  <1>1. active \in Seq(Subscriber)
    BY DEF PoolInv, PoolTyped
  <1>2. Len(active') = Len(active) /\ Len(active) \in Nat
    <2>1. /\ DOMAIN active = 1..Len(active) /\ Len(active) \in Nat
          /\ DOMAIN active' = 1..Len(active') /\ Len(active') \in Nat
      BY <1>1
    <2> QED BY <2>1
  <1>3. AddrsOf(active') = AddrsOf(active)
    BY DEF AddrsOf
  <1>4. OneSubscriberPerNode'
    BY DEF PoolInv, OneSubscriberPerNode
  <1>5. ActiveNodes' = ActiveNodes
    BY <1>3, PoolNames, PoolNamesNext
  <1>6. RemovedNodesLeaveNothing'
    BY <1>5 DEF PoolInv, RemovedNodesLeaveNothing
  <1>7. ConnectedNodes' \subseteq ConnectedNodes
    BY DEF ConnectedNodes
  <1> QED BY <1>2, <1>3, <1>4, <1>6, <1>7, NobodyStarts

(***************************************************************************)
(* A death is not noticed at once: the subscriber keeps its slot.          *)
(***************************************************************************)
LEMMA DieKeeps ==
  ASSUME PoolInv, NEW i, Die(i)
  PROVE  PoolInv' /\ StartsRested
  <1>1. /\ PoolTyped /\ SlotsFilled /\ RestIsTrue /\ COOLDOWN \in Nat
        /\ i \in DOMAIN active
        /\ active' = [active EXCEPT ![i].alive = FALSE]
        /\ rested' = [rested EXCEPT ![active[i].addr] = 0]
        /\ nodes' = nodes /\ cooldowns' = cooldowns /\ due' = due /\ pool' = pool
        /\ published' = published
    BY PoolNames DEF PoolInv, Die
  <1>2. active \in Seq(Subscriber) /\ active[i] \in Subscriber
    BY <1>1 DEF PoolTyped
  <1>3. PICK r : r = [active[i] EXCEPT !.alive = FALSE]
    OBVIOUS
  <1>4. r \in Subscriber /\ r.addr = active[i].addr /\ ~r.alive
    BY <1>2, <1>3 DEF Subscriber
  <1>5. active' = [active EXCEPT ![i] = r]
    BY <1>1, <1>3
  <1>6. /\ active' \in Seq(Subscriber) /\ DOMAIN active' = DOMAIN active
        /\ active'[i] = r /\ \A j \in DOMAIN active \ {i} : active'[j] = active[j]
    <2>1. PICK t : t = [active EXCEPT ![i] = r]
      OBVIOUS
    <2>2. /\ t \in Seq(Subscriber) /\ DOMAIN t = DOMAIN active
          /\ t[i] = r /\ \A j \in DOMAIN active \ {i} : t[j] = active[j]
      BY <1>1, <1>2, <1>4, <2>1, ReplacedEntry
    <2>3. active' = t
      BY <1>5, <2>1
    <2> QED BY <2>2, <2>3
  <1>7. \A j \in DOMAIN active : /\ active'[j].addr = active[j].addr
                                 /\ active'[j].alive => active[j].alive
    BY <1>4, <1>6
  <1>8. /\ Len(active') = Len(active) /\ Len(active) \in Nat
        /\ AddrsOf(active') = AddrsOf(active)
        /\ OneSubscriberPerNode' /\ RemovedNodesLeaveNothing' /\ StartsRested
    BY <1>1, <1>6, <1>7, SameNodesKeep
  <1>9. /\ rested' \in [Addr -> 0..COOLDOWN]
        /\ \A n \in Addr \ {active[i].addr} : rested'[n] = rested[n]
    BY <1>1, <1>2 DEF PoolTyped, Subscriber
  <1>10. PoolTyped'
    BY <1>1, <1>6, <1>8, <1>9 DEF PoolTyped
  <1>11. SlotsFilled'
    BY <1>1, <1>8, PoolNames, PoolNamesNext DEF SlotsFilled
  <1>12. RestIsTrue'
    <2> SUFFICES ASSUME NEW n \in Addr, ~Dying(n)'
                 PROVE  rested'[n] >= IF n \in DOMAIN cooldowns' THEN cooldowns'[n]
                                                                 ELSE COOLDOWN
      BY DEF RestIsTrue
    <2>1. n # active[i].addr
      BY <1>1, <1>4, <1>6 DEF Dying
    <2>2. ~Dying(n)
      BY <1>6, <2>1 DEF Dying
    <2> QED BY <1>1, <1>9, <2>1, <2>2 DEF RestIsTrue
  <1> QED BY <1>8, <1>10, <1>11, <1>12 DEF PoolInv

LEMMA PassSecondKeeps ==
  ASSUME PoolInv, PassSecond
  PROVE  PoolInv' /\ StartsRested
  <1>1. /\ PoolTyped /\ RestIsTrue /\ COOLDOWN \in Nat /\ LIFE \in Nat
        /\ due' = TRUE
        /\ nodes' = nodes /\ pool' = pool /\ published' = published
        /\ cooldowns' = [n \in DOMAIN cooldowns |-> Least(cooldowns[n] + 1, COOLDOWN)]
        /\ rested' = [n \in Addr |-> Least(rested[n] + 1, COOLDOWN)]
        /\ active' = [i \in DOMAIN active |->
             IF active[i].addr \in Unreachable
             THEN [active[i] EXCEPT !.age = Least(@ + 1, LIFE)]
             ELSE active[i]]
    BY PoolNames DEF PoolInv, PassSecond
  <1>2. /\ active \in Seq(Subscriber) /\ Len(active) \in Nat
        /\ DOMAIN active = 1..Len(active)
    BY <1>1 DEF PoolTyped
  <1>3. ASSUME NEW i \in DOMAIN active
        PROVE  /\ active'[i] \in Subscriber
               /\ active'[i].addr = active[i].addr
               /\ active'[i].alive = active[i].alive
    <2>1. active[i] \in Subscriber
      BY <1>2
    <2>2. PICK older : older = Least(active[i].age + 1, LIFE)
      OBVIOUS
    <2>3. older \in 0..LIFE
      BY <1>1, <2>1, <2>2 DEF Least, Subscriber
    <2>4. active'[i] = active[i] \/ active'[i] = [active[i] EXCEPT !.age = older]
      BY <1>1, <2>2
    <2> QED BY <2>1, <2>3, <2>4 DEF Subscriber
  <1>4. active' \in Seq(Subscriber) /\ DOMAIN active' = DOMAIN active
    <2>1. PICK m \in Nat : m = Len(active)
      BY <1>2
    <2>2. DOMAIN active' = 1..m /\ DOMAIN active = 1..m
      BY <1>1, <1>2, <2>1
    <2>3. active' = [i \in 1..m |-> active'[i]]
      BY <1>1, <1>2, <2>1
    <2>4. active' \in [1..m -> Subscriber]
      BY <1>3, <2>2, <2>3
    <2> QED BY <2>2, <2>4, FunctionIsSeq
  <1>5. /\ cooldowns \in [DOMAIN cooldowns -> 0..COOLDOWN]
        /\ rested \in [Addr -> 0..COOLDOWN]
    BY <1>1 DEF PoolTyped
  <1>6. /\ DOMAIN cooldowns' = DOMAIN cooldowns
        /\ cooldowns' \in [DOMAIN cooldowns' -> 0..COOLDOWN]
        /\ rested' \in [Addr -> 0..COOLDOWN]
    BY <1>1, <1>5 DEF Least
  <1>7. /\ Len(active') = Len(active) /\ Len(active) \in Nat
        /\ OneSubscriberPerNode' /\ RemovedNodesLeaveNothing' /\ StartsRested
    BY <1>1, <1>3, <1>4, <1>6, SameNodesKeep
  <1>8. PoolTyped'
    <2>1. DOMAIN cooldowns' \subseteq Addr /\ Len(active') <= MAX_ACTIVE
      BY <1>1, <1>6, <1>7 DEF PoolTyped
    <2> QED BY <1>1, <1>4, <1>6, <2>1 DEF PoolTyped
  <1>9. SlotsFilled'
    BY <1>1 DEF SlotsFilled
  <1>10. RestIsTrue'
    <2> SUFFICES ASSUME NEW n \in Addr, ~Dying(n)'
                 PROVE  rested'[n] >= IF n \in DOMAIN cooldowns' THEN cooldowns'[n]
                                                                 ELSE COOLDOWN
      BY DEF RestIsTrue
    <2>1. ~Dying(n)
      BY <1>3, <1>4 DEF Dying
    <2>2. rested[n] >= IF n \in DOMAIN cooldowns THEN cooldowns[n] ELSE COOLDOWN
      BY <1>1, <2>1 DEF RestIsTrue
    <2>3. rested'[n] = Least(rested[n] + 1, COOLDOWN) /\ rested[n] \in 0..COOLDOWN
      BY <1>1, <1>5
    <2>4. CASE n \in DOMAIN cooldowns
      <3>1. /\ cooldowns'[n] = Least(cooldowns[n] + 1, COOLDOWN)
            /\ cooldowns[n] \in 0..COOLDOWN
        BY <1>1, <1>5, <2>4
      <3> QED BY <1>1, <1>6, <2>2, <2>3, <2>4, <3>1 DEF Least
    <2>5. CASE n \notin DOMAIN cooldowns
      BY <1>1, <1>6, <2>2, <2>3, <2>5 DEF Least
    <2> QED BY <2>4, <2>5
  <1> QED BY <1>7, <1>8, <1>9, <1>10 DEF PoolInv

(***************************************************************************)
(* The other steps stop the pool or change nothing it is about.            *)
(***************************************************************************)
LEMMA OthersKeepPool ==
  ASSUME PoolInv,
         \/ WatchClosed \/ (\E list \in Configs : SendConfig(list)) \/ DropSender
         \/ UNCHANGED vars
  PROVE  PoolInv' /\ StartsRested
  <1>1. CASE WatchClosed
    <2>1. /\ active' = << >> /\ pool' = "stopped"
          /\ UNCHANGED <<nodes, cooldowns, due, published, rested>>
      BY <1>1 DEF WatchClosed
    <2>2. /\ active' \in Seq(Subscriber) /\ Len(active') = 0 /\ DOMAIN active' = {}
          /\ MAX_ACTIVE \in Nat
      BY <2>1, PoolNames
    <2>3. PoolTyped'
      BY <2>1, <2>2 DEF PoolInv, PoolTyped
    <2>4. OneSubscriberPerNode' /\ ActiveNodes' = {} /\ ConnectedNodes' = {}
      BY <2>2 DEF OneSubscriberPerNode, ActiveNodes, ConnectedNodes
    <2>5. RemovedNodesLeaveNothing'
      BY <2>1, <2>4 DEF PoolInv, RemovedNodesLeaveNothing
    <2>6. SlotsFilled' /\ pool' # "running"
      BY <2>1 DEF SlotsFilled
    <2> QED BY <2>3, <2>4, <2>5, <2>6, NobodyStarts DEF PoolInv
  <1>2. CASE (\E list \in Configs : SendConfig(list)) \/ DropSender \/ UNCHANGED vars
    <2>1. /\ UNCHANGED <<nodes, active, cooldowns, due, pool, rested>>
          /\ published' \in Configs
      BY <1>2 DEF PoolInv, PoolTyped, SendConfig, DropSender, vars
    <2>2. PoolTyped' /\ RestIsTrue' = RestIsTrue
      BY <2>1 DEF PoolInv, PoolTyped, RestIsTrue, Dying
    <2>3. /\ OneSubscriberPerNode' = OneSubscriberPerNode
          /\ RemovedNodesLeaveNothing' = RemovedNodesLeaveNothing
          /\ SlotsFilled' = SlotsFilled /\ ConnectedNodes' = ConnectedNodes
      BY <2>1 DEF OneSubscriberPerNode, RemovedNodesLeaveNothing, SlotsFilled,
                  ActiveNodes, ConnectedNodes
    <2> QED BY <2>1, <2>2, <2>3, NobodyStarts DEF PoolInv
  <1> QED BY <1>1, <1>2

LEMMA PoolContinues == PoolInv /\ [Next]_vars => PoolInv' /\ StartsRested
  <1> SUFFICES ASSUME PoolInv, [Next]_vars
               PROVE  PoolInv' /\ StartsRested
    OBVIOUS
  <1>1. CASE HealthTick
    BY <1>1, HealthTickKeeps
  <1>2. CASE ConfigChanged
    BY <1>2, ConfigChangedKeeps
  <1>3. CASE PassSecond
    BY <1>3, PassSecondKeeps
  <1>4. ASSUME NEW i \in 1..MAX_ACTIVE, Die(i)
        PROVE  PoolInv' /\ StartsRested
    BY <1>4, DieKeeps
  <1>5. CASE \/ WatchClosed \/ (\E list \in Configs : SendConfig(list)) \/ DropSender
             \/ UNCHANGED vars
    BY <1>5, OthersKeepPool
  <1> QED BY <1>1, <1>2, <1>3, <1>4, <1>5 DEF Next, PoolStep, Ended

(***************************************************************************)
(* However deaths, ticks and reloads interleave, the pool holds at most    *)
(* MAX_ACTIVE subscribers, one per node, all of nodes still on the list.   *)
(***************************************************************************)
THEOREM SubscribersStayOfNodes == Spec => []SubscribersAreOfNodes
  <1>1. PoolInv => SubscribersAreOfNodes
    <2> SUFFICES ASSUME PoolInv
                 PROVE  TypeOK
      BY DEF PoolInv, SubscribersAreOfNodes
    <2>1. active \in Seq([addr : Addr, alive : BOOLEAN, age : 0..LIFE])
      BY DEF PoolInv, PoolTyped, Subscriber
    <2> QED BY <2>1 DEF PoolInv, PoolTyped, TypeOK
  <1> QED BY <1>1, PoolBegins, PoolContinues, PTL DEF Spec

(***************************************************************************)
(* Between ticks no slot is empty while a node that could fill it is idle. *)
(***************************************************************************)
THEOREM SlotsStayFilled == Spec => []SlotsFilled
  <1>1. PoolInv => SlotsFilled
    BY DEF PoolInv
  <1> QED BY <1>1, PoolBegins, PoolContinues, PTL DEF Spec

(***************************************************************************)
(* Whoever is connected has rested for COOLDOWN seconds since its last     *)
(* connection died, though a death is noticed only at the next tick and    *)
(* the cooldown counts from there.                                         *)
(***************************************************************************)
THEOREM NodesRest == Spec => NodesRestBeforeReconnect
  <1>1. PoolInv /\ [Next]_vars => [\A n \in Addr : Starts(n) => rested'[n] >= COOLDOWN]_vars
    BY PoolContinues DEF StartsRested
  <1> QED BY <1>1, PoolBegins, PoolContinues, PTL DEF Spec, NodesRestBeforeReconnect

-----------------------------------------------------------------------------
(* The message filter *)

PossibleRule == ToSet(Configured) \cup {NewRule(a, wish) : a \in Account, wish \in Wish}

Made(b, m) == <<SourceId(b, m), b.thread, m>>

(***************************************************************************)
(* What is true of the filter at every moment: every wish has its rule,    *)
(* and a block being processed the rules of all who had asked by then.     *)
(***************************************************************************)
FilterInv ==
  /\ rules \in Seq(PossibleRule)
  /\ DOMAIN abis \subseteq Account
  /\ taken.blocks \subseteq Block
  /\ \A b, c \in taken.blocks : b = c
  /\ \A f \in facts : \E b \in Block : \E m \in Messages(b) : f = Made(b, m)
  /\ UnsubscribedIsForgotten
  /\ asked \subseteq ToSet(rules)
  /\ taken.blocks # {} => promised \subseteq ToSet(taken.rules)

(***************************************************************************)
(* Selecting entries of a sequence by what they are.                       *)
(***************************************************************************)
LEMMA SelectedSet ==
  ASSUME NEW T, NEW s \in Seq(T), NEW good,
         NEW t, t = Selected(s, {k \in DOMAIN s : s[k] \in good})
  PROVE  t \in Seq(T) /\ ToSet(t) = ToSet(s) \cap good
  <1> DEFINE S == {k \in DOMAIN s : s[k] \in good}
  <1>1. S \in SUBSET DOMAIN s /\ t = Selected(s, S)
    OBVIOUS
  <1>2. \A k \in S : k \in DOMAIN s /\ s[k] \in good
    OBVIOUS
  <1>3. \A k \in DOMAIN s : s[k] \in good => k \in S
    OBVIOUS
  <1> HIDE DEF S
  <1>4. PICK u : u = Selected(s, S)
    OBVIOUS
  <1>5. /\ u \in Seq(T)
        /\ \E at \in [1..Len(u) -> S] :
             /\ \A k \in 1..Len(u) : u[k] = s[at[k]]
             /\ \A i \in S : \E k \in 1..Len(u) : at[k] = i
             /\ \A k, l \in 1..Len(u) : k < l <=> at[k] < at[l]
    <2>1. s \in Seq(T) /\ S \in SUBSET DOMAIN s
      BY <1>1
    <2>2. /\ Selected(s, S) \in Seq(T)
          /\ \E at \in [1..Len(Selected(s, S)) -> S] :
               /\ \A k \in 1..Len(Selected(s, S)) : Selected(s, S)[k] = s[at[k]]
               /\ \A i \in S : \E k \in 1..Len(Selected(s, S)) : at[k] = i
               /\ \A k, l \in 1..Len(Selected(s, S)) : k < l <=> at[k] < at[l]
      BY <2>1, SelectedInOrder
    <2> QED BY <1>4, <2>2, Zenon
  <1>6. PICK at \in [1..Len(u) -> S] :
          /\ \A k \in 1..Len(u) : u[k] = s[at[k]]
          /\ \A i \in S : \E k \in 1..Len(u) : at[k] = i
    BY <1>5, Zenon
  <1>7. u = t /\ DOMAIN u = 1..Len(u)
    BY <1>1, <1>4, <1>5
  <1>8. ToSet(u) \subseteq ToSet(s) \cap good
    BY <1>2, <1>6, <1>7 DEF ToSet
  <1>9. ASSUME NEW x \in ToSet(s) \cap good
        PROVE  x \in ToSet(u)
    <2>1. PICK i \in DOMAIN s : s[i] = x
      BY DEF ToSet
    <2>2. PICK k \in 1..Len(u) : at[k] = i
      BY <1>3, <1>6, <2>1
    <2>3. k \in DOMAIN u /\ u[k] = x
      BY <1>6, <1>7, <2>1, <2>2
    <2> QED BY <2>3 DEF ToSet
  <1> QED BY <1>5, <1>7, <1>8, <1>9

(***************************************************************************)
(* unsubscribe_address: the rules that name the address go, all others     *)
(* stay.                                                                   *)
(***************************************************************************)
LEMMA RulesWithoutIs ==
  ASSUME NEW a, rules \in Seq(PossibleRule)
  PROVE  /\ RulesWithout(a) \in Seq(PossibleRule)
         /\ ToSet(RulesWithout(a)) = {r \in ToSet(rules) : a \notin r.addresses}
  <1> DEFINE good == {r \in ToSet(rules) : a \notin r.addresses}
  <1>1. \A i \in DOMAIN rules : rules[i] \in ToSet(rules)
    BY DEF ToSet
  <1>2. {i \in DOMAIN rules : a \notin rules[i].addresses}
          = {i \in DOMAIN rules : rules[i] \in good}
    BY <1>1
  <1>3. PICK t : t = RulesWithout(a)
    OBVIOUS
  <1>4. t = Selected(rules, {i \in DOMAIN rules : rules[i] \in good})
    BY <1>2, <1>3 DEF RulesWithout
  <1> HIDE DEF good
  <1>5. t \in Seq(PossibleRule) /\ ToSet(t) = ToSet(rules) \cap good
    BY <1>4, SelectedSet
  <1> QED BY <1>3, <1>5 DEF good

(***************************************************************************)
(* A new rule comes after those there are.                                 *)
(***************************************************************************)
LEMMA OneMoreRule ==
  ASSUME NEW x \in PossibleRule, rules \in Seq(PossibleRule), rules' = Append(rules, x)
  PROVE  rules' \in Seq(PossibleRule) /\ ToSet(rules') = ToSet(rules) \cup {x}
  <1>1. /\ rules' \in Seq(PossibleRule) /\ Len(rules) \in Nat
        /\ DOMAIN rules = 1..Len(rules) /\ DOMAIN rules' = 1..(Len(rules) + 1)
        /\ \A i \in 1..Len(rules) : rules'[i] = rules[i]
        /\ rules'[Len(rules) + 1] = x
    OBVIOUS
  <1> QED BY <1>1 DEF ToSet

LEMMA FilterBegins == FilterInit => FilterInv
  <1> SUFFICES ASSUME FilterInit
               PROVE  FilterInv
    OBVIOUS
  <1>1. rules \in Seq(ToSet(Configured)) /\ ToSet(Configured) \subseteq PossibleRule
    BY RuleAssumption DEF FilterInit, PossibleRule
  <1>2. rules \in Seq(PossibleRule)
    <2>1. PICK n \in Nat : n = Len(rules) /\ DOMAIN rules = 1..n
      BY <1>1
    <2>2. rules \in [1..n -> PossibleRule]
      BY <1>1, <2>1
    <2> QED BY <2>2, FunctionIsSeq
  <1>3. taken.blocks = {} /\ facts = {} /\ forgotten = {} /\ asked = {} /\ DOMAIN abis = {}
    BY DEF FilterInit, NoBlock
  <1> QED BY <1>2, <1>3 DEF FilterInv, UnsubscribedIsForgotten

(***************************************************************************)
(* A block taken is processed with the rules as they are at that moment:   *)
(* what was promised by then is among them.                                *)
(***************************************************************************)
LEMMA CopyRulesKeeps ==
  ASSUME FilterInv, NEW b \in Block, CopyRules(b)
  PROVE  FilterInv'
  <1>1. /\ taken'.blocks = {b} /\ taken'.rules = rules /\ promised' = asked
        /\ rules' = rules /\ abis' = abis /\ facts' = facts
        /\ asked' = asked /\ forgotten' = forgotten
    BY DEF CopyRules
  <1> QED BY <1>1 DEF FilterInv, UnsubscribedIsForgotten

(***************************************************************************)
(* What is heard of a block is in it, and all of its unharmed messages are *)
(* heard.                                                                  *)
(***************************************************************************)
LEMMA HeardIsIn ==
  ASSUME NEW b \in Block
  PROVE  Heard(b) \subseteq Messages(b)
  <1> SUFFICES ASSUME NEW m \in Heard(b)
               PROVE  m \in Messages(b)
    OBVIOUS
  <1>1. PICK a \in DOMAIN b.accounts : m \in HeardIn(b.accounts[a])
    BY DEF Heard
  <1>2. PICK txs : txs = b.accounts[a]
    OBVIOUS
  <1>3. PICK k \in DOMAIN txs : (\A j \in 1..k : ~Breaks(txs[j])) /\ m \in HeardOf(txs[k])
    BY <1>1, <1>2 DEF HeardIn
  <1>4. PICK tx : tx = txs[k]
    OBVIOUS
  <1>5. txs \in Seq(Transactions(b)) /\ tx \in Transactions(b)
    BY <1>2, <1>3, <1>4, BlockAssumption
  <1>6. tx.out \in Seq(Cells(tx))
    BY <1>5, BlockAssumption
  <1>7. ~Breaks(tx) /\ tx.root = "parsed" /\ m \in (ToSet(tx.in) \cup HeardOut(tx)) \ {BadCell}
    <2>1. k \in 1..k
      BY <1>3, <1>5
    <2> QED BY <1>3, <1>4, <2>1 DEF HeardOf
  <1>8. HeardOut(tx) \subseteq ToSet(tx.out) \ {LostCell}
    <2> SUFFICES ASSUME NEW k2 \in DOMAIN tx.out,
                        \A j \in 1..k2 : tx.out[j] # LostCell
                 PROVE  tx.out[k2] \in ToSet(tx.out) \ {LostCell}
      BY DEF HeardOut
    <2>1. k2 \in 1..k2
      BY <1>6
    <2> QED BY <2>1 DEF ToSet
  <1>9. m \in Cells(tx) \ {BadCell, LostCell}
    BY <1>7, <1>8 DEF Breaks, Cells
  <1> QED BY <1>5, <1>9 DEF Messages

LEMMA UnharmedIsHeard ==
  ASSUME NEW b \in Block
  PROVE  Unharmed(b) \subseteq Heard(b)
  <1> SUFFICES ASSUME NEW m \in Unharmed(b)
               PROVE  m \in Heard(b)
    OBVIOUS
  <1>1. PICK a \in DOMAIN b.accounts : Loads(b.accounts[a]) /\ m \in Legible(b.accounts[a])
    BY DEF Unharmed
  <1>2. PICK txs : txs = b.accounts[a]
    OBVIOUS
  <1>3. PICK k \in DOMAIN txs : txs[k].root = "parsed" /\ m \in Cells(txs[k]) /\ m # BadCell
    BY <1>1, <1>2 DEF Legible
  <1>4. /\ txs \in Seq(Transactions(b)) /\ Len(txs) \in Nat /\ k \in 1..Len(txs)
        /\ DOMAIN txs = 1..Len(txs)
    BY <1>2, <1>3, BlockAssumption
  <1>5. PICK tx : tx = txs[k]
    OBVIOUS
  <1>6. tx \in Transactions(b) /\ LostCell \notin Cells(tx)
    BY <1>1, <1>2, <1>4, <1>5 DEF Loads
  <1>7. ToSet(tx.out) \subseteq HeardOut(tx)
    <2> SUFFICES ASSUME NEW i \in DOMAIN tx.out
                 PROVE  tx.out[i] \in HeardOut(tx)
      BY DEF ToSet
    <2>1. DOMAIN tx.out = 1..Len(tx.out) /\ Len(tx.out) \in Nat
      BY <1>6, BlockAssumption
    <2>2. \A j \in 1..i : tx.out[j] # LostCell
      BY <1>6, <2>1 DEF Cells, ToSet
    <2> QED BY <2>2 DEF HeardOut
  <1>8. m \in HeardOf(txs[k])
    BY <1>3, <1>5, <1>7 DEF HeardOf, Cells
  <1>9. \A j \in 1..k : ~Breaks(txs[j])
    <2> SUFFICES ASSUME NEW j \in 1..k
                 PROVE  ~Breaks(txs[j])
      OBVIOUS
    <2>1. j \in DOMAIN txs
      BY <1>4
    <2> QED BY <1>1, <1>2, <2>1 DEF Loads, Breaks, Cells
  <1>10. m \in HeardIn(txs)
    BY <1>8, <1>9 DEF HeardIn
  <1> QED BY <1>2, <1>10 DEF Heard

LEMMA ProcessBlockKeeps ==
  ASSUME FilterInv, ProcessBlock
  PROVE  /\ FilterInv'
         /\ \A b \in taken.blocks, r \in promised : \A m \in Unharmed(b) :
              MatchesRule(r, m, MethodOf(m)) => \E f \in facts' : f[3] = m
  <1>1. PICK b \in taken.blocks :
          facts' = facts \cup
            {Made(b, m) : m \in {n \in Heard(b) : Matches(taken.rules, n, MethodOf(n))}}
    BY DEF ProcessBlock, Made
  <1>2. /\ b \in Block /\ \A c \in taken.blocks : c = b
        /\ promised \subseteq ToSet(taken.rules)
        /\ Unharmed(b) \subseteq Heard(b) /\ Heard(b) \subseteq Messages(b)
    BY <1>1, HeardIsIn, UnharmedIsHeard DEF FilterInv
  <1>3. /\ taken'.blocks = {} /\ rules' = rules /\ abis' = abis /\ asked' = asked
        /\ promised' = promised /\ forgotten' = forgotten
    BY DEF ProcessBlock, NoBlock
  <1>4. \A f \in facts' : \E c \in Block : \E m \in Messages(c) : f = Made(c, m)
    BY <1>1, <1>2 DEF FilterInv
  <1>5. FilterInv'
    BY <1>3, <1>4 DEF FilterInv, UnsubscribedIsForgotten
  <1>6. ASSUME NEW c \in taken.blocks, NEW r \in promised, NEW m \in Unharmed(c),
               MatchesRule(r, m, MethodOf(m))
        PROVE  \E f \in facts' : f[3] = m
    <2>1. PICK i \in DOMAIN taken.rules : taken.rules[i] = r
      BY <1>2 DEF ToSet
    <2>2. Matches(taken.rules, m, MethodOf(m))
      BY <1>6, <2>1 DEF Matches
    <2>3. Made(b, m) \in facts'
      BY <1>1, <1>2, <2>2
    <2>4. Made(b, m)[3] = m
      BY DEF Made
    <2> QED BY <2>3, <2>4
  <1> QED BY <1>5, <1>6

(***************************************************************************)
(* A subscription adds its rule, which names one address: that one is no   *)
(* longer forgotten.                                                       *)
(***************************************************************************)
LEMMA SubscribeKeeps ==
  ASSUME FilterInv, NEW a \in Account, NEW wish \in Wish, SubscribeAddress(a, wish)
  PROVE  FilterInv'
  <1>1. /\ rules' = Append(rules, NewRule(a, wish))
        /\ asked' = asked \cup {NewRule(a, wish)} /\ forgotten' = forgotten \ {a}
        /\ abis' = abis /\ taken' = taken /\ facts' = facts /\ promised' = promised
    BY DEF SubscribeAddress
  <1>2. NewRule(a, wish) \in PossibleRule /\ rules \in Seq(PossibleRule)
    BY DEF PossibleRule, FilterInv
  <1>3. rules' \in Seq(PossibleRule) /\ ToSet(rules') = ToSet(rules) \cup {NewRule(a, wish)}
    BY <1>1, <1>2, OneMoreRule
  <1>4. \A r \in ToSet(rules) : r.addresses \cap forgotten = {}
    BY DEF FilterInv, UnsubscribedIsForgotten, ToSet
  <1>5. NewRule(a, wish).addresses = {a}
    BY DEF NewRule
  <1>6. \A r \in ToSet(rules') : r.addresses \cap forgotten' = {}
    BY <1>1, <1>3, <1>4, <1>5
  <1>7. UnsubscribedIsForgotten'
    BY <1>6 DEF UnsubscribedIsForgotten, ToSet
  <1> QED BY <1>1, <1>3, <1>7 DEF FilterInv

(***************************************************************************)
(* An unsubscription takes from the rules all that name the address; the   *)
(* copy a decoder holds keeps them, but nothing of them is promised.       *)
(***************************************************************************)
LEMMA UnsubscribeKeeps ==
  ASSUME FilterInv, NEW a \in Account, UnsubscribeAddress(a)
  PROVE  FilterInv'
  <1>1. /\ rules' = RulesWithout(a) /\ asked' = {r \in asked : a \notin r.addresses}
        /\ promised' = {r \in promised : a \notin r.addresses}
        /\ forgotten' = forgotten \cup {a}
        /\ abis' = abis /\ taken' = taken /\ facts' = facts
    BY DEF UnsubscribeAddress
  <1>2. /\ rules' \in Seq(PossibleRule)
        /\ ToSet(rules') = {r \in ToSet(rules) : a \notin r.addresses}
    BY <1>1, RulesWithoutIs DEF FilterInv
  <1>3. \A r \in ToSet(rules) : r.addresses \cap forgotten = {}
    BY DEF FilterInv, UnsubscribedIsForgotten, ToSet
  <1>4. \A r \in ToSet(rules') : r.addresses \cap forgotten' = {}
    BY <1>1, <1>2, <1>3
  <1>5. UnsubscribedIsForgotten'
    BY <1>4 DEF UnsubscribedIsForgotten, ToSet
  <1>6. asked' \subseteq ToSet(rules') /\ promised' \subseteq promised
    BY <1>1, <1>2 DEF FilterInv
  <1> QED BY <1>1, <1>2, <1>5, <1>6 DEF FilterInv

LEMMA RegisterKeeps ==
  ASSUME FilterInv, NEW a \in Account, NEW abi \in AbiFile, RegisterAbi(a, abi)
  PROVE  FilterInv'
  <1>1. /\ DOMAIN abis' = DOMAIN abis \cup {a}
        /\ rules' = rules /\ taken' = taken /\ facts' = facts /\ asked' = asked
        /\ promised' = promised /\ forgotten' = forgotten
    BY DEF RegisterAbi
  <1> QED BY <1>1 DEF FilterInv, UnsubscribedIsForgotten

-----------------------------------------------------------------------------
(***************************************************************************)
(* Of the filter's steps only ProcessBlock gives a block back.             *)
(***************************************************************************)
HeardNow ==
  taken' = NoBlock =>
    \A b \in taken.blocks, r \in promised : \A m \in Unharmed(b) :
      MatchesRule(r, m, MethodOf(m)) => \E f \in facts' : f[3] = m

LEMMA FilterContinues ==
  FilterInv /\ [FilterNext]_filterVars => FilterInv' /\ HeardNow
  <1> SUFFICES ASSUME FilterInv, [FilterNext]_filterVars
               PROVE  FilterInv' /\ HeardNow
    OBVIOUS
  <1>1. taken' = taken => HeardNow
    <2>1. taken' = taken /\ taken' = NoBlock => taken.blocks = {}
      BY DEF NoBlock
    <2> QED BY <2>1 DEF HeardNow
  <1>2. ASSUME NEW b \in Block, CopyRules(b)
        PROVE  FilterInv' /\ HeardNow
    <2>1. taken.blocks = {}
      BY <1>2 DEF CopyRules, NoBlock
    <2>2. HeardNow
      BY <2>1 DEF HeardNow
    <2> QED BY <1>2, <2>2, CopyRulesKeeps
  <1>3. CASE ProcessBlock
    BY <1>3, ProcessBlockKeeps DEF HeardNow
  <1>4. ASSUME NEW a \in Account, NEW wish \in Wish, SubscribeAddress(a, wish)
        PROVE  FilterInv' /\ HeardNow
    BY <1>1, <1>4, SubscribeKeeps DEF SubscribeAddress
  <1>5. ASSUME NEW a \in Account, UnsubscribeAddress(a)
        PROVE  FilterInv' /\ HeardNow
    BY <1>1, <1>5, UnsubscribeKeeps DEF UnsubscribeAddress
  <1>6. ASSUME NEW a \in Account, NEW abi \in AbiFile, RegisterAbi(a, abi)
        PROVE  FilterInv' /\ HeardNow
    BY <1>1, <1>6, RegisterKeeps DEF RegisterAbi
  <1>7. CASE UNCHANGED filterVars
    <2>1. FilterInv'
      BY <1>7 DEF filterVars, FilterInv, UnsubscribedIsForgotten
    <2> QED BY <1>1, <1>7, <2>1 DEF filterVars
  <1> QED BY <1>2, <1>3, <1>4, <1>5, <1>6, <1>7 DEF FilterNext

LEMMA FilterTypes == FilterInv => FilterTypeOK
  <1> SUFFICES ASSUME FilterInv
               PROVE  FilterTypeOK
    OBVIOUS
  <1>1. \A r \in PossibleRule : r.addresses \subseteq Account /\ r.types \subseteq MsgType
    BY RuleAssumption DEF PossibleRule, NewRule
  <1>2. \A i \in DOMAIN rules : rules[i] \in PossibleRule
    BY DEF FilterInv
  <1>3. \A b : \A m : Made(b, m)[3] = m
    BY DEF Made
  <1>4. \A f \in facts : f[3] \in UNION {Messages(b) : b \in Block}
    BY <1>3 DEF FilterInv
  <1> QED BY <1>1, <1>2, <1>4 DEF FilterTypeOK, FilterInv

(***************************************************************************)
(* Subscriptions mean what the tools say, whatever they and the decoder do *)
(* in whatever order: see SubscriptionsHold.                               *)
(***************************************************************************)
THEOREM SubscriptionsMeanWhatTheySay == FilterSpec => SubscriptionsHold
  <1>1. FilterInv => FilterTypeOK /\ UnsubscribedIsForgotten
    BY FilterTypes DEF FilterInv
  <1>2. FilterInv /\ [FilterNext]_filterVars
          => [taken' = NoBlock =>
                \A b \in taken.blocks, r \in promised : \A m \in Unharmed(b) :
                  MatchesRule(r, m, MethodOf(m)) => \E f \in facts' : f[3] = m]_filterVars
    BY FilterContinues DEF HeardNow
  <1> QED BY <1>1, <1>2, FilterBegins, FilterContinues, PTL
          DEF FilterSpec, SubscriptionsHold, SubscribedIsHeard

(***************************************************************************)
(* The name of a fact tells the messages of one sender apart, by what the  *)
(* chain promises of logical times.                                        *)
(***************************************************************************)
THEOREM FactsStayApart == FilterSpec => []FactsTellMessagesApart
  <1>1. FilterInv => FactsTellMessagesApart
    <2> SUFFICES ASSUME FilterInv, NEW f \in facts, NEW g \in facts,
                        f[1] = g[1], f[2] = g[2], f[3].src = g[3].src,
                        f[3].type # "ext_in"
                 PROVE  f[3] = g[3]
      BY DEF FactsTellMessagesApart
    <2>1. PICK b \in Block : \E m \in Messages(b) : f = Made(b, m)
      BY DEF FilterInv
    <2>2. PICK c \in Block : \E m \in Messages(c) : g = Made(c, m)
      BY DEF FilterInv
    <2>3. PICK m \in Messages(b) : f = Made(b, m)
      BY <2>1
    <2>4. PICK n \in Messages(c) : g = Made(c, n)
      BY <2>2
    <2>5. /\ f[1] = SourceId(b, m) /\ f[2] = b.thread /\ f[3] = m
          /\ g[1] = SourceId(c, n) /\ g[2] = c.thread /\ g[3] = n
      BY <2>3, <2>4 DEF Made
    <2>6. m.src = n.src /\ m.type # "ext_in" /\ m.src # External /\ n.type # "ext_in"
      BY <2>3, <2>4, <2>5, BlockAssumption
    <2>7. <<b.seqNo, m.lt>> = <<c.seqNo, n.lt>> /\ b.thread = c.thread
      BY <2>5, <2>6 DEF SourceId
    <2>8. b = c /\ m.lt = n.lt
      BY <2>7, BlockAssumption
    <2> QED BY <2>3, <2>4, <2>5, <2>6, <2>8, BlockAssumption
  <1> QED BY <1>1, FilterBegins, FilterContinues, PTL DEF FilterSpec

-----------------------------------------------------------------------------
(* The order book *)

OrderRecord == [price : Price, isBuy : BOOLEAN, at : Nat]

(* Orders are numbered in the order they were placed. *)
InTime(list) ==
  /\ list \in Seq(OrderRecord \cup {Gone})
  /\ \A i, j \in DOMAIN list :
       list[i] # Gone /\ list[j] # Gone /\ i < j => list[i].at <= list[j].at

(***************************************************************************)
(* What is true of the book and its reader at every moment: the reader has *)
(* found the orders it passed, in an image that is in time.                *)
(***************************************************************************)
BookInv ==
  /\ InTime(orders) /\ now \in Nat
  /\ \A i \in DOMAIN orders : orders[i] # Gone => orders[i].at <= now
  /\ InTime(image.orders)
  /\ scan.id \in Nat /\ scan.left \in Nat
  /\ scan.found = {id \in Live(image) : id < scan.id}
  /\ SnapshotIsConsistent

(***************************************************************************)
(* The orders of a book that rest have numbers, prices and times, and      *)
(* there are finitely many.                                                *)
(***************************************************************************)
LEMMA LiveOrders ==
  ASSUME NEW book, InTime(book.orders)
  PROVE  /\ IsFiniteSet(Live(book))
         /\ \A i \in Live(book) :
              /\ i \in Nat /\ i <= Len(book.orders)
              /\ book.orders[i].price \in Nat /\ book.orders[i].at \in Nat
              /\ book.orders[i].isBuy \in BOOLEAN
         /\ \A i, j \in Live(book) :
              i < j => book.orders[i].at <= book.orders[j].at
  <1>1. PICK list : list = book.orders
    OBVIOUS
  <1>2. list \in Seq(OrderRecord \cup {Gone})
    BY <1>1 DEF InTime
  <1>3. PICK n \in Nat : n = Len(list) /\ DOMAIN list = 1..n
    BY <1>2
  <1>4. IsFiniteSet(1..n)
    BY FS_Interval, <1>3
  <1>5. Live(book) \subseteq 1..n
    BY <1>1, <1>3 DEF Live
  <1>6. IsFiniteSet(Live(book))
    BY <1>4, <1>5, FS_Subset
  <1>7. \A i \in Live(book) : list[i] \in OrderRecord
    BY <1>1, <1>2, <1>3, <1>5 DEF Live
  <1>8. \A i \in Live(book) :
          /\ list[i].price \in Nat /\ list[i].at \in Nat /\ list[i].isBuy \in BOOLEAN
    BY <1>7, BookAssumption DEF OrderRecord
  <1>9. \A i, j \in Live(book) : i < j => list[i].at <= list[j].at
    BY <1>1 DEF Live, InTime
  <1> QED BY <1>1, <1>3, <1>5, <1>6, <1>8, <1>9

(***************************************************************************)
(* One side of a book, in the order of Before.                             *)
(***************************************************************************)
LEMMA BeforeIsAnOrder ==
  ASSUME NEW book, InTime(book.orders), NEW isBuy \in BOOLEAN,
         NEW own \in SUBSET Live(book),
         \A i \in own : book.orders[i].isBuy = isBuy
  PROVE  /\ \A i \in own : ~Before(book, i, i)
         /\ \A i, j, k \in own : Before(book, i, j) /\ Before(book, j, k) => Before(book, i, k)
         /\ \A i, j \in own : i # j => Before(book, i, j) \/ Before(book, j, i)
  <1>1. \A i \in own :
          i \in Int /\ book.orders[i].price \in Int /\ book.orders[i].at \in Int
    BY LiveOrders
  <1>2. PICK price \in [own -> Int] : \A i \in own : price[i] = book.orders[i].price
    <2>1. [i \in own |-> book.orders[i].price] \in [own -> Int]
      BY <1>1
    <2> QED BY <2>1
  <1>3. PICK at \in [own -> Int] : \A i \in own : at[i] = book.orders[i].at
    <2>1. [i \in own |-> book.orders[i].at] \in [own -> Int]
      BY <1>1
    <2> QED BY <2>1
  <1>4. CASE isBuy = TRUE
    <2>1. \A i, j \in own :
            Before(book, i, j) <=>
              IF price[i] = price[j] THEN at[i] < at[j] \/ (at[i] = at[j] /\ i < j)
              ELSE price[i] > price[j]
      BY <1>2, <1>3, <1>4 DEF Before
    <2>2. \A i \in own : i \in Int /\ price[i] \in Int /\ at[i] \in Int
      BY <1>1, <1>2, <1>3
    <2> QED BY <2>1, <2>2
  <1>5. CASE isBuy = FALSE
    <2>1. \A i, j \in own :
            Before(book, i, j) <=>
              IF price[i] = price[j] THEN at[i] < at[j] \/ (at[i] = at[j] /\ i < j)
              ELSE price[i] < price[j]
      BY <1>2, <1>3, <1>5 DEF Before
    <2>2. \A i \in own : i \in Int /\ price[i] \in Int /\ at[i] \in Int
      BY <1>1, <1>2, <1>3
    <2> QED BY <2>1, <2>2
  <1> QED BY <1>4, <1>5

LEMMA InOrderOfBefore ==
  ASSUME NEW book, InTime(book.orders), NEW isBuy \in BOOLEAN,
         NEW own \in SUBSET Live(book),
         \A i \in own : book.orders[i].isBuy = isBuy,
         NEW R, \A i, j \in own : <<i, j>> \in R <=> Before(book, i, j),
         NEW side, side = Arranged(own, R)
  PROVE  /\ IsFiniteSet(own) /\ Cardinality(own) \in Nat
         /\ side \in Seq(own) /\ Len(side) = Cardinality(own) /\ ToSet(side) = own
         /\ \A i, j \in 1..Len(side) : i < j => Before(book, side[i], side[j])
  <1>1. IsFiniteSet(own)
    BY LiveOrders, FS_Subset
  <1>2. /\ \A i \in own : ~Before(book, i, i)
        /\ \A i, j, k \in own : Before(book, i, j) /\ Before(book, j, k) => Before(book, i, k)
        /\ \A i, j \in own : i # j => Before(book, i, j) \/ Before(book, j, i)
    BY BeforeIsAnOrder
  <1>3. /\ IsFiniteSet(own)
        /\ \A i \in own : <<i, i>> \notin R
        /\ \A i, j, k \in own : <<i, j>> \in R /\ <<j, k>> \in R => <<i, k>> \in R
        /\ \A i, j \in own : i # j => <<i, j>> \in R \/ <<j, i>> \in R
        /\ side = Arranged(own, R)
    BY <1>1, <1>2
  <1>4. /\ Cardinality(own) \in Nat
        /\ side \in [1..Cardinality(own) -> own]
        /\ \A i \in own : \E k \in 1..Cardinality(own) : side[k] = i
        /\ \A k, l \in 1..Cardinality(own) : k < l <=> <<side[k], side[l]>> \in R
    BY <1>3, ArrangedInOrder
  <1>5. PICK n \in Nat : n = Cardinality(own)
    BY <1>4
  <1>6. /\ side \in [1..n -> own]
        /\ \A i \in own : \E k \in 1..n : side[k] = i
        /\ \A k, l \in 1..n : k < l <=> <<side[k], side[l]>> \in R
    BY <1>4, <1>5
  <1>7. side \in Seq(own) /\ Len(side) = n
    BY <1>6, FunctionIsSeq
  <1>8. /\ DOMAIN side = 1..n /\ \A k \in 1..n : side[k] \in own
    BY <1>6
  <1>9. ToSet(side) = own
    BY <1>6, <1>8 DEF ToSet
  <1>10. \A i, j \in 1..n : i < j => Before(book, side[i], side[j])
    BY <1>6, <1>8
  <1> QED BY <1>1, <1>5, <1>7, <1>9, <1>10

(* side lists, in the order of Before, those of ids that own names. *)
Lists(book, ids, isBuy, own, side) ==
  /\ own \in SUBSET ids /\ \A i \in ids : i \in own <=> book.orders[i].isBuy = isBuy
  /\ IsFiniteSet(own) /\ Cardinality(own) \in Nat
  /\ side = Side(book, ids, isBuy) /\ side \in Seq(own)
  /\ Len(side) = Cardinality(own) /\ ToSet(side) = own
  /\ \A i, j \in 1..Len(side) : i < j => Before(book, side[i], side[j])

LEMMA SidesAre ==
  ASSUME NEW book, InTime(book.orders), NEW ids \in SUBSET Live(book)
  PROVE  \A isBuy \in BOOLEAN : \E own, side : Lists(book, ids, isBuy, own, side)
  <1> TAKE isBuy \in BOOLEAN
  <1>1. PICK own \in SUBSET ids : \A i \in ids : i \in own <=> book.orders[i].isBuy = isBuy
    <2>1. {i \in ids : book.orders[i].isBuy = isBuy} \in SUBSET ids
      OBVIOUS
    <2> QED BY <2>1
  <1>2. own \in SUBSET Live(book) /\ \A i \in own : book.orders[i].isBuy = isBuy
    BY <1>1
  <1>3. PICK R :
          /\ \A i, j \in own : <<i, j>> \in R <=> Before(book, i, j)
          /\ Side(book, ids, isBuy) = Arranged(own, R)
    <2>1. own = {i \in ids : i \in Live(book) /\ book.orders[i].isBuy = isBuy}
      BY <1>1
    <2>2. PICK R : R = {p \in ids \X ids : Before(book, p[1], p[2])}
      OBVIOUS
    <2>3. Side(book, ids, isBuy) = Arranged(own, R)
      BY <2>1, <2>2 DEF Side
    <2>4. \A i, j \in own : <<i, j>> \in R <=> Before(book, i, j)
      BY <2>2
    <2> QED BY <2>3, <2>4
  <1>4. PICK t : t = Side(book, ids, isBuy) /\ t = Arranged(own, R)
    BY <1>3
  <1>5. /\ IsFiniteSet(own) /\ Cardinality(own) \in Nat
        /\ t \in Seq(own) /\ Len(t) = Cardinality(own) /\ ToSet(t) = own
        /\ \A i, j \in 1..Len(t) : i < j => Before(book, t[i], t[j])
    BY <1>2, <1>3, <1>4, InOrderOfBefore
  <1>6. Lists(book, ids, isBuy, own, t)
    BY <1>1, <1>4, <1>5 DEF Lists
  <1> QED BY <1>6

(***************************************************************************)
(* Of two orders of a side at one price the one placed earlier comes       *)
(* first: it has the smaller id.                                           *)
(***************************************************************************)
LEMMA EarlierFirst ==
  ASSUME NEW book, InTime(book.orders), NEW own \in SUBSET Live(book),
         NEW side \in Seq(own),
         \A i, j \in 1..Len(side) : i < j => Before(book, side[i], side[j])
  PROVE  \A i, j \in 1..Len(side) :
           i < j /\ book.orders[side[i]].price = book.orders[side[j]].price
             => side[i] < side[j]
  <1> SUFFICES ASSUME NEW i \in 1..Len(side), NEW j \in 1..Len(side), i < j,
                      book.orders[side[i]].price = book.orders[side[j]].price
               PROVE  side[i] < side[j]
    OBVIOUS
  <1>1. PICK a \in own, b \in own : a = side[i] /\ b = side[j]
    OBVIOUS
  <1>2. Before(book, a, b) /\ book.orders[a].price = book.orders[b].price
    BY <1>1
  <1>3. \/ book.orders[a].at < book.orders[b].at
        \/ book.orders[a].at = book.orders[b].at /\ a < b
    BY <1>2 DEF Before
  <1>4. /\ a \in Live(book) /\ b \in Live(book) /\ a \in Nat /\ b \in Nat
        /\ book.orders[a].at \in Nat /\ book.orders[b].at \in Nat
    BY LiveOrders
  <1>5. b < a => book.orders[b].at <= book.orders[a].at
    BY <1>4, LiveOrders
  <1> QED BY <1>1, <1>3, <1>4, <1>5

LEMMA GreatestIs ==
  ASSUME NEW S, \A q \in S : q \in Nat, NEW p \in S, \A q \in S : p >= q
  PROVE  Max(S) = p
  <1>1. Max(S) \in S /\ \A q \in S : Max(S) >= q
    BY DEF Max
  <1> QED BY <1>1

LEMMA LeastIs ==
  ASSUME NEW S, \A q \in S : q \in Nat, NEW p \in S, \A q \in S : p <= q
  PROVE  Min(S) = p
  <1>1. Min(S) \in S /\ \A q \in S : Min(S) <= q
    BY DEF Min
  <1> QED BY <1>1

(***************************************************************************)
(* A whole side begins with the best price.                                *)
(***************************************************************************)
LEMMA BestFirst ==
  ASSUME NEW book, InTime(book.orders), NEW isBuy \in BOOLEAN,
         NEW own \in SUBSET Live(book),
         \A i \in Live(book) : i \in own <=> book.orders[i].isBuy = isBuy,
         NEW side \in Seq(own), ToSet(side) = own, side # << >>,
         \A i, j \in 1..Len(side) : i < j => Before(book, side[i], side[j])
  PROVE  book.orders[Head(side)].price = BestPrice(book, isBuy)
  <1>1. PICK n \in Nat : n = Len(side) /\ n > 0 /\ DOMAIN side = 1..n
    OBVIOUS
  <1>2. PICK h \in own : h = Head(side) /\ h = side[1]
    BY <1>1
  <1>3. PICK prices :
          /\ prices = {book.orders[i].price : i \in own}
          /\ BestPrice(book, isBuy)
               = IF prices = {} THEN 0 ELSE IF isBuy THEN Max(prices) ELSE Min(prices)
    <2>1. own = {id \in Live(book) : book.orders[id].isBuy = isBuy}
      OBVIOUS
    <2>2. BestPrice(book, isBuy)
            = LET all == {book.orders[i].price :
                            i \in {id \in Live(book) : book.orders[id].isBuy = isBuy}}
              IN  IF all = {} THEN 0 ELSE IF isBuy THEN Max(all) ELSE Min(all)
      BY Zenon DEF BestPrice
    <2>3. {book.orders[i].price :
             i \in {id \in Live(book) : book.orders[id].isBuy = isBuy}}
            = {book.orders[i].price : i \in own}
      BY <2>1
    <2> QED BY <2>2, <2>3, Zenon
  <1>4. PICK best : best = book.orders[h].price
    OBVIOUS
  <1>5. best \in prices /\ prices # {} /\ \A p \in prices : p \in Nat
    BY <1>2, <1>3, <1>4, LiveOrders
  <1>6. \A i \in own : i = h \/ Before(book, h, i)
    <2> SUFFICES ASSUME NEW i \in own, i # h
                 PROVE  Before(book, h, i)
      OBVIOUS
    <2>1. PICK k \in 1..n : side[k] = i
      BY <1>1 DEF ToSet
    <2>2. k # 1
      BY <1>2, <2>1
    <2> QED BY <1>1, <1>2, <2>1, <2>2
  <1>7. CASE isBuy = TRUE
    <2>1. book.orders[h].isBuy = TRUE
      BY <1>2, <1>7
    <2>2. ASSUME NEW i \in own
          PROVE  best >= book.orders[i].price
      <3>1. Before(book, h, i) => best = book.orders[i].price \/ best > book.orders[i].price
        BY <1>4, <2>1 DEF Before
      <3>2. best \in Nat /\ book.orders[i].price \in Nat
        BY <1>4, LiveOrders
      <3> QED BY <1>4, <1>6, <3>1, <3>2
    <2>3. \A q \in prices : best >= q
      BY <1>3, <2>2
    <2>4. BestPrice(book, isBuy) = Max(prices)
      BY <1>3, <1>5, <1>7, Zenon
    <2> QED BY <1>2, <1>4, <1>5, <2>3, <2>4, GreatestIs
  <1>8. CASE isBuy = FALSE
    <2>1. book.orders[h].isBuy = FALSE
      BY <1>2, <1>8
    <2>2. ASSUME NEW i \in own
          PROVE  best <= book.orders[i].price
      <3>1. Before(book, h, i) => best = book.orders[i].price \/ best < book.orders[i].price
        BY <1>4, <2>1 DEF Before
      <3>2. best \in Nat /\ book.orders[i].price \in Nat
        BY <1>4, LiveOrders
      <3> QED BY <1>4, <1>6, <3>1, <3>2
    <2>3. \A q \in prices : best <= q
      BY <1>3, <2>2
    <2>4. BestPrice(book, isBuy) = Min(prices)
      BY <1>3, <1>5, <1>8, Zenon
    <2> QED BY <1>2, <1>4, <1>5, <2>3, <2>4, LeastIs
  <1> QED BY <1>7, <1>8

-----------------------------------------------------------------------------
(***************************************************************************)
(* A reader that has not answered, or failed, shows nothing.               *)
(***************************************************************************)
LEMMA NothingShown ==
  ASSUME NEW answer, answer.of = NoImage, answer.bids = << >>, answer.asks = << >>,
         answer.truncated = FALSE
  PROVE  IsConsistent(answer)
  <1>1. Live(answer.of) = {} /\ ToSet(answer.bids) = {} /\ ToSet(answer.asks) = {}
    BY DEF Live, NoImage, ToSet
  <1>2. ToSet(answer.bids) \cup ToSet(answer.asks) = {}
    BY <1>1
  <1>3. Len(answer.bids) = 0 /\ Len(answer.asks) = 0 /\ Cardinality({}) = 0
    BY FS_EmptySet
  <1>4. \A side \in {answer.bids, answer.asks} : 1..Len(side) = {}
    BY <1>3
  <1>5. Len(answer.bids) + Len(answer.asks)
          = Cardinality(ToSet(answer.bids) \cup ToSet(answer.asks))
    <2>1. Cardinality(ToSet(answer.bids) \cup ToSet(answer.asks)) = 0
      BY <1>2, <1>3, Zenon
    <2> QED BY <1>3, <2>1
  <1> QED BY <1>1, <1>2, <1>4, <1>5 DEF IsConsistent

LEMMA EmptyInTime == InTime(<< >>)
  BY DEF InTime

LEMMA BookBegins == BookInit => BookInv
  <1> SUFFICES ASSUME BookInit
               PROVE  BookInv
    OBVIOUS
  <1>1. SnapshotIsConsistent
    BY NothingShown DEF BookInit, NoSnapshot, SnapshotIsConsistent
  <1>2. /\ InTime(orders) /\ now \in Nat /\ DOMAIN orders = {}
        /\ InTime(image.orders) /\ Live(image) = {}
        /\ scan.id \in Nat /\ scan.left \in Nat /\ scan.found = {}
    BY EmptyInTime DEF BookInit, NoImage, NoScan, Live
  <1>3. {id \in Live(image) : id < scan.id} = {}
    BY <1>2
  <1> QED BY <1>1, <1>2, <1>3 DEF BookInv

LEMMA PlaceOrderKeeps ==
  ASSUME BookInv, NEW isBuy \in BOOLEAN, NEW price \in Price, PlaceOrder(isBuy, price)
  PROVE  BookInv'
  <1>1. PICK o \in OrderRecord : orders' = Append(orders, o) /\ o.at = now
    <2>1. [price |-> price, isBuy |-> isBuy, at |-> now] \in OrderRecord
      BY DEF OrderRecord, BookInv
    <2> QED BY <2>1 DEF PlaceOrder
  <1>2. /\ now \in Nat /\ now' \in Nat /\ now <= now'
        /\ image' = image /\ scan' = scan /\ snapshot' = snapshot
    BY DEF PlaceOrder, BookInv
  <1>3. orders \in Seq(OrderRecord \cup {Gone})
    BY DEF BookInv, InTime
  <1>4. PICK n \in Nat :
          /\ DOMAIN orders = 1..n /\ DOMAIN orders' = 1..(n + 1)
          /\ orders' \in Seq(OrderRecord \cup {Gone})
          /\ \A i \in 1..n : orders'[i] = orders[i]
          /\ orders'[n + 1] = o
    <2>1. orders' \in Seq(OrderRecord \cup {Gone})
      BY <1>1, <1>3
    <2> QED BY <1>1, <1>3, <2>1
  <1>5. \A i \in 1..n : orders[i] # Gone => orders[i].at \in Nat /\ orders[i].at <= now
    BY <1>3, <1>4 DEF BookInv, OrderRecord
  <1>6. \A i \in 1..(n + 1) : i \in 1..n \/ i = n + 1
    OBVIOUS
  <1>7. \A i \in DOMAIN orders' : orders'[i] # Gone => orders'[i].at <= now'
    BY <1>1, <1>2, <1>4, <1>5, <1>6
  <1>8. InTime(orders')
    <2> SUFFICES ASSUME NEW i \in DOMAIN orders', NEW j \in DOMAIN orders',
                        orders'[i] # Gone, orders'[j] # Gone, i < j
                 PROVE  orders'[i].at <= orders'[j].at
      BY <1>4 DEF InTime
    <2>1. i \in 1..n
      BY <1>4
    <2>2. CASE j \in 1..n
      BY <1>4, <2>1, <2>2 DEF BookInv, InTime
    <2>3. CASE j = n + 1
      BY <1>1, <1>4, <1>5, <2>1, <2>3
    <2> QED BY <1>4, <1>6, <2>2, <2>3
  <1>9. InTime(image'.orders) /\ SnapshotIsConsistent'
    BY <1>2 DEF BookInv, SnapshotIsConsistent
  <1>10. /\ scan'.id \in Nat /\ scan'.left \in Nat
         /\ scan'.found = {id \in Live(image') : id < scan'.id}
    BY <1>2 DEF BookInv
  <1> QED BY <1>2, <1>7, <1>8, <1>9, <1>10 DEF BookInv

LEMMA RemoveOrderKeeps ==
  ASSUME BookInv, NEW id, RemoveOrder(id)
  PROVE  BookInv'
  <1>1. /\ orders' = [orders EXCEPT ![id] = Gone]
        /\ now' = now /\ image' = image /\ scan' = scan /\ snapshot' = snapshot
    BY DEF RemoveOrder
  <1>2. orders \in Seq(OrderRecord \cup {Gone}) /\ id \in DOMAIN orders
    BY DEF BookInv, InTime, RemoveOrder, Live
  <1>3. /\ DOMAIN orders' = DOMAIN orders
        /\ \A i \in DOMAIN orders : orders'[i] # Gone => orders'[i] = orders[i]
        /\ orders' \in Seq(OrderRecord \cup {Gone})
    BY <1>1, <1>2
  <1>4. InTime(orders')
    BY <1>3 DEF BookInv, InTime
  <1>5. \A i \in DOMAIN orders' : orders'[i] # Gone => orders'[i].at <= now'
    BY <1>1, <1>3 DEF BookInv
  <1>6. InTime(image'.orders) /\ SnapshotIsConsistent'
    BY <1>1 DEF BookInv, SnapshotIsConsistent
  <1>7. /\ scan'.id \in Nat /\ scan'.left \in Nat
        /\ scan'.found = {i \in Live(image') : i < scan'.id}
    BY <1>1 DEF BookInv
  <1>8. now' \in Nat
    BY <1>1 DEF BookInv
  <1> QED BY <1>4, <1>5, <1>6, <1>7, <1>8 DEF BookInv

LEMMA FailsKeeps ==
  ASSUME BookInv, Fails
  PROVE  BookInv'
  <1>1. SnapshotIsConsistent'
    <2>1. /\ snapshot'.of = NoImage /\ snapshot'.bids = << >> /\ snapshot'.asks = << >>
          /\ snapshot'.truncated = FALSE
      BY DEF Fails, NoSnapshot
    <2> QED BY <2>1, NothingShown DEF SnapshotIsConsistent
  <1>2. /\ InTime(image'.orders) /\ Live(image') = {}
        /\ scan'.id \in Nat /\ scan'.left \in Nat /\ scan'.found = {}
    BY EmptyInTime DEF Fails, NoImage, NoScan, Live
  <1>3. {id \in Live(image') : id < scan'.id} = {}
    BY <1>2
  <1>4. orders' = orders /\ now' = now
    BY DEF Fails
  <1> QED BY <1>1, <1>2, <1>3, <1>4 DEF BookInv

LEMMA FetchBookKeeps ==
  ASSUME BookInv, NEW maxScan \in {1, MAX_PLACED}, FetchBook(maxScan)
  PROVE  BookInv'
  <1>1. orders' = orders /\ now' = now
    BY DEF FetchBook
  <1>2. CASE /\ image' = [orders |-> orders, ownerless |-> ownerless]
             /\ scan' = [id |-> 1, found |-> {}, left |-> maxScan]
             /\ snapshot' = snapshot
    <2>1. InTime(image'.orders)
      BY <1>2 DEF BookInv
    <2>2. maxScan \in Nat
      BY BookAssumption
    <2>3. \A id \in Live(image') : id \in Nat /\ id \in DOMAIN orders
      BY <1>2, <2>1, LiveOrders DEF Live
    <2>4. \A id \in DOMAIN orders : ~(id < 1)
      BY DEF BookInv, InTime
    <2>5. {id \in Live(image') : id < scan'.id} = {}
      BY <1>2, <2>3, <2>4
    <2>6. SnapshotIsConsistent'
      BY <1>2 DEF BookInv, SnapshotIsConsistent
    <2> QED BY <1>1, <1>2, <2>1, <2>2, <2>5, <2>6 DEF BookInv
  <1>3. CASE image' = image /\ scan' = scan /\ snapshot' = snapshot
    BY <1>1, <1>3 DEF BookInv, SnapshotIsConsistent
  <1>4. CASE /\ image' = image /\ scan' = scan
             /\ snapshot' = [NoSnapshot EXCEPT !.status = "not found"]
    <2>1. SnapshotIsConsistent'
      BY <1>4, NothingShown DEF NoSnapshot, SnapshotIsConsistent
    <2> QED BY <1>1, <1>4, <2>1 DEF BookInv
  <1> QED BY <1>2, <1>3, <1>4 DEF FetchBook

LEMMA ProbeOrderKeeps ==
  ASSUME BookInv, ProbeOrder
  PROVE  BookInv'
  <1>1. /\ orders' = orders /\ now' = now /\ image' = image /\ snapshot' = snapshot
        /\ scan'.id = scan.id + 1 /\ scan'.left = scan.left - 1 /\ scan.left > 0
        /\ scan'.found = scan.found \cup (IF scan.id \in Live(image) THEN {scan.id} ELSE {})
    BY DEF ProbeOrder, AnswersOrder, MoreToProbe
  <1>2. /\ scan.id \in Nat /\ scan.left \in Nat
        /\ scan.found = {id \in Live(image) : id < scan.id}
        /\ \A id \in Live(image) : id \in Nat
    BY LiveOrders DEF BookInv
  <1>3. scan'.id \in Nat /\ scan'.left \in Nat
    BY <1>1, <1>2
  <1>4. \A id \in Live(image) : id < scan.id + 1 <=> id < scan.id \/ id = scan.id
    BY <1>2
  <1>5. scan'.found = {id \in Live(image) : id < scan.id + 1}
    BY <1>1, <1>2, <1>4
  <1>6. SnapshotIsConsistent'
    BY <1>1 DEF BookInv, SnapshotIsConsistent
  <1> QED BY <1>1, <1>3, <1>5, <1>6 DEF BookInv

(***************************************************************************)
(* Of the resting orders of an account, some found: what is answered.      *)
(***************************************************************************)
LEMMA AnswerIs ==
  ASSUME NEW book, InTime(book.orders), NEW ids \in SUBSET Live(book),
         NEW answer, answer.of = book,
         answer.bids = Side(book, ids, TRUE), answer.asks = Side(book, ids, FALSE),
         answer.bestBid = BestPrice(book, TRUE), answer.bestAsk = BestPrice(book, FALSE),
         ~answer.truncated => ids = Live(book),
         answer.truncated => answer.exhausted
  PROVE  IsConsistent(answer)
  <1>1. PICK buys, bids : bids = answer.bids /\ Lists(book, ids, TRUE, buys, bids)
    <2>1. PICK buys, bids : Lists(book, ids, TRUE, buys, bids)
      BY SidesAre
    <2>2. bids = Side(book, ids, TRUE)
      BY <2>1 DEF Lists
    <2> QED BY <2>1, <2>2
  <1>2. PICK sells, asks : asks = answer.asks /\ Lists(book, ids, FALSE, sells, asks)
    <2>1. PICK sells, asks : Lists(book, ids, FALSE, sells, asks)
      BY SidesAre
    <2>2. asks = Side(book, ids, FALSE)
      BY <2>1 DEF Lists
    <2> QED BY <2>1, <2>2
  <1>3. buys \cup sells = ids /\ buys \cap sells = {}
    <2>1. \A i \in ids : book.orders[i].isBuy \in BOOLEAN
      BY LiveOrders
    <2>2. \A i \in ids : book.orders[i].isBuy = TRUE \/ book.orders[i].isBuy = FALSE
      BY <2>1
    <2>3. TRUE # FALSE
      OBVIOUS
    <2> QED BY <1>1, <1>2, <2>2, <2>3 DEF Lists
  <1>4. PICK shown : shown = ToSet(answer.bids) \cup ToSet(answer.asks)
    OBVIOUS
  <1>5. shown = ids
    BY <1>1, <1>2, <1>3, <1>4 DEF Lists
  <1>6. Len(bids) + Len(asks) = Cardinality(shown)
    <2>1. /\ Cardinality(buys \cup sells)
              = Cardinality(buys) + Cardinality(sells) - Cardinality(buys \cap sells)
          /\ Cardinality({}) = 0
      BY <1>1, <1>2, FS_Union, FS_EmptySet DEF Lists
    <2>2. Cardinality(shown) = Cardinality(buys) + Cardinality(sells) - 0
      BY <1>3, <1>5, <2>1, Zenon
    <2>3. /\ Len(bids) = Cardinality(buys) /\ Cardinality(buys) \in Nat
          /\ Len(asks) = Cardinality(sells) /\ Cardinality(sells) \in Nat
      BY <1>1, <1>2 DEF Lists
    <2> QED BY <2>2, <2>3
  <1>7. /\ \A i, j \in 1..Len(bids) :
              i < j /\ book.orders[bids[i]].price = book.orders[bids[j]].price
                => bids[i] < bids[j]
        /\ \A i, j \in 1..Len(asks) :
              i < j /\ book.orders[asks[i]].price = book.orders[asks[j]].price
                => asks[i] < asks[j]
    <2>1. buys \in SUBSET Live(book) /\ sells \in SUBSET Live(book)
      BY <1>1, <1>2 DEF Lists
    <2>2. /\ bids \in Seq(buys)
          /\ \A i, j \in 1..Len(bids) : i < j => Before(book, bids[i], bids[j])
      BY <1>1 DEF Lists
    <2>3. /\ asks \in Seq(sells)
          /\ \A i, j \in 1..Len(asks) : i < j => Before(book, asks[i], asks[j])
      BY <1>2 DEF Lists
    <2>4. \A i, j \in 1..Len(bids) :
            i < j /\ book.orders[bids[i]].price = book.orders[bids[j]].price
              => bids[i] < bids[j]
      BY <2>1, <2>2, EarlierFirst
    <2>5. \A i, j \in 1..Len(asks) :
            i < j /\ book.orders[asks[i]].price = book.orders[asks[j]].price
              => asks[i] < asks[j]
      BY <2>1, <2>3, EarlierFirst
    <2> QED BY <2>4, <2>5
  <1>8. ids = Live(book) /\ bids # << >>
           => book.orders[Head(bids)].price = BestPrice(book, TRUE)
    <2> SUFFICES ASSUME ids = Live(book), bids # << >>
                 PROVE  book.orders[Head(bids)].price = BestPrice(book, TRUE)
      OBVIOUS
    <2>1. Lists(book, Live(book), TRUE, buys, bids)
      BY <1>1
    <2>2. \A isBuy \in BOOLEAN : Lists(book, Live(book), isBuy, buys, bids)
            => book.orders[Head(bids)].price = BestPrice(book, isBuy)
      BY BestFirst DEF Lists
    <2> QED BY <2>1, <2>2
  <1>9. ids = Live(book) /\ asks # << >>
           => book.orders[Head(asks)].price = BestPrice(book, FALSE)
    <2> SUFFICES ASSUME ids = Live(book), asks # << >>
                 PROVE  book.orders[Head(asks)].price = BestPrice(book, FALSE)
      OBVIOUS
    <2>1. Lists(book, Live(book), FALSE, sells, asks)
      BY <1>2
    <2>2. \A isBuy \in BOOLEAN : Lists(book, Live(book), isBuy, sells, asks)
            => book.orders[Head(asks)].price = BestPrice(book, isBuy)
      BY BestFirst DEF Lists
    <2> QED BY <2>1, <2>2
  <1>10. \A side \in {answer.bids, answer.asks} :
           \A i, j \in 1..Len(side) :
             /\ i < j
             /\ answer.of.orders[side[i]].price = answer.of.orders[side[j]].price
             => side[i] < side[j]
    BY <1>1, <1>2, <1>7
  <1>11. /\ shown \subseteq Live(answer.of)
         /\ ~answer.truncated => shown = Live(answer.of)
    BY <1>5
  <1>12. ~answer.truncated =>
           /\ answer.bids # << >>
                => answer.of.orders[Head(answer.bids)].price = answer.bestBid
           /\ answer.asks # << >>
                => answer.of.orders[Head(answer.asks)].price = answer.bestAsk
    BY <1>1, <1>2, <1>8, <1>9
  <1>13. Len(answer.bids) + Len(answer.asks) = Cardinality(shown)
    BY <1>1, <1>2, <1>6
  <1> QED BY <1>4, <1>10, <1>11, <1>12, <1>13 DEF IsConsistent

LEMMA TakeSnapshotKeeps ==
  ASSUME BookInv, TakeSnapshot
  PROVE  BookInv'
  <1>1. /\ InTime(image.orders)
        /\ scan.found = {id \in Live(image) : id < scan.id}
        /\ scan.id \in Nat /\ scan.left \in Nat
    BY DEF BookInv
  <1>2. /\ IsFiniteSet(Live(image)) /\ scan.found \in SUBSET Live(image)
        /\ IsFiniteSet(scan.found)
        /\ Cardinality(Live(image)) \in Nat /\ Cardinality(scan.found) \in Nat
    BY <1>1, LiveOrders, FS_Subset, FS_CardinalityType
  <1>3. \/ ~(Cardinality(scan.found) < Cardinality(Live(image)))
        \/ ~(scan.id <= Len(image.orders) + 1)
        \/ ~(scan.left > 0)
    BY DEF TakeSnapshot, MoreToProbe
  <1>4. Cardinality(scan.found) < Cardinality(Live(image)) => scan.left = 0
    <2>1. ASSUME ~(scan.id <= Len(image.orders) + 1)
          PROVE  scan.found = Live(image)
      <3>1. Len(image.orders) \in Nat
        BY <1>1 DEF InTime
      <3>2. \A id \in Live(image) : id \in Nat /\ id <= Len(image.orders)
        BY <1>1, LiveOrders
      <3> QED BY <1>1, <2>1, <3>1, <3>2
    <2>2. scan.found = Live(image) => Cardinality(scan.found) = Cardinality(Live(image))
      OBVIOUS
    <2> QED BY <1>1, <1>2, <1>3, <2>1, <2>2
  <1>5. ~(Cardinality(scan.found) < Cardinality(Live(image))) => scan.found = Live(image)
    <2>1. /\ Cardinality(scan.found) <= Cardinality(Live(image))
          /\ Cardinality(scan.found) = Cardinality(Live(image)) => scan.found = Live(image)
      BY <1>2, FS_Subset
    <2> QED BY <1>2, <2>1
  <1>6. /\ snapshot'.of = image
        /\ snapshot'.bids = Side(image, scan.found, TRUE)
        /\ snapshot'.asks = Side(image, scan.found, FALSE)
        /\ snapshot'.bestBid = BestPrice(image, TRUE)
        /\ snapshot'.bestAsk = BestPrice(image, FALSE)
    BY DEF TakeSnapshot
  <1>7. /\ snapshot'.truncated = (Cardinality(scan.found) < Cardinality(Live(image)))
        /\ snapshot'.exhausted = (scan.left = 0)
    BY DEF TakeSnapshot
  <1>8. /\ ~snapshot'.truncated => scan.found = Live(image)
        /\ snapshot'.truncated => snapshot'.exhausted
    BY <1>4, <1>5, <1>7
  <1>9. SnapshotIsConsistent'
    BY <1>1, <1>2, <1>6, <1>8, AnswerIs DEF SnapshotIsConsistent
  <1>10. /\ InTime(image'.orders) /\ Live(image') = {}
         /\ scan'.id \in Nat /\ scan'.left \in Nat /\ scan'.found = {}
    BY EmptyInTime DEF TakeSnapshot, NoImage, NoScan, Live
  <1>11. {id \in Live(image') : id < scan'.id} = {}
    BY <1>10
  <1>12. orders' = orders /\ now' = now
    BY DEF TakeSnapshot
  <1> QED BY <1>9, <1>10, <1>11, <1>12 DEF BookInv

LEMMA BookContinues == BookInv /\ [BookNext]_bookVars => BookInv'
  <1> SUFFICES ASSUME BookInv, [BookNext]_bookVars
               PROVE  BookInv'
    OBVIOUS
  <1>1. ASSUME UNCHANGED <<orders, now, image, scan, snapshot>>
        PROVE  BookInv'
    BY <1>1 DEF BookInv, SnapshotIsConsistent
  <1>2. ASSUME NEW dapps, Call(dapps)
        PROVE  BookInv'
    BY <1>1, <1>2 DEF Call
  <1>3. CASE UNCHANGED bookVars
    BY <1>1, <1>3 DEF bookVars
  <1>4. CASE FetchFails \/ GetterFails
    BY <1>4, FailsKeeps DEF FetchFails, GetterFails
  <1>5. ASSUME NEW price \in Price, NEW isBuy \in BOOLEAN, PlaceOrder(isBuy, price)
        PROVE  BookInv'
    BY <1>5, PlaceOrderKeeps
  <1> QED BY <1>2, <1>3, <1>4, <1>5, RemoveOrderKeeps, FetchBookKeeps, ProbeOrderKeeps,
             TakeSnapshotKeeps DEF BookNext

(***************************************************************************)
(* A snapshot of the order book is one of the account as it was fetched,   *)
(* whole unless it says it is not, and in price-time priority.             *)
(***************************************************************************)
THEOREM SnapshotsAreConsistent == BookSpec => []SnapshotIsConsistent
  <1>1. BookInv => SnapshotIsConsistent
    BY DEF BookInv
  <1> QED BY <1>1, BookBegins, BookContinues, PTL DEF BookSpec
=============================================================================
