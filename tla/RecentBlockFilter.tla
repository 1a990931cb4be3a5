-------------------------- MODULE RecentBlockFilter --------------------------
(***************************************************************************)
(* decoder/dedup.rs: the filter that drops a block received a second time, *)
(* over another connection or after a reconnect.  A hash set answers the   *)
(* question; a queue of the same hashes in order of arrival says which one *)
(* to forget when the filter is full.                                      *)
(***************************************************************************)
EXTENDS Integers, Sequences, Functions

CONSTANTS
  Hash,      \* block hashes
  CAPACITY   \* hashes remembered

ASSUME CapacityAssumption == CAPACITY \in Nat

EmptyFilter == [set |-> {}, order |-> << >>]

IsNew(filter, hash) == hash \notin filter.set

(***************************************************************************)
(* Operators whose name carries a suffix are plausible bugs used to check  *)
(* that the properties can fail; the specification does not use them.      *)
(***************************************************************************)
MakeRoom_OneEarly(filter) ==
  IF Len(filter.order) + 1 >= CAPACITY /\ filter.order # << >>
  THEN [set |-> filter.set \ {Head(filter.order)}, order |-> Tail(filter.order)]
  ELSE filter

(***************************************************************************)
(* At capacity the oldest hash is forgotten.  pop_front of an empty queue  *)
(* is None, so a filter of capacity 0 still remembers one hash.            *)
(***************************************************************************)
MakeRoom(filter) ==
  IF Len(filter.order) >= CAPACITY /\ filter.order # << >>
  THEN [set |-> filter.set \ {Head(filter.order)}, order |-> Tail(filter.order)]
  ELSE filter

(* check_and_insert of a new hash; a known one leaves the filter as it is. *)
Insert(filter, hash) ==
  LET room == MakeRoom(filter)
  IN  [set |-> room.set \cup {hash}, order |-> Append(room.order, hash)]
=============================================================================
