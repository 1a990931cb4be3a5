----------------------------- MODULE Arrangement -----------------------------
(***************************************************************************)
(* Finite sets put in order, and the entries of a sequence at some of its  *)
(* positions: what sort_by makes of a list, and what retain and filter     *)
(* leave of one, in its order.                                             *)
(***************************************************************************)
EXTENDS Integers, Sequences, FiniteSets

(* The elements of S in the order of R, a set of pairs. *)
Arranged(S, R) ==
  CHOOSE f \in [1..Cardinality(S) -> S] :
    \A k, l \in DOMAIN f : k < l <=> <<f[k], f[l]>> \in R

(* Positions, the first one first. *)
Ascending(S) ==
  CHOOSE f \in [1..Cardinality(S) -> S] :
    \A k, l \in DOMAIN f : k < l <=> f[k] < f[l]

(* The entries of s at the positions in S. *)
Selected(s, S) ==
  LET places == Ascending(S)
  IN  [k \in DOMAIN places |-> s[places[k]]]
=============================================================================
