----------------------------- MODULE EventFeed -----------------------------
(***************************************************************************)
(* What a subscription to an account's events promises (the comment on     *)
(* sdk/client.rs: subscribe_events), with no pages, cursors, buffers or    *)
(* failing reads: from the start of the account's log, every event of the  *)
(* subscriber's own family, once and in order, and each of them in the     *)
(* end, as long as the account can be found where it is looked for.        *)
(***************************************************************************)
EXTENDS Naturals, Sequences, SequencesExt

CONSTANT Message   \* what an account can emit

VARIABLES
  log,         \* what it has emitted
  delivered,   \* positions yielded since the subscription began
  routed,      \* whether the account is found where it is looked for
  decodable    \* the messages that are events of the subscriber's family

feedVars == <<log, delivered, routed, decodable>>
given == <<routed, decodable>>

(* The positions in the log of the family's events. *)
Wanted == SelectSeq([i \in 1..Len(log) |-> i], LAMBDA i : log[i] \in decodable)

FeedInit ==
  /\ log = << >> /\ delivered = << >>
  /\ routed \in BOOLEAN /\ decodable \subseteq Message

Emitted == (\E m \in Message : log' = Append(log, m)) /\ UNCHANGED <<delivered, given>>

Delivered ==
  /\ routed /\ Len(delivered) < Len(Wanted)
  /\ delivered' = Append(delivered, Wanted[Len(delivered) + 1])
  /\ UNCHANGED <<log, given>>

(* A new subscription starts again. *)
Restarted == delivered' = << >> /\ UNCHANGED <<log, given>>

FeedNext == Emitted \/ Delivered \/ Restarted

FeedSpec == FeedInit /\ [][FeedNext]_feedVars /\ WF_feedVars(Delivered)
=============================================================================
