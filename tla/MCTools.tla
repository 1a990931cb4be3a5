------------------------------- MODULE MCTools -------------------------------
(***************************************************************************)
(* Small instances, side by side, of what a tool call goes through: the    *)
(* server's gate and dispatch, the clients of gosh.memory, the message     *)
(* filter, and the tools for keys and wallets, manifests, payments and the *)
(* order book.  They share no state, so each behaviour picks one part at   *)
(* the start and is a behaviour of that part; the others stay where they   *)
(* begin.                                                                  *)
(***************************************************************************)
EXTENDS MessageFilter, McpServer, McpSession, WalletKeys, RegistryPayments,
        OrderBook, ManifestStore, TLC

Part == {"filter", "server", "session", "keys", "payments", "book", "manifest"}

VARIABLE part

(* Where a part may begin in several ways, only its own behaviours differ. *)
ToolsInit ==
  /\ part \in Part
  /\ FilterInit /\ ServerInit /\ SessionInit /\ KeysInit /\ PaymentsInit
  /\ BookInit /\ ManifestInit
  /\ part # "server" => mode = "Full"
  /\ part # "book" => livesIn = "own"

FilterMoves == part = "filter" /\ FilterNext
  /\ UNCHANGED <<serverVars, sessionVars, keyVars, paymentVars, bookVars, manifestVars>>
ServerMoves == part = "server" /\ ServerNext
  /\ UNCHANGED <<filterVars, sessionVars, keyVars, paymentVars, bookVars, manifestVars>>
SessionMoves == part = "session" /\ SessionNext
  /\ UNCHANGED <<filterVars, serverVars, keyVars, paymentVars, bookVars, manifestVars>>
KeysMoves == part = "keys" /\ KeysNext
  /\ UNCHANGED <<filterVars, serverVars, sessionVars, paymentVars, bookVars, manifestVars>>
PaymentsMoves == part = "payments" /\ PaymentsNext
  /\ UNCHANGED <<filterVars, serverVars, sessionVars, keyVars, bookVars, manifestVars>>
BookMoves == part = "book" /\ BookNext
  /\ UNCHANGED <<filterVars, serverVars, sessionVars, keyVars, paymentVars, manifestVars>>
ManifestMoves == part = "manifest" /\ ManifestNext
  /\ UNCHANGED <<filterVars, serverVars, sessionVars, keyVars, paymentVars, bookVars>>

ToolsNext ==
  /\ \/ FilterMoves \/ ServerMoves \/ SessionMoves \/ KeysMoves
     \/ PaymentsMoves \/ BookMoves \/ ManifestMoves
  /\ UNCHANGED part

toolsVars == <<part, filterVars, serverVars, sessionVars, keyVars, paymentVars,
               bookVars, manifestVars>>

ToolsSpec == ToolsInit /\ [][ToolsNext]_toolsVars

-----------------------------------------------------------------------------
(* Message filter: two messages sent at one logical time and the same one  *)
(* seen from both ends; an ABI that is registered late, and a rule of the  *)
(* filter file for two addresses.  Damage of every kind, each with         *)
(* something legible after it: an outbound and an inbound message and a    *)
(* transaction that do not parse, and cells that cannot be opened.         *)

Msg(type, src, dst, lt, id) ==
  [type |-> type, src |-> src, dst |-> dst, lt |-> lt, id |-> id]

Tx(in, out) == [root |-> "parsed", in |-> in, out |-> out]

TwoBlocks ==
  {[seqNo |-> 1, thread |-> "t0", accounts |->
      << << Tx(<<Msg("ext_in", External, "a1", 0, "f")>>,
               <<BadCell, Msg("internal", "a1", "a2", 5, "g"),
                 Msg("internal", "a1", "a3", 6, "g")>>),
            [Tx(<<BadCell>>, << >>) EXCEPT !.root = "unreadable"],
            Tx(<<BadCell>>, <<Msg("ext_out", "a1", External, 9, "e")>>) >>,
         << Tx(<<Msg("internal", "a1", "a2", 5, "g")>>,
               <<Msg("internal", "a2", "a1", 2, "g"), LostCell,
                 Msg("internal", "a2", "a1", 4, "g")>>),
            Tx(<<LostCell>>, <<Msg("internal", "a2", "a3", 6, "g")>>),
            Tx(<<Msg("internal", "a1", "a2", 3, "f")>>, << >>) >>,
         << Tx(<<Msg("internal", "a3", "a1", 5, "f")>>, << >>) >> >>],
   [seqNo |-> 2, thread |-> "t0", accounts |->
      << << [Tx(<< >>, << >>) EXCEPT !.root = "unloadable"],
            Tx(<<Msg("internal", "a3", "a1", 1, "f")>>, << >>) >>,
         << Tx(<<Msg("internal", "a1", "a2", 7, "f")>>,
               <<Msg("ext_out", "a2", External, 8, "e")>>),
            Tx(<<Msg("internal", "a1", "a2", 6, "g")>>, << >>) >> >>]}

OneAbi == {("f" :> "fund") @@ ("g" :> "get")}
OtherAbi == << ("f" :> "other") >>
AllOrFunding == {[types |-> {}, methods |-> {}],
                 [types |-> {"internal"}, methods |-> {"fund"}]}
SharedRule == << [addresses |-> {"a1", "a2"}, types |-> {"internal"}, methods |-> {}] >>

-----------------------------------------------------------------------------
(* MCP server: a token of two bytes; headers without it, and around it.    *)

TwoBytes == <<"x", "y">>
Around == {<< >>, <<"x">>, <<"x", "y">>, <<"x", "z">>, <<"x", "y", "z">>}

(* Wallet keys: two of the three roles, in order.                          *)
TwoRoles == <<"agent", "controller">>

(* Manifest: a package replaced by a shorter one.                          *)
Shrinking == [w \in {"first", "second"} |-> IF w = "first" THEN <<"a", "b">> ELSE <<"c">>]
=============================================================================
