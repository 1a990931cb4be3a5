------------------------------ MODULE McpServer ------------------------------
(***************************************************************************)
(* The MCP server in front of the tools (mcp/mod.rs, mcp/tools.rs): the    *)
(* token every request but /health must carry, the tools a mode serves,    *)
(* and the dispatch of a call.  A call runs through the resources its tool *)
(* uses, one after another, and stops at the first that is missing or      *)
(* fails.  The gate reads nothing another call changes, so one call at a   *)
(* time is enough here.                                                    *)
(***************************************************************************)
EXTENDS Naturals, Sequences

CONSTANTS
  ServerToken,   \* x-server-token, as the sequence of its bytes
  Header         \* values of that header a request may carry

ASSUME TokenAssumption ==
  \A h \in Header \cup {ServerToken} : h \in Seq({h[i] : i \in DOMAIN h})

VARIABLES
  mode,       \* AppState.mode; Full alone has the gosh.memory clients
  request,    \* the request being served, or NoRequest
  rest,       \* the resources its tool has still to use
  answer,     \* the answer to it, "" before
  touched     \* history: <<resource, header>> of everything changed or read

serverVars == <<mode, request, rest, answer, touched>>

NoRequest == [header |-> << >>, method |-> "", tool |-> "", keys |-> FALSE]

-----------------------------------------------------------------------------
(* Tools *)

LocalTools ==
  {"subscribe_address", "unsubscribe_address", "list_subscriptions",
   "register_abi", "create_keys", "get_wallet_status", "set_wallet_policy",
   "get_wallet_policy", "deploy_wallet", "send_transaction",
   "confirm_transaction"}

CreatorTools ==
  {"call_contract", "deploy_contract", "deploy_super_root", "register_model",
   "set_manifest", "get_manifest", "list_marketplace", "create_token_lot",
   "bill_session", "replenish", "set_endpoint", "withdraw_shell",
   "destroy_lot", "get_lot"}

ConsumerTools ==
  {"resolve_model", "deploy_buyer", "fund_buyer", "buy_tokens", "cancel",
   "get_entitlement", "prepare_user_buy_tokens", "prepare_user_cancel",
   "verify_payment_readiness"}

ReadOnlySafe ==
  {"call_contract", "resolve_model", "get_manifest", "get_lot",
   "get_entitlement", "list_marketplace", "verify_payment_readiness"}

StatelessPaymentTool == {"prepare_user_buy_tokens", "prepare_user_cancel"}

(* reject_key_material: whatever the mode, and by the argument's name. *)
RejectsKeys == StatelessPaymentTool \cup {"verify_payment_readiness"}

(* tool_served. *)
Served(m, tool) ==
  \/ m = "Full"
  \/ tool \in ReadOnlySafe
  \/ m = "StatelessPayments" /\ tool \in StatelessPaymentTool

Advertised_WithSigner(m) ==
  [tool : {u \in LocalTools \cup CreatorTools \cup ConsumerTools : Served(m, u)},
   keys : BOOLEAN]

(* list_tools, as pairs of a tool and whether its schema offers a signer   *)
(* of gosh.memory where the tool can do without: call_contract alone.      *)
Advertised(m) ==
  [tool : {u \in LocalTools \cup CreatorTools \cup ConsumerTools : Served(m, u)},
   keys : {FALSE}]
  \cup {[tool |-> "call_contract", keys |-> m = "Full"]}

(* What a tool uses, in order: "memory" is any client of gosh.memory,      *)
(* "limiter" a slot of the rate limiter, "send" a message to the chain.    *)
Uses(tool, keys) ==
  CASE tool \in {"subscribe_address", "unsubscribe_address", "register_abi"} ->
         <<"filter">>
    [] tool \in {"create_keys", "get_wallet_status", "set_wallet_policy",
                 "get_wallet_policy"} -> <<"memory">>
    [] tool = "send_transaction" -> <<"limiter", "memory", "send">>
    [] tool \in {"confirm_transaction", "fund_buyer", "buy_tokens", "cancel"} ->
         <<"memory", "limiter", "memory", "send">>
    [] tool \in {"deploy_wallet", "deploy_buyer", "deploy_super_root",
                 "register_model", "create_token_lot", "set_manifest"} ->
         <<"memory", "send", "memory">>
    [] \/ tool = "call_contract" /\ keys
       \/ tool \in {"deploy_contract", "bill_session", "replenish",
                    "set_endpoint", "withdraw_shell", "destroy_lot"} ->
         <<"memory", "send">>
    [] OTHER -> << >>

-----------------------------------------------------------------------------
(* Requests *)

(* auth_middleware: equal lengths, and no byte that differs. *)
Authorized(header) ==
  /\ Len(header) = Len(ServerToken)
  /\ \A i \in DOMAIN header : header[i] = ServerToken[i]

(* AppState::new, new_read_only or new_stateless_payments. *)
ServerInit ==
  /\ mode \in {"Full", "ReadOnly", "StatelessPayments"}
  /\ request = NoRequest /\ rest = << >> /\ answer = "" /\ touched = {}

Requests ==
  [header : Header, method : {"tools/call"},
   tool : LocalTools \cup CreatorTools \cup ConsumerTools \cup {"no_such_tool"},
   keys : BOOLEAN]
  \cup [header : Header, method : {"initialize", "tools/list", "resources/list"},
        tool : {""}, keys : {FALSE}]

(* What handle_rpc and call_tool answer before any tool runs, or "". *)
Refusal(r) ==
  CASE ~Authorized(r.header) -> "unauthorized"
    [] r.method \in {"initialize", "tools/list"} -> "ok"
    [] r.method = "resources/list" -> "method not found"
    [] ~Served(mode, r.tool) -> "unavailable"
    [] mode # "Full" /\ r.tool = "call_contract" /\ r.keys -> "unavailable"
    [] r.tool = "no_such_tool" -> "unknown tool"
    [] r.tool \in RejectsKeys /\ r.keys -> "key material"
    [] OTHER -> ""

HandleRpc(r) ==
  /\ request = NoRequest \/ answer # ""
  /\ request' = r
  /\ answer' = Refusal(r)
  /\ rest' = IF Refusal(r) = "" THEN Uses(r.tool, r.keys) ELSE << >>
  /\ UNCHANGED <<mode, touched>>

(* The next resource: the accessors of AppState fail without gosh.memory,  *)
(* and any other use may fail.                                             *)
CallUses ==
  /\ request # NoRequest /\ answer = "" /\ rest # << >>
  /\ IF Head(rest) = "memory" /\ mode # "Full"
     THEN answer' = "memory required" /\ UNCHANGED touched
     ELSE /\ touched' = touched \cup {<<Head(rest), request.header>>}
          /\ answer' \in {"", "failed"}
  /\ rest' = Tail(rest)
  /\ UNCHANGED <<mode, request>>

CallReturns ==
  /\ request # NoRequest /\ answer = "" /\ rest = << >>
  /\ answer' = "ok"
  /\ UNCHANGED <<mode, request, rest, touched>>

ServerNext == (\E r \in Requests : HandleRpc(r)) \/ CallUses \/ CallReturns

ServerSpec == ServerInit /\ [][ServerNext]_serverVars

-----------------------------------------------------------------------------
(* Properties *)

(***************************************************************************)
(* tools/list is an honest contract.  No tool a mode advertises, called    *)
(* with arguments its schema offers, is ever refused for want of           *)
(* gosh.memory, however far into its work the tool needs it; a call it     *)
(* does not advertise is never carried out, and without gosh.memory no     *)
(* part of one is: nothing is signed, sent or stored, no slot of the rate  *)
(* limiter is taken, no filter changed.  And whatever the header holds -   *)
(* nothing, a prefix of the token, a longer string - no tool runs for it.  *)
(***************************************************************************)
HonestContract ==
  LET listed == [tool |-> request.tool, keys |-> request.keys] \in Advertised(mode)
      optional == request.tool # "call_contract" /\ request.keys
  IN  /\ request.method = "tools/call" /\ request.tool # "no_such_tool" =>
           /\ listed => answer \notin {"unavailable", "memory required"}
           /\ answer = "ok" => listed \/ optional
      /\ mode # "Full" => touched = {}
      /\ \A use \in touched : use[2] = ServerToken
=============================================================================
