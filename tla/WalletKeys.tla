----------------------------- MODULE WalletKeys -----------------------------
(***************************************************************************)
(* The keys of one wallet id in gosh.memory and the wallets deployed with  *)
(* them (mcp/tools.rs: create_keys, deploy_wallet; mcp/airegistry.rs:      *)
(* deploy_buyer, resolve_wallet; SwarmRoot.sol: deployWallet).  A write or *)
(* a send may fail, or be carried out without its answer; the process may  *)
(* crash between any two.                                                  *)
(***************************************************************************)
EXTENDS Naturals, Sequences

CONSTANTS
  Worker,       \* tool calls that may run at once
  Roles,        \* the roles, in the order deploy_buyer goes through them
  MAX_PAIRS,    \* bound: key pairs generated
  MAX_WALLETS   \* bound: wallets on chain

ASSUME RolesAssumption ==
  Len(Roles) \in Nat \ {0} /\ DOMAIN Roles = 1..Len(Roles)

Missing == 0

VARIABLES
  keys,       \* keys["priv"][i], keys["pub"][i]: pair stored for role i
  pairs,      \* key pairs generated
  wallets,    \* the chain: wallets SwarmRoot deployed, [owners, confirms]
  metadata,   \* WALLET_METADATA_KIND: index of the wallet named, or Missing
  operWallet, \* KIND_OPER_WALLET: likewise
  work,       \* per worker, where its call stands
  rekeyed     \* history: a role was given keys twice, or by two calls at once

keyVars == <<keys, pairs, wallets, metadata, operWallet, work, rekeyed>>
pointers == <<metadata, operWallet>>

Waiting == [at |-> "idle", tool |-> "", role |-> 1, pair |-> Missing,
            owners |-> << >>, confirms |-> 0, wallet |-> Missing]

KeysInit ==
  /\ keys = [kind \in {"priv", "pub"} |-> [i \in DOMAIN Roles |-> Missing]]
  /\ pairs = 0 /\ wallets = << >>
  /\ metadata = Missing /\ operWallet = Missing
  /\ work = [t \in Worker |-> Waiting]
  /\ rekeyed = FALSE

Goes(t, w) == work' = [work EXCEPT ![t] = w]
Ends(t) == Goes(t, Waiting)

-----------------------------------------------------------------------------
(* create_keys *)

KindOrder_PublicFirst == <<"pub", "priv">>

KindOrder == <<"priv", "pub">>

NewPair(t, w) ==
  /\ pairs < MAX_PAIRS
  /\ pairs' = pairs + 1
  /\ Goes(t, [w EXCEPT !.at = KindOrder[1], !.pair = pairs'])

CreateKeys(t, i) ==
  /\ work[t].at = "idle"
  /\ NewPair(t, [Waiting EXCEPT !.tool = "create_keys", !.role = i])
  /\ UNCHANGED <<keys, wallets, pointers, rekeyed>>

(* One of the two upserts; an error ends the call, written or not. *)
PutKey(t, kind) ==
  LET w == work[t]
      stored == [keys EXCEPT ![kind][w.role] = w.pair]
      others == {u \in Worker \ {t} : work[u].at \in {"priv", "pub"}
                                      /\ work[u].role = w.role}
      again == kind = KindOrder[1] /\ keys[KindOrder[2]][w.role] # Missing
  IN  /\ w.at = kind
      /\ rekeyed' = (rekeyed \/ others # {} \/ again)
      /\ \/ keys' \in {keys, stored} /\ Ends(t)
         \/ /\ keys' = stored
            /\ CASE kind = KindOrder[1] -> Goes(t, [w EXCEPT !.at = KindOrder[2]])
                 [] kind = KindOrder[2] /\ w.tool = "deploy_buyer" ->
                      Goes(t, [w EXCEPT !.at = "look", !.role = @ + 1])
                 [] OTHER -> Ends(t)
      /\ UNCHANGED <<pairs, wallets, pointers>>

-----------------------------------------------------------------------------
(* deploy_buyer, deploy_wallet *)

DeployBuyer(t) ==
  /\ work[t].at = "idle"
  /\ Goes(t, [Waiting EXCEPT !.at = "look", !.tool = "deploy_buyer", !.confirms = 1])
  /\ UNCHANGED <<keys, pairs, wallets, pointers, rekeyed>>

(* A role whose public key is stored keeps its keys. *)
LookForKey(t) ==
  LET w == work[t]
  IN  /\ w.at = "look"
      /\ \/ /\ w.role > Len(Roles)
            /\ Goes(t, [w EXCEPT !.at = "read", !.role = 1]) /\ UNCHANGED pairs
         \/ /\ w.role <= Len(Roles) /\ keys["pub"][w.role] # Missing
            /\ Goes(t, [w EXCEPT !.role = @ + 1]) /\ UNCHANGED pairs
         \/ /\ w.role <= Len(Roles) /\ keys["pub"][w.role] = Missing
            /\ NewPair(t, w)
      /\ UNCHANGED <<keys, wallets, pointers, rekeyed>>

(* req_confirms is 2 unless asked for, and 1..3. *)
DeployWallet(t, confirms) ==
  /\ work[t].at = "idle"
  /\ Goes(t, [Waiting EXCEPT !.at = "read", !.tool = "deploy_wallet",
                             !.confirms = confirms])
  /\ UNCHANGED <<keys, pairs, wallets, pointers, rekeyed>>

(* The public keys are read one after another. *)
ReadOwner(t) ==
  LET w == work[t]
  IN  /\ w.at = "read"
      /\ IF keys["pub"][w.role] = Missing THEN Ends(t)
         ELSE Goes(t, [w EXCEPT !.owners = Append(@, keys["pub"][w.role]),
                                !.at = IF w.role = Len(Roles) THEN "send" ELSE "read",
                                !.role = @ + 1])
      /\ UNCHANGED <<keys, pairs, wallets, pointers, rekeyed>>

(* SwarmRoot salts the code with the count of its wallets, so each message *)
(* deploys a wallet of its own.  Without exit code 0 and an address in the *)
(* answer the call ends, whatever happened on chain.                       *)
SendDeploy(t) ==
  LET w == work[t]
      deployed == Append(wallets, [owners |-> w.owners, confirms |-> w.confirms])
  IN  /\ w.at = "send" /\ Len(wallets) < MAX_WALLETS
      /\ \/ wallets' \in {wallets, deployed} /\ Ends(t)
         \/ wallets' = deployed
            /\ Goes(t, [w EXCEPT !.at = "name", !.wallet = Len(deployed)])
      /\ UNCHANGED <<keys, pairs, pointers, rekeyed>>

PutMetadata(t) ==
  LET w == work[t]
  IN  /\ w.at = "name"
      /\ \/ metadata' \in {metadata, w.wallet} /\ Ends(t)
         \/ /\ metadata' = w.wallet
            /\ IF w.tool = "deploy_buyer" THEN Goes(t, [w EXCEPT !.at = "point"])
               ELSE Ends(t)
      /\ UNCHANGED <<keys, pairs, wallets, operWallet, rekeyed>>

(* put_oper_wallet; fold_persist reports a failure and keeps the result. *)
PutOperWallet(t) ==
  /\ work[t].at = "point"
  /\ operWallet' \in {operWallet, work[t].wallet}
  /\ Ends(t)
  /\ UNCHANGED <<keys, pairs, wallets, metadata, rekeyed>>

CrashTools ==
  /\ \E t \in Worker : work[t] # Waiting
  /\ work' = [t \in Worker |-> Waiting]
  /\ UNCHANGED <<keys, pairs, wallets, pointers, rekeyed>>

KeysNext ==
  \/ \E t \in Worker :
       \/ \E i \in DOMAIN Roles : CreateKeys(t, i)
       \/ \E kind \in {"priv", "pub"} : PutKey(t, kind)
       \/ DeployBuyer(t) \/ LookForKey(t)
       \/ \E confirms \in 2..Len(Roles) : DeployWallet(t, confirms)
       \/ ReadOwner(t) \/ SendDeploy(t) \/ PutMetadata(t) \/ PutOperWallet(t)
  \/ CrashTools

KeysSpec == KeysInit /\ [][KeysNext]_keyVars

-----------------------------------------------------------------------------
(* Properties *)

(* resolve_wallet: the operational wallet's pointer, then the metadata. *)
Resolved == IF operWallet # Missing THEN operWallet ELSE metadata

(***************************************************************************)
(* Whatever fails and wherever the process crashes, every wallet on chain  *)
(* can be operated with the secrets stored: no wallet is ever deployed for *)
(* a public key whose secret is gone.  This holds as long as no role is    *)
(* given keys twice: create_keys overwrites, in two writes that can        *)
(* interleave with another call's or be cut short by a crash.              *)
(***************************************************************************)
WalletsOperable ==
  ~rekeyed => \A i \in DOMAIN wallets : wallets[i].owners = keys["priv"]

(***************************************************************************)
(* An id under which deploy_buyer has recorded a buyer wallet keeps        *)
(* resolving to one that spends with a single signature, even if a         *)
(* governed wallet is later deployed under the same id.                    *)
(***************************************************************************)
BuyersStayAutonomous ==
  operWallet # Missing => wallets[Resolved].confirms = 1

(***************************************************************************)
(* Whatever fails half way, the wallets of an id can be operated, and one  *)
(* that was deployed to spend alone goes on doing so.                      *)
(***************************************************************************)
WalletsStayUsable == WalletsOperable /\ BuyersStayAutonomous
=============================================================================
