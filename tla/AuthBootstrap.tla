---------------------------- MODULE AuthBootstrap ----------------------------
(***************************************************************************)
(* Starting the memory-backed agent (main.rs, client/auth.rs,              *)
(* client/sealed_secrets.rs): the bootstrap file an operator leaves, the   *)
(* memory-auth file made from it, the registration of the public key and   *)
(* the binding of the MCP port.  The process may crash between any two     *)
(* steps and is started again, with the bootstrap file or with the secret  *)
(* in the environment.  A generation is one join token and one X25519 key. *)
(***************************************************************************)
EXTENDS Naturals

CONSTANTS
  LAST_GENERATION,   \* bound: bootstrap files the operator writes
  MAX_STARTS         \* bound: starts of the process

ASSUME GenerationAssumption == LAST_GENERATION \in Nat

Absent == 0

VARIABLES
  bootFile,    \* the bootstrap file: [gen, good], good if the file is valid
  authFile,    \* memory-auth.json: the generation saved
  tmpFile,     \* the temporary file it is written to
  step,        \* where the process stands, "down" when it does not run
  auth,        \* generation of auth_state in memory
  secret,      \* generation of the X25519 secret in memory
  registered,  \* gosh.memory: the key registered for the principal
  resolved,    \* whether the last sealed secret asked for could be opened
  warned,      \* this start logged that the registration failed
  written,     \* history: valid generations written; refused ones: spoiled
  spoiled,
  serving,     \* history: generations a process has served MCP with
  starts

authVars == <<bootFile, authFile, tmpFile, step, auth, secret, registered,
              resolved, warned, written, spoiled, serving, starts>>
disk == <<bootFile, authFile, tmpFile>>
memoryState == <<auth, secret>>
history == <<written, spoiled, serving, starts>>

NoFile == [gen |-> Absent, good |-> FALSE]

AuthInit ==
  /\ bootFile = NoFile /\ authFile = Absent /\ tmpFile = Absent
  /\ step = "down" /\ auth = Absent /\ secret = Absent
  /\ registered = Absent /\ resolved = "" /\ warned = FALSE
  /\ written = {} /\ spoiled = {} /\ serving = {} /\ starts = 0

-----------------------------------------------------------------------------
(* The operator writes a bootstrap file, or one that decode_secret_key or  *)
(* JoinToken::decode refuses: no principal token, or a key of wrong size.  *)
WriteBootstrap(g, good) ==
  /\ bootFile = NoFile /\ g \notin written \cup spoiled
  /\ \A h \in written \cup spoiled : h < g
  /\ bootFile' = [gen |-> g, good |-> good]
  /\ written' = IF good THEN written \cup {g} ELSE written
  /\ spoiled' = IF good THEN spoiled ELSE spoiled \cup {g}
  /\ UNCHANGED <<authFile, tmpFile, step, memoryState, registered, resolved,
                 warned, serving, starts>>

ReplaceSpoiled ==
  /\ bootFile.gen \in spoiled
  /\ bootFile' = NoFile
  /\ UNCHANGED <<authFile, tmpFile, step, memoryState, registered, resolved,
                 warned, history>>

-----------------------------------------------------------------------------
(* main: a filter file that cannot be read or parsed, or an embedded       *)
(* contract whose code hash is not the configured one, ends the start      *)
(* before the authentication is touched.                                   *)
PreflightFails ==
  /\ step = "down" /\ starts < MAX_STARTS
  /\ starts' = starts + 1
  /\ warned' = FALSE /\ resolved' = ""
  /\ UNCHANGED <<disk, memoryState, step, registered, written, spoiled, serving>>

(* resolve_auth *)

Accepted == bootFile # NoFile /\ bootFile.good

(* With --bootstrap-file: the file is read and decoded before anything is  *)
(* written; a file that is missing or refused ends the start.              *)
StartFromBootstrap ==
  /\ step = "down" /\ starts < MAX_STARTS
  /\ starts' = starts + 1
  /\ IF Accepted
     THEN auth' = bootFile.gen /\ secret' = bootFile.gen /\ step' = "save"
     ELSE UNCHANGED <<auth, secret, step>>
  /\ warned' = FALSE /\ resolved' = ""
  /\ UNCHANGED <<disk, registered, written, spoiled, serving>>

(* Without it: memory-auth.json must be there, and the operator exports a   *)
(* secret he has kept in GOSH_ACKINACKI_X25519_SECRET.                     *)
StartFromSaved(kept) ==
  /\ step = "down" /\ starts < MAX_STARTS
  /\ starts' = starts + 1
  /\ IF authFile = Absent
     THEN UNCHANGED <<auth, secret, step>>
     ELSE auth' = authFile /\ secret' = kept /\ step' = "register"
  /\ warned' = FALSE /\ resolved' = ""
  /\ UNCHANGED <<disk, registered, written, spoiled, serving>>

WriteTmp_BootstrapRemovedFirst ==
  /\ step = "save"
  /\ tmpFile' = auth
  /\ bootFile' = NoFile
  /\ step' = "rename"
  /\ UNCHANGED <<authFile, memoryState, registered, resolved, warned, history>>

(* write_private_text_file: a temporary file, synced, ... *)
WriteTmp ==
  /\ step = "save"
  /\ tmpFile' = auth
  /\ step' = "rename"
  /\ UNCHANGED <<bootFile, authFile, memoryState, registered, resolved, warned, history>>

(* ... and renamed. *)
RenameTmp ==
  /\ step = "rename"
  /\ authFile' = tmpFile /\ tmpFile' = Absent
  /\ step' = "remove"
  /\ UNCHANGED <<bootFile, memoryState, registered, resolved, warned, history>>

(* A file that cannot be deleted is only logged. *)
RemoveBootstrap ==
  /\ step = "remove"
  /\ bootFile' \in {bootFile, NoFile}
  /\ step' = "register"
  /\ UNCHANGED <<authFile, tmpFile, memoryState, registered, resolved, warned, history>>

-----------------------------------------------------------------------------
(* The rest of the start *)

(* register_public_key overwrites; a failure is only logged. *)
RegisterPublicKey ==
  /\ step = "register"
  /\ \/ registered' = secret /\ UNCHANGED warned
     \/ warned' = TRUE /\ registered' \in {secret, registered}
  /\ step' = "bind"
  /\ UNCHANGED <<disk, memoryState, resolved, history>>

(* The MCP port is bound, or the process ends with an error. *)
BindPort ==
  /\ step = "bind"
  /\ \/ step' = "serving" /\ serving' = serving \cup {auth}
     \/ step' = "down" /\ UNCHANGED serving
  /\ UNCHANGED <<disk, memoryState, registered, resolved, warned, written,
                 spoiled, starts>>

(* SealedSecretsClient::resolve: the server seals to the registered key.   *)
ResolveSecret ==
  /\ step = "serving"
  /\ resolved' = IF registered = secret THEN "opened" ELSE "failed"
  /\ UNCHANGED <<disk, step, memoryState, registered, warned, history>>

Crash ==
  /\ step # "down"
  /\ step' = "down"
  /\ tmpFile' = Absent     \* an abandoned file under a name of its own
  /\ UNCHANGED <<bootFile, authFile, memoryState, registered, resolved, warned, history>>

AuthNext ==
  \/ \E g \in 1..LAST_GENERATION, good \in BOOLEAN : WriteBootstrap(g, good)
  \/ ReplaceSpoiled
  \/ PreflightFails \/ StartFromBootstrap \/ \E kept \in written : StartFromSaved(kept)
  \/ WriteTmp \/ RenameTmp \/ RemoveBootstrap
  \/ RegisterPublicKey \/ BindPort \/ ResolveSecret \/ Crash

AuthSpec == AuthInit /\ [][AuthNext]_authVars

-----------------------------------------------------------------------------
(* Properties *)

(***************************************************************************)
(* However often the process crashes, and wherever, the last valid join    *)
(* token the operator wrote is never lost: it is in the bootstrap file or   *)
(* in memory-auth.json.                                                    *)
(***************************************************************************)
TokenNeverLost ==
  \A g \in written :
    (\A h \in written : h <= g) => bootFile.gen = g \/ authFile = g

(***************************************************************************)
(* A bootstrap file that cannot drive the agent is refused before its      *)
(* contents are taken over, in memory or in memory-auth.json.              *)
(***************************************************************************)
RefusedBootstrapHarmless ==
  /\ authFile \notin spoiled
  /\ auth \notin spoiled

(***************************************************************************)
(* A sealed secret that cannot be opened never comes as a surprise: the    *)
(* process warned at this start that its key may not be registered.        *)
(***************************************************************************)
UnopenedWasAnnounced == resolved = "failed" => warned

(***************************************************************************)
(* However a start is cut short, the agent keeps its join token and takes  *)
(* none from a refused file, and it says so when it may not open its       *)
(* secrets.  (The X25519 secret may be lost: see KeptUntilServed.)         *)
(***************************************************************************)
RestartsLoseNothing ==
  TokenNeverLost /\ RefusedBootstrapHarmless /\ UnopenedWasAnnounced

(***************************************************************************)
(* config.rs says the bootstrap file is "consumed and deleted on first     *)
(* successful start": when the process is down, the newest file of which   *)
(* no start has come to serve should still be there.  The code deletes it  *)
(* before it registers the key and binds the port, and the file alone      *)
(* holds the X25519 secret.                                                *)
(***************************************************************************)
KeptUntilServed ==
  step = "down" =>
    \A g \in written :
      (\A h \in written : h <= g) => bootFile.gen = g \/ g \in serving
=============================================================================
