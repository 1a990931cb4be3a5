--------------------------- MODULE NoteOnboarding ---------------------------
(***************************************************************************)
(* private_note/onboard.rs: deploy_private_note_from_multisig.  Two legs,  *)
(* each a voucher that the funding wallet pays for, an event to wait for,  *)
(* a proof over the block history and a submission to RootPN: the deposit  *)
(* leg deploys the note, the gas leg funds it.  The keys of the note and   *)
(* of the vouchers live in the run alone.  RootPN, the wallet and the      *)
(* prover are external.                                                    *)
(***************************************************************************)
EXTENDS Naturals, FiniteSets

CONSTANTS
  Onboarder,   \* callers in one process
  LAYERS,      \* history layers a proof is attempted over, in turn; may be none
  MAX_NOTES    \* bound: runs started

ASSUME OnboardingAssumption == LAYERS \in Nat /\ MAX_NOTES \in Nat

VARIABLES
  minting,    \* MINT_IN_PROGRESS
  run,        \* per caller, the run: [at, leg, page, layer, answer]
  paid,       \* the chain, per run: legs whose voucher the wallet has paid
  submitted,  \* the chain, per run: legs RootPN has accepted, not yet executed
  executed,   \* the chain, per run: "deposit": note active, "gas": note funded
  notes       \* runs started

noteVars == <<minting, run, paid, submitted, executed, notes>>

NoRun == [at |-> "idle", leg |-> "deposit", page |-> "", layer |-> 0, answer |-> "none"]

OnboardingInit ==
  /\ minting = FALSE
  /\ run = [o \in Onboarder |-> NoRun]
  /\ paid = [o \in Onboarder |-> {}]
  /\ submitted = paid /\ executed = paid
  /\ notes = 0

Goes(o, to) == run' = [run EXCEPT ![o].at = to] /\ UNCHANGED minting

(* The guard is dropped with the run. *)
Ends_GuardLeaks(o, answer) ==
  /\ run' = [run EXCEPT ![o].at = "idle", ![o].answer = answer]
  /\ minting' = (answer # "ok")

Ends(o, answer) ==
  /\ run' = [run EXCEPT ![o].at = "idle", ![o].answer = answer]
  /\ minting' = FALSE

With(set, o) == [set EXCEPT ![o] = @ \cup {run[o].leg}]

-----------------------------------------------------------------------------

(* MintGuard::acquire; a run makes keys of its own, for a note of its own. *)
StartRun(o) ==
  /\ run[o].at = "idle" /\ notes < MAX_NOTES
  /\ notes' = notes + 1
  /\ IF minting
     THEN /\ run' = [run EXCEPT ![o].answer = "busy"]
          /\ UNCHANGED <<minting, paid, submitted, executed>>
     ELSE /\ minting' = TRUE
          /\ run' = [run EXCEPT ![o] = [NoRun EXCEPT !.at = "mint"]]
          /\ paid' = [paid EXCEPT ![o] = {}]
          /\ submitted' = [submitted EXCEPT ![o] = {}]
          /\ executed' = [executed EXCEPT ![o] = {}]

(* mint_voucher_via_multisig: the wallet must be active and of a version   *)
(* that can forward; the message, its answer or the transaction may fail,  *)
(* and the latter may come later.                                          *)
MintVoucher(o) ==
  /\ run[o].at = "mint"
  /\ paid' \in {paid, With(paid, o)}
  /\ Goes(o, "await event") \/ Ends(o, "failed")
  /\ UNCHANGED <<submitted, executed, notes>>

VoucherPaid(o) ==
  /\ run[o].at \in {"await event", "scan"}
  /\ paid' = With(paid, o)
  /\ UNCHANGED <<minting, run, submitted, executed, notes>>

(* decode_voucher_generated_sk_u_commit: what a scan of a page meets first *)
(* is this run's event, by its own commitment, something RootPN's ABI does *)
(* not decode, or neither.                                                 *)
Pages(o) ==
  {"neither", "undecodable"} \cup (IF run[o].leg \in paid[o] THEN {"own"} ELSE {})

(* fetch_extout_voucher_events: one page, and the block of each message;   *)
(* one whose block is not known yet is passed over.                        *)
FetchEvents(o) ==
  /\ run[o].at = "await event"
  /\ \/ \E page \in Pages(o) : run' = [run EXCEPT ![o].at = "scan", ![o].page = page]
        /\ UNCHANGED minting
     \/ Ends(o, "failed")
  /\ UNCHANGED <<paid, submitted, executed, notes>>

(* wait_for_voucher_event_by_sk_u_commit: other runs' vouchers are passed  *)
(* over, but what fails to decode ends the wait.                           *)
AwaitEvent(o) ==
  /\ run[o].at = "scan"
  /\ CASE run[o].page = "own"         -> Goes(o, "prepare")
       [] run[o].page = "undecodable" -> Ends(o, "failed")
       [] OTHER                       -> Goes(o, "await event") \/ Ends(o, "failed")
  /\ UNCHANGED <<paid, submitted, executed, notes>>

(* prove_voucher_for_event: only now, with the voucher paid, are the paths *)
(* validated; the block of the event must have a height.                   *)
PrepareProof(o) ==
  /\ run[o].at = "prepare"
  /\ \/ run' = [run EXCEPT ![o].at = "await height", ![o].layer = 1] /\ UNCHANGED minting
     \/ Ends(o, "failed")
  /\ UNCHANGED <<paid, submitted, executed, notes>>

NextLayer(o) ==
  run' = [run EXCEPT ![o].at = "await height", ![o].layer = @ + 1] /\ UNCHANGED minting

(* The layer's window must be closed; a wait in vain costs this layer.     *)
AwaitHeight(o) ==
  /\ run[o].at = "await height"
  /\ IF run[o].layer > LAYERS THEN Ends(o, "failed")
     ELSE Goes(o, "witness") \/ NextLayer(o)
  /\ UNCHANGED <<paid, submitted, executed, notes>>

(* A witness that cannot be exported costs this layer; a place for it that *)
(* cannot be made ends the run.                                            *)
ExportWitness(o) ==
  /\ run[o].at = "witness"
  /\ Goes(o, "prove") \/ NextLayer(o) \/ Ends(o, "failed")
  /\ UNCHANGED <<paid, submitted, executed, notes>>

GenerateProof(o) ==
  /\ run[o].at = "prove"
  /\ Goes(o, "submit") \/ NextLayer(o)
  /\ UNCHANGED <<paid, submitted, executed, notes>>

(* deployPrivateNote or sendEccShellToPrivateNote: a reverted submission   *)
(* and a lost answer are errors, explained by explain_submit_abort.        *)
SubmitProof(o) ==
  /\ run[o].at = "submit"
  /\ submitted' \in {submitted, With(submitted, o)}
  /\ \/ Goes(o, IF run[o].leg = "deposit" THEN "await note" ELSE "observe")
     \/ Ends(o, "failed")
  /\ UNCHANGED <<paid, executed, notes>>

(* RootPN executes what it has accepted: gas only reaches a note.          *)
RootExecutes(o, leg) ==
  /\ leg \in submitted[o] \ executed[o]
  /\ leg = "gas" => "deposit" \in executed[o]
  /\ executed' = [executed EXCEPT ![o] = @ \cup {leg}]
  /\ UNCHANGED <<minting, run, paid, submitted, notes>>

AwaitNote_Submitted(o) ==
  /\ run[o].at = "await note"
  /\ \/ run' = [run EXCEPT ![o].at = "mint", ![o].leg = "gas"] /\ UNCHANGED minting
     \/ Ends(o, "failed")
  /\ UNCHANGED <<paid, submitted, executed, notes>>

(* private_note_address and wait_active: a failing read ends the wait.     *)
AwaitNote(o) ==
  /\ run[o].at = "await note"
  /\ \/ /\ "deposit" \in executed[o]
        /\ run' = [run EXCEPT ![o].at = "mint", ![o].leg = "gas"]
        /\ UNCHANGED minting
     \/ Ends(o, "failed")
  /\ UNCHANGED <<paid, submitted, executed, notes>>

-----------------------------------------------------------------------------
(* observe_shell_effect *)

Terminal_ErrorIsZero(read) == IF read = "funded" THEN "funded" ELSE "short"

(* read_to_terminal and classify_gas_effect, for the last read before the  *)
(* deadline: a read that failed says nothing.                              *)
Terminal(read) ==
  CASE read = "funded" -> "funded" [] read = "short" -> "short" [] OTHER -> "unknown"

(* Any read that shows the gas settles it; a getter that is tried once     *)
(* more afterwards decides nothing.  A read that succeeds is taken to be   *)
(* current, as the code takes it: a node that lags is left out.            *)
ObserveGas(o) ==
  /\ run[o].at = "observe"
  /\ \E read \in {IF "gas" \in executed[o] THEN "funded" ELSE "short", "error"} :
       Ends(o, IF Terminal(read) = "funded" THEN "ok" ELSE Terminal(read))
  /\ UNCHANGED <<paid, submitted, executed, notes>>

(* The caller's future is dropped at an await, or the run panics. *)
DropRun(o) ==
  /\ run[o].at # "idle"
  /\ Ends(o, "dropped")
  /\ UNCHANGED <<paid, submitted, executed, notes>>

OnboardingNext ==
  \E o \in Onboarder :
    \/ StartRun(o) \/ MintVoucher(o) \/ VoucherPaid(o) \/ FetchEvents(o)
    \/ AwaitEvent(o) \/ PrepareProof(o) \/ AwaitHeight(o)
    \/ ExportWitness(o) \/ GenerateProof(o) \/ SubmitProof(o) \/ AwaitNote(o) \/ ObserveGas(o)
    \/ DropRun(o)
    \/ \E leg \in {"deposit", "gas"} : RootExecutes(o, leg)

OnboardingSpec == OnboardingInit /\ [][OnboardingNext]_noteVars

-----------------------------------------------------------------------------
(* Properties *)

(***************************************************************************)
(* Minting is serial: at most one run at a time uses the prover's cache    *)
(* and the funding wallet, and the latch is held exactly while there is    *)
(* one, however the run before ended.                                      *)
(***************************************************************************)
MintingIsSerial ==
  LET running == {o \in Onboarder : run[o].at # "idle"}
  IN  Cardinality(running) <= 1 /\ minting = (running # {})

(***************************************************************************)
(* A run that answers ok has paid for two vouchers and used both: its note *)
(* is active and has its gas.  No run pays for gas before its note exists. *)
(***************************************************************************)
GasFollowsTheNote ==
  \A o \in Onboarder :
    /\ run[o].answer = "ok" => executed[o] = {"deposit", "gas"} /\ executed[o] = paid[o]
    /\ "gas" \in paid[o] => "deposit" \in executed[o]

(***************************************************************************)
(* A note is called short of gas only when it is, by a read that           *)
(* succeeded: an outage of the reader is not evidence.  (A node that lags  *)
(* behind the chain can still mislead the caller.)                         *)
(***************************************************************************)
ShortIsConfirmed ==
  [][\A o \in Onboarder :
       run[o].at = "observe" /\ run'[o].answer = "short" => "gas" \notin executed[o]]_noteVars
=============================================================================
