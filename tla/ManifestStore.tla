---------------------------- MODULE ManifestStore ----------------------------
(***************************************************************************)
(* airegistry_set_manifest and airegistry_get_manifest (mcp/airegistry.rs) *)
(* over the contract ManifestMetadata, which keeps a package as indexed    *)
(* chunks.  A writer deploys or reuses the contract, writes each chunk and *)
(* waits until it reads back, deletes the tail of a longer predecessor and *)
(* compares the whole with what it meant to store.  The chain executes a   *)
(* message when it gets to it, or never; a writer may die at any point and *)
(* its messages live on.                                                   *)
(*                                                                         *)
(* The contract is outside the repository's source: what it does is taken  *)
(* from how set_manifest uses it and from its ABI.                         *)
(***************************************************************************)
EXTENDS Integers, Sequences, FiniteSets, SequencesExt

CONSTANTS
  Writer,       \* runs of set_manifest on one manifest address
  PackageOf,    \* the package of each, as chunk_str splits it
  Chunk,        \* the pieces, none of them empty, that packages are split into
  Empty,        \* the empty string: a chunk never written, or deleted
  MAX_CHUNKS,   \* bound: chunks of a package
  MAX_TRIES     \* sends of one chunk write (4)

(* chunk_str: of an empty package, one empty chunk. *)
ASSUME ManifestAssumption ==
  /\ Empty \notin Chunk
  /\ PackageOf \in [Writer -> Seq(Chunk) \cup {<<Empty>>}]
  /\ \A w \in Writer : Len(PackageOf[w]) \in 1..MAX_CHUNKS
  /\ MAX_CHUNKS \in Nat /\ MAX_TRIES \in Nat \ {0}

VARIABLES
  account,    \* ManifestMetadata: deployed, _apiSchemaChunks and their count
  lastStamp,  \* its replay protection (_timestamp)
  messages,   \* external messages posted and not executed yet
  clock,      \* the time header of the next message
  writers,    \* each set_manifest: where it is and what it has read
  latest,     \* history: the writer that began last
  reader      \* one get_manifest

manifestVars == <<account, lastStamp, messages, clock, writers, latest, reader>>

Nobody == "nobody"
Index == 0..(MAX_CHUNKS - 1)
Greater(a, b) == IF a >= b THEN a ELSE b

Idle == [pc |-> "idle", oldCount |-> 0, next |-> 0, tries |-> 0, count |-> 0,
         got |-> << >>, alone |-> FALSE, quiet |-> FALSE, acted |-> FALSE]

ManifestInit ==
  /\ account = [deployed |-> FALSE, chunks |-> [i \in Index |-> Empty],
                count |-> 0]
  /\ lastStamp = 0
  /\ messages = {}
  /\ clock = 1
  /\ writers = [w \in Writer |-> Idle]
  /\ latest = Nobody
  /\ reader = [pc |-> "idle", count |-> 0, got |-> << >>, found |-> Nobody]

At(w, pc) == writers[w].pc = pc
Writing == {"deploy", "activate", "oldCount", "write", "confirm"}
ReadingBack == {"readCount", "readChunks"}
Running(w) == writers[w].pc \in Writing \cup ReadingBack

(* Chunks concatenated; an empty one adds nothing. *)
Joined(chunks) == SelectSeq(chunks, LAMBDA c : c # Empty)
Content == Joined([k \in 1..account.count |-> account.chunks[k - 1]])
Package(w) == Joined(PackageOf[w])

-----------------------------------------------------------------------------
(* The contract *)

(***************************************************************************)
(* A message is executed at most once, and only if its time header is      *)
(* above that of every message executed before.  The history notes a       *)
(* writer's message executed before it had confirmed any of its chunks.    *)
(***************************************************************************)
Deliver(m) ==
  /\ m \in messages
  /\ account.deployed = (m.kind # "deploy")
  /\ account' =
       [deployed |-> TRUE,
        chunks   |-> [account.chunks EXCEPT ![m.idx] = m.chunk],
        count    |-> IF m.kind = "delete" THEN account.count
                                          ELSE Greater(account.count, m.idx + 1)]
  /\ lastStamp' = m.stamp
  /\ messages' = {o \in messages : o.stamp > m.stamp}
  /\ writers' = [writers EXCEPT ![m.by].acted =
                   @ \/ (writers[m.by].pc \in Writing /\ writers[m.by].next = 0)]
  /\ UNCHANGED <<clock, latest, reader>>

-----------------------------------------------------------------------------
(* set_manifest.  Operators whose name carries a suffix are plausible bugs *)
(* used to check that the properties can fail.                             *)

(***************************************************************************)
(* deploy_signed asks whether the contract is there already.               *)
(***************************************************************************)
Begin(w) ==
  /\ At(w, "idle")
  /\ LET alone == \A o \in Writer : ~Running(o)
     IN  writers' = [writers EXCEPT ![w] =
           [@ EXCEPT !.pc = IF account.deployed THEN "oldCount" ELSE "deploy",
                     !.alone = alone,
                     !.quiet = alone /\ messages = {}]]
  /\ latest' = w
  /\ UNCHANGED <<account, lastStamp, messages, clock, reader>>

(* The message is posted; without an answer the writer gives up. *)
Post(w, message, pc) ==
  /\ clock' = clock + 1
  /\ messages' = messages \cup {message}
  /\ \E answer \in {pc, "failed"} :
       writers' = [writers EXCEPT ![w].pc = answer, ![w].tries = @ + 1]

Deploy(w) ==
  /\ At(w, "deploy")
  /\ Post(w, [by |-> w, stamp |-> clock, kind |-> "deploy", idx |-> 0,
              chunk |-> PackageOf[w][1]], "activate")
  /\ UNCHANGED <<account, lastStamp, latest, reader>>

(* wait_status Active.  A fresh contract has no tail to clear. *)
Activated(w) ==
  /\ At(w, "activate") /\ account.deployed
  /\ writers' = [writers EXCEPT ![w].pc = "write", ![w].tries = 0]
  /\ UNCHANGED <<account, lastStamp, messages, clock, latest, reader>>

ReadOldCount(w) ==
  /\ At(w, "oldCount")
  /\ writers' = [writers EXCEPT ![w].pc = "write",
                                ![w].oldCount = account.count]
  /\ UNCHANGED <<account, lastStamp, messages, clock, latest, reader>>

(***************************************************************************)
(* First the chunks of the package, then the deletions of the stale tail.  *)
(***************************************************************************)
IsWrite(w, i) == i < Len(PackageOf[w])
Wanted(w, i) == IF IsWrite(w, i) THEN PackageOf[w][i + 1] ELSE Empty
Steps(w) == Greater(Len(PackageOf[w]), writers[w].oldCount)

(* mf_apply_chunk: the next of MAX_TRIES sends. *)
SendChunk(w) ==
  /\ At(w, "write") /\ writers[w].next < Steps(w)
  /\ LET i == writers[w].next
     IN  Post(w, [by |-> w, stamp |-> clock,
                  kind |-> IF IsWrite(w, i) THEN "set" ELSE "delete",
                  idx |-> i, chunk |-> Wanted(w, i)], "confirm")
  /\ UNCHANGED <<account, lastStamp, latest, reader>>

ReadsBack(w, i) == account.chunks[i] = Wanted(w, i)

Confirm(w) ==
  /\ At(w, "confirm")
  /\ ReadsBack(w, writers[w].next)
  /\ writers' = [writers EXCEPT ![w].pc = "write", ![w].tries = 0,
                                ![w].next = @ + 1]
  /\ UNCHANGED <<account, lastStamp, messages, clock, latest, reader>>

(***************************************************************************)
(* The polling window ends without a match: send again, or give up.        *)
(***************************************************************************)
NotSeen(w) ==
  /\ At(w, "confirm")
  /\ writers' = [writers EXCEPT ![w].pc =
                   IF writers[w].tries < MAX_TRIES THEN "write" ELSE "failed"]
  /\ UNCHANGED <<account, lastStamp, messages, clock, latest, reader>>

AllWritten(w) ==
  /\ At(w, "write") /\ writers[w].next >= Steps(w)
  /\ writers' = [writers EXCEPT ![w].pc = "readCount"]
  /\ UNCHANGED <<account, lastStamp, messages, clock, latest, reader>>

ReadBackCount(w) ==
  /\ At(w, "readCount")
  /\ writers' = [writers EXCEPT ![w].pc = "readChunks",
                                ![w].count = account.count]
  /\ UNCHANGED <<account, lastStamp, messages, clock, latest, reader>>

ReadBackChunk(w) ==
  /\ At(w, "readChunks") /\ Len(writers[w].got) < writers[w].count
  /\ writers' = [writers EXCEPT ![w].got =
                   Append(@, account.chunks[Len(writers[w].got)])]
  /\ UNCHANGED <<account, lastStamp, messages, clock, latest, reader>>

IsIntended_Assumed(w) == TRUE

IsIntended(w) == Joined(writers[w].got) = Package(w)

(***************************************************************************)
(* The sha256 of the reassembled package decides.                          *)
(***************************************************************************)
Verify(w) ==
  /\ At(w, "readChunks") /\ Len(writers[w].got) = writers[w].count
  /\ writers' = [writers EXCEPT ![w].pc =
                   IF IsIntended(w) THEN "verified" ELSE "failed"]
  /\ UNCHANGED <<account, lastStamp, messages, clock, latest, reader>>

(***************************************************************************)
(* A read fails, a deadline passes, or the process dies.                   *)
(***************************************************************************)
Abandon(w) ==
  /\ Running(w)
  /\ writers' = [writers EXCEPT ![w].pc = "failed"]
  /\ UNCHANGED <<account, lastStamp, messages, clock, latest, reader>>

-----------------------------------------------------------------------------
(* get_manifest: the count, then one getter call per chunk. *)

(* The last writer works alone, and no older message can be executed. *)
Undisturbed(w) ==
  w = latest /\ writers[w].alone /\ (writers[w].acted \/ writers[w].quiet)

(* It has reported its package verified. *)
Settled == \E w \in Writer : Undisturbed(w) /\ At(w, "verified")

GetCount ==
  /\ reader.pc = "idle" /\ account.deployed
  /\ reader' = [reader EXCEPT !.pc = "reading", !.count = account.count,
                              !.found = IF Settled THEN latest ELSE Nobody]
  /\ UNCHANGED <<account, lastStamp, messages, clock, writers, latest>>

GetChunk ==
  /\ reader.pc = "reading" /\ Len(reader.got) < reader.count
  /\ reader' = [reader EXCEPT !.got =
                  Append(@, account.chunks[Len(reader.got)])]
  /\ UNCHANGED <<account, lastStamp, messages, clock, writers, latest>>

GetReturns_OneShort ==
  /\ reader.pc = "reading" /\ Len(reader.got) + 1 = reader.count
  /\ reader' = [reader EXCEPT !.pc = "done"]
  /\ UNCHANGED <<account, lastStamp, messages, clock, writers, latest>>

GetReturns ==
  /\ reader.pc = "reading" /\ Len(reader.got) = reader.count
  /\ reader' = [reader EXCEPT !.pc = "done"]
  /\ UNCHANGED <<account, lastStamp, messages, clock, writers, latest>>

-----------------------------------------------------------------------------
WriterStep(w) ==
  \/ Begin(w) \/ Deploy(w) \/ Activated(w) \/ ReadOldCount(w) \/ SendChunk(w)
  \/ Confirm(w) \/ NotSeen(w) \/ AllWritten(w) \/ ReadBackCount(w)
  \/ ReadBackChunk(w) \/ Verify(w) \/ Abandon(w)

(* Every call has returned. *)
Finished ==
  /\ \A w \in Writer : writers[w].pc \in {"verified", "failed"}
  /\ UNCHANGED manifestVars

ManifestNext ==
  \/ \E m \in messages : Deliver(m)
  \/ \E w \in Writer : WriterStep(w)
  \/ GetCount \/ GetChunk \/ GetReturns
  \/ Finished

ManifestSpec == ManifestInit /\ [][ManifestNext]_manifestVars

-----------------------------------------------------------------------------
(* Properties *)

(***************************************************************************)
(* Type invariant.                                                         *)
(***************************************************************************)
ManifestTypeOK ==
  /\ account.count \in 0..MAX_CHUNKS
  /\ \A m \in messages : m.idx \in Index /\ m.stamp \in 1..(clock - 1)
  /\ \A w \in Writer :
       /\ writers[w].next \in 0..MAX_CHUNKS
       /\ writers[w].tries \in 0..MAX_TRIES
       /\ Len(writers[w].got) <= writers[w].count
  /\ latest \in Writer \cup {Nobody}

(***************************************************************************)
(* While one writer works on a manifest that nobody else is writing and    *)
(* that no earlier message can still reach, the chunks it has confirmed    *)
(* are on chain and stay there, whichever of its own sends are lost, late  *)
(* or repeated by a retry.                                                 *)
(***************************************************************************)
ConfirmedChunksHold ==
  \A w \in Writer : Undisturbed(w) =>
    \A i \in 0..(writers[w].next - 1) : account.chunks[i] = Wanted(w, i)

(***************************************************************************)
(* A package reported as verified is the manifest's content from then on,  *)
(* until another set begins: nothing late or stale alters it.  (For a set  *)
(* that worked alone and of which a message was executed before its first  *)
(* chunk was confirmed, or that began with none outstanding: a message     *)
(* executed later no longer helps, older ones may by then have undone what *)
(* was confirmed, in such a way that the readback does not tell.)          *)
(***************************************************************************)
VerifiedPackageStays ==
  Settled => Content = Package(latest)

(***************************************************************************)
(* What set_manifest has confirmed, chunk by chunk, and verified as a whole *)
(* is what the contract holds.                                             *)
(***************************************************************************)
PackagesPersist == ManifestTypeOK /\ ConfirmedChunksHold /\ VerifiedPackageStays

(***************************************************************************)
(* Although the chunks are read one by one, a read that began after such a *)
(* set returned its package whole, also across messages that are still     *)
(* under way, unless another set began before the read ended (when it may  *)
(* return parts of both: nothing is compared unless the caller asks).      *)
(***************************************************************************)
SettledReadsAreWhole ==
  (reader.pc = "done" /\ reader.found # Nobody /\ reader.found = latest) =>
    Joined(reader.got) = Package(latest)
=============================================================================
