---------------------------- MODULE BlockPipeline ----------------------------
(***************************************************************************)
(* Block ingestion as main.rs wires it: subscribers push what the Block    *)
(* Keepers send into an unbounded queue; the decoder thread drops garbage  *)
(* and duplicates, filters, numbers the batch of facts and hands it to the *)
(* ingestion task over a bounded channel, blocking while that is full; the *)
(* task posts one batch at a time to gosh.memory.  When the connection     *)
(* pool ends, so does the process: the tasks are dropped and the decoder   *)
(* thread runs until its own queue is drained and closed.                  *)
(***************************************************************************)
EXTENDS RecentBlockFilter

CONSTANTS
  Connection,   \* subscribers: one stream of blocks each
  Matching,     \* hashes of blocks that hold a message the filter wants
  Garbage,      \* bytes that do not deserialize
  CHANNEL,      \* capacity of the ingestion channel
  MAX_RECEIVED, \* bound: messages received over all connections
  MAX_QUEUED    \* bound: messages waiting for the decoder

ASSUME PipelineAssumption ==
  /\ Matching \subseteq Hash
  /\ Garbage \notin Hash
  /\ CHANNEL \in Nat \ {0}
  /\ MAX_RECEIVED \in Nat /\ MAX_QUEUED \in Nat

VARIABLES
  open,        \* connections whose subscriber runs (holds a queue sender)
  received,    \* messages received so far
  commands,    \* cmd_tx / cmd_rx: messages waiting for the decoder
  filter,      \* the decoder's RecentBlockFilter
  decoder,     \* the decoder thread: "running" or "exited"
  held,        \* the batch the decoder is sending, or NoBatch
  session,     \* session_counter
  ingest,      \* ingest_tx / ingest_rx: batches waiting for the ingestion task
  posting,     \* the batch being posted, or NoBatch
  process,     \* "running", or "exiting" once main's select has returned
  accepted,    \* history: hashes that passed the duplicate filter, in order
  memory,      \* gosh.memory: batches stored, in order
  dropped      \* history: batches whose post failed or that exit discarded

pipelineVars == <<open, received, commands, filter, decoder, held, session, ingest,
          posting, process, accepted, memory, dropped>>

NoBatch == [hash |-> {}, session |-> 0]

PipelineInit ==
  /\ open = {}
  /\ received = 0
  /\ commands = << >>
  /\ filter = EmptyFilter
  /\ decoder = "running"
  /\ held = NoBatch
  /\ session = 1
  /\ ingest = << >>
  /\ posting = NoBatch
  /\ process = "running"
  /\ accepted = << >>
  /\ memory = << >>
  /\ dropped = {}

-----------------------------------------------------------------------------
(* Subscribers *)

Connect(c) ==
  /\ process = "running"
  /\ c \notin open
  /\ open' = open \cup {c}
  /\ UNCHANGED <<received, commands, filter, decoder, held, session, ingest,
                 posting, process, accepted, memory, dropped>>

(***************************************************************************)
(* A message of any block, new or seen before, or bytes of no block.       *)
(***************************************************************************)
Receive(c, message) ==
  /\ c \in open
  /\ received < MAX_RECEIVED /\ Len(commands) < MAX_QUEUED
  /\ received' = received + 1
  /\ commands' = Append(commands, message)
  /\ UNCHANGED <<open, filter, decoder, held, session, ingest, posting,
                 process, accepted, memory, dropped>>

Disconnect(c) ==
  /\ c \in open
  /\ open' = open \ {c}
  /\ UNCHANGED <<received, commands, filter, decoder, held, session, ingest,
                 posting, process, accepted, memory, dropped>>

-----------------------------------------------------------------------------
(* The decoder thread *)

NextSession(n) == n + 1

(***************************************************************************)
(* block::run with main's callback, up to the blocking send.               *)
(***************************************************************************)
Decode ==
  /\ decoder = "running" /\ held = NoBatch /\ commands # << >>
  /\ commands' = Tail(commands)
  /\ LET hash == Head(commands)
     IN  \/ /\ \/ hash = Garbage
               \/ hash # Garbage /\ ~IsNew(filter, hash)
            /\ UNCHANGED <<filter, held, session, accepted>>
         \/ /\ hash # Garbage /\ IsNew(filter, hash)
            /\ filter' = Insert(filter, hash)
            /\ accepted' = Append(accepted, hash)
            /\ IF hash \in Matching
               THEN /\ held' = [hash |-> hash, session |-> session]
                    /\ session' = NextSession(session)
               ELSE UNCHANGED <<held, session>>
  /\ UNCHANGED <<open, received, decoder, ingest, posting, process, memory,
                 dropped>>

SendBatch_NoWait ==
  /\ held # NoBatch /\ process = "running"
  /\ held' = NoBatch
  /\ ingest' = IF Len(ingest) < CHANNEL THEN Append(ingest, held) ELSE ingest
  /\ UNCHANGED <<open, received, commands, filter, decoder, session, posting,
                 process, accepted, memory, dropped>>

(***************************************************************************)
(* blocking_send: waits for room.                                          *)
(***************************************************************************)
SendBatch ==
  /\ held # NoBatch /\ process = "running"
  /\ Len(ingest) < CHANNEL
  /\ held' = NoBatch
  /\ ingest' = Append(ingest, held)
  /\ UNCHANGED <<open, received, commands, filter, decoder, session, posting,
                 process, accepted, memory, dropped>>

SendRefused_Retries ==
  /\ held # NoBatch /\ process = "exiting"
  /\ UNCHANGED pipelineVars

(***************************************************************************)
(* With the receiver gone the send fails at once and is only logged.       *)
(***************************************************************************)
SendRefused ==
  /\ held # NoBatch /\ process = "exiting"
  /\ held' = NoBatch
  /\ dropped' = dropped \cup {held}
  /\ UNCHANGED <<open, received, commands, filter, decoder, session, ingest,
                 posting, process, accepted, memory>>

(***************************************************************************)
(* recv() fails when every sender is gone and the queue is empty.  The     *)
(* pool holds a sender of its own until the process exits.                 *)
(***************************************************************************)
DecoderEnds ==
  /\ decoder = "running" /\ held = NoBatch /\ commands = << >>
  /\ process = "exiting" /\ open = {}
  /\ decoder' = "exited"
  /\ UNCHANGED <<open, received, commands, filter, held, session, ingest,
                 posting, process, accepted, memory, dropped>>

-----------------------------------------------------------------------------
(* The ingestion task *)

TakeBatch ==
  /\ process = "running"
  /\ posting = NoBatch /\ ingest # << >>
  /\ posting' = Head(ingest)
  /\ ingest' = Tail(ingest)
  /\ UNCHANGED <<open, received, commands, filter, decoder, held, session,
                 process, accepted, memory, dropped>>

(***************************************************************************)
(* ingest_facts returns: the batch is stored, or it is not, or it is but   *)
(* the answer is lost.  An error is logged and the batch is not retried.   *)
(***************************************************************************)
PostReturns ==
  /\ process = "running" /\ posting # NoBatch
  /\ posting' = NoBatch
  /\ \/ memory' = Append(memory, posting) /\ UNCHANGED dropped
     \/ dropped' = dropped \cup {posting} /\ UNCHANGED memory
     \/ memory' = Append(memory, posting) /\ dropped' = dropped \cup {posting}
  /\ UNCHANGED <<open, received, commands, filter, decoder, held, session,
                 ingest, process, accepted>>

-----------------------------------------------------------------------------
(***************************************************************************)
(* The pool ends (or the MCP server does) and main's select returns.  The  *)
(* runtime drops the tasks where they stand: a post under way may or may   *)
(* not reach gosh.memory; what waits in the ingestion channel is lost.     *)
(***************************************************************************)
ProcessExits ==
  /\ process = "running"
  /\ process' = "exiting"
  /\ open' = {}
  /\ ingest' = << >>
  /\ posting' = NoBatch
  /\ \/ posting # NoBatch /\ memory' = Append(memory, posting)
     \/ UNCHANGED memory
  /\ dropped' = dropped \cup Range(ingest) \cup ({posting} \ {NoBatch})
  /\ UNCHANGED <<received, commands, filter, decoder, held, session, accepted>>

DecoderStep == Decode \/ SendBatch \/ SendRefused \/ DecoderEnds

Stopped ==
  /\ decoder = "exited"
  /\ UNCHANGED pipelineVars

PipelineNext ==
  \/ \E c \in Connection : Connect(c) \/ Disconnect(c)
  \/ \E c \in Connection, message \in Hash \cup {Garbage} : Receive(c, message)
  \/ DecoderStep
  \/ TakeBatch
  \/ PostReturns
  \/ ProcessExits
  \/ Stopped

PipelineSpec == PipelineInit /\ [][PipelineNext]_pipelineVars

(***************************************************************************)
(* Only the decoder's own thread is assumed to be scheduled.               *)
(***************************************************************************)
PipelineFairness == WF_pipelineVars(DecoderStep)

-----------------------------------------------------------------------------
(* Properties *)

Batch == [hash : Hash, session : Nat \ {0}]

(***************************************************************************)
(* Type invariant.                                                         *)
(***************************************************************************)
PipelineTypeOK ==
  /\ open \subseteq Connection
  /\ filter.set \subseteq Hash /\ filter.order \in Seq(Hash)
  /\ commands \in Seq(Hash \cup {Garbage})
  /\ {held, posting} \subseteq Batch \cup {NoBatch}
  /\ ingest \in Seq(Batch) /\ Len(ingest) <= CHANNEL
  /\ memory \in Seq(Batch) /\ dropped \subseteq Batch
  /\ decoder \in {"running", "exited"} /\ process \in {"running", "exiting"}

(***************************************************************************)
(* A duplicate is dropped, and only a duplicate.  Over however many        *)
(* connections a block arrives and however often, between two acceptances  *)
(* of one hash lie at least CAPACITY others; and what the filter holds     *)
(* back is always among the last CAPACITY blocks accepted (the last one,   *)
(* at capacity 0), though a set answers and a queue says what to forget.   *)
(***************************************************************************)
DuplicatesAreRecent ==
  LET reach == IF CAPACITY = 0 THEN 1 ELSE CAPACITY
  IN  /\ \A i, j \in DOMAIN accepted :
           (i < j /\ accepted[i] = accepted[j]) => j - i > CAPACITY
      /\ \A hash \in filter.set :
           \E i \in DOMAIN accepted :
             accepted[i] = hash /\ i > Len(accepted) - reach

InFlight == ({held, posting} \cup Range(ingest)) \ {NoBatch}

(***************************************************************************)
(* No batch vanishes without an error: every session number handed out is  *)
(* on its way, stored, or was reported as failed (or discarded at exit).   *)
(* And facts reach gosh.memory in the order their blocks were accepted,    *)
(* under numbers that never repeat, whichever batches fail in between.     *)
(***************************************************************************)
NoSilentLoss ==
  /\ \A n \in 1..(session - 1) :
       \E batch \in InFlight \cup Range(memory) \cup dropped : batch.session = n
  /\ \A i, j \in DOMAIN memory : i < j => memory[i].session < memory[j].session

(***************************************************************************)
(* The ingestion channel never holds more than its capacity, and no batch  *)
(* that was too much for it is lost.                                       *)
(***************************************************************************)
BatchesAccountedFor == PipelineTypeOK /\ NoSilentLoss

(***************************************************************************)
(* Exit is never stuck: even when it comes while the decoder is blocked on *)
(* a full ingestion channel, the decoder thread drains its queue and ends, *)
(* which the runtime waits for.                                            *)
(***************************************************************************)
ExitCompletes == process = "exiting" ~> decoder = "exited"
=============================================================================
