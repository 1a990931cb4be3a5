------------------------- MODULE ManifestStoreProofs -------------------------
(***************************************************************************)
(* Proofs about storing manifests (ManifestStore): for any writers, any    *)
(* packages, any number of retries and any fate of the messages.           *)
(***************************************************************************)
EXTENDS ManifestStore, TLAPS

-----------------------------------------------------------------------------
(* The invariant *)

Text == Chunk \cup {Empty}
Where == {"idle", "deploy", "activate", "oldCount", "write", "confirm",
          "readCount", "readChunks", "verified", "failed"}

Message == [by : Writer, stamp : Nat, kind : {"deploy", "set", "delete"},
            idx : Index, chunk : Text]

WriterState ==
  [pc : Where, oldCount : 0..MAX_CHUNKS, next : 0..MAX_CHUNKS,
   tries : 0..MAX_TRIES, count : 0..MAX_CHUNKS, got : Seq(Text),
   alone : BOOLEAN, quiet : BOOLEAN, acted : BOOLEAN]

StoreTyped ==
  /\ account \in [deployed : BOOLEAN, chunks : [Index -> Text], count : 0..MAX_CHUNKS]
  /\ clock \in Nat \ {0}
  /\ messages \subseteq Message
  /\ writers \in [Writer -> WriterState]
  /\ latest \in Writer \cup {Nobody}
  /\ reader \in [pc : {"idle", "reading", "done"}, count : 0..MAX_CHUNKS,
                 got : Seq(Text), found : Writer \cup {Nobody}]

(***************************************************************************)
(* The count covers every chunk that is not empty, and the first.          *)
(***************************************************************************)
CountCovers ==
  /\ \A i \in Index : account.chunks[i] # Empty => i < account.count
  /\ account.deployed => 0 < account.count

(***************************************************************************)
(* Where a writer is says what it has done.                                *)
(***************************************************************************)
NotSent == {"idle", "deploy", "oldCount"}

WriterInv(w) ==
  /\ At(w, "idle") => ~writers[w].alone /\ ~writers[w].acted
  /\ writers[w].quiet => writers[w].alone
  /\ writers[w].pc \in NotSent =>
       writers[w].tries = 0 /\ ~ \E m \in messages : m.by = w
  /\ writers[w].pc \in NotSent \cup {"activate"} => writers[w].next = 0
  /\ writers[w].pc \in {"write"} \cup ReadingBack \cup {"confirm", "verified", "oldCount"} =>
       account.deployed
  /\ At(w, "write") => writers[w].tries < MAX_TRIES
  /\ At(w, "confirm") => writers[w].next < Steps(w)
  /\ writers[w].pc \in ReadingBack \cup {"verified"} => writers[w].next >= Steps(w)
  /\ writers[w].pc \notin {"readChunks", "verified", "failed"} => writers[w].got = << >>
  /\ Len(writers[w].got) <= writers[w].count

(***************************************************************************)
(* A message of a writer puts what it wants at one of its indexes.         *)
(***************************************************************************)
MessageInv(m) ==
  /\ m.stamp \in 1..(clock - 1)
  /\ m.chunk = Wanted(m.by, m.idx)
  /\ (m.kind = "delete") = ~IsWrite(m.by, m.idx)
  /\ m.idx < Steps(m.by)

(***************************************************************************)
(* While the writer that began last is alone, nobody else is running and   *)
(* the messages of others are older than its own; once one of its own has  *)
(* been executed, or if there were none, all that are left are its own.    *)
(***************************************************************************)
InCharge(w) == w = latest /\ writers[w].alone

ChargeInv(w) ==
  /\ InCharge(w) =>
       /\ \A o \in Writer \ {w} : ~Running(o)
       /\ \A m, o \in messages : m.by = w /\ o.by # w => o.stamp < m.stamp
  /\ Undisturbed(w) => \A m \in messages : m.by = w

(***************************************************************************)
(* What an undisturbed writer reads back is what there is.                 *)
(***************************************************************************)
Reads(count, got) ==
  /\ count = account.count
  /\ \A k \in 1..Len(got) : got[k] = account.chunks[k - 1]

ReadbackInv(w) ==
  /\ Undisturbed(w) /\ At(w, "readChunks") => Reads(writers[w].count, writers[w].got)
  /\ Undisturbed(w) /\ At(w, "verified") => Content = Package(w)

ReaderInv ==
  /\ reader.pc = "idle" => reader.found = Nobody /\ reader.got = << >>
  /\ reader.pc = "done" => Len(reader.got) = reader.count
  /\ reader.found # Nobody => At(reader.found, "verified")
  /\ reader.found # Nobody /\ reader.found = latest =>
       Undisturbed(latest) /\ Reads(reader.count, reader.got)

EveryWriter == \A w \in Writer : WriterInv(w) /\ ChargeInv(w) /\ ReadbackInv(w)
EveryMessage == \A m \in messages : MessageInv(m)

ManifestInv ==
  /\ StoreTyped /\ CountCovers
  /\ EveryWriter /\ EveryMessage /\ ConfirmedChunksHold /\ ReaderInv

-----------------------------------------------------------------------------
(* Lemmas *)

(***************************************************************************)
(* A package is of 1 to MAX_CHUNKS chunks, all of which are text; only the *)
(* first can be empty.                                                     *)
(***************************************************************************)
LEMMA Packages ==
  ASSUME NEW w \in Writer
  PROVE  /\ Len(PackageOf[w]) \in 1..MAX_CHUNKS /\ MAX_CHUNKS \in Nat
         /\ \A i \in Index : Wanted(w, i) \in Text
         /\ \A i \in Index : IsWrite(w, i) => Wanted(w, i) # Empty \/ i = 0
  <1>1. Len(PackageOf[w]) \in 1..MAX_CHUNKS /\ MAX_CHUNKS \in Nat
    BY ManifestAssumption
  <1>2. CASE PackageOf[w] \in Seq(Chunk)
    <2>1. \A i \in Index : IsWrite(w, i) => PackageOf[w][i + 1] \in Chunk
      BY <1>1, <1>2 DEF Index, IsWrite
    <2> QED BY <1>1, <2>1, ManifestAssumption DEF Wanted, Text
  <1>3. CASE PackageOf[w] = <<Empty>>
    <2>1. Len(PackageOf[w]) = 1 /\ PackageOf[w][1] = Empty
      BY <1>3
    <2>2. \A i \in Index : IsWrite(w, i) => i = 0
      BY <2>1 DEF Index, IsWrite
    <2>3. \A i \in Index : Wanted(w, i) = Empty
      BY <2>1, <2>2 DEF Wanted
    <2> QED BY <1>1, <2>2, <2>3 DEF Text
  <1> QED BY <1>1, <1>2, <1>3, ManifestAssumption

(***************************************************************************)
(* What was read chunk by chunk, if it is all of it, is the content.       *)
(***************************************************************************)
LEMMA ReadInFull ==
  ASSUME NEW got \in Seq(Text), Len(got) = account.count,
         \A k \in 1..Len(got) : got[k] = account.chunks[k - 1]
  PROVE  Joined(got) = Content
  <1> DEFINE all == [k \in 1..account.count |-> account.chunks[k - 1]]
  <1>1. PICK n \in Nat : n = Len(got)
    OBVIOUS
  <1>2. got \in [1..n -> Text]
    BY <1>1
  <1>3. all = [k \in 1..n |-> account.chunks[k - 1]]
    BY <1>1
  <1>4. \A k \in 1..n : all[k] = got[k]
    BY <1>1, <1>3
  <1>5. got = all
    BY <1>2, <1>3, <1>4
  <1> QED BY <1>5 DEF Content

(***************************************************************************)
(* Nothing has begun.                                                      *)
(***************************************************************************)
LEMMA ManifestInitially == ManifestInit => ManifestInv
  <1> SUFFICES ASSUME ManifestInit
               PROVE  ManifestInv
    OBVIOUS
  <1>1. MAX_CHUNKS \in Nat /\ MAX_TRIES \in Nat /\ << >> \in Seq(Text) /\ Len(<< >>) = 0
    BY ManifestAssumption
  <1>2. Idle \in WriterState
    BY <1>1 DEF Idle, WriterState, Where
  <1>3. StoreTyped
    BY <1>1, <1>2 DEF ManifestInit, StoreTyped, Text
  <1>4. \A w \in Writer : writers[w] = Idle
    BY DEF ManifestInit
  <1>5. CountCovers
    BY DEF ManifestInit, CountCovers
  <1>6. messages = {}
    BY DEF ManifestInit
  <1>7. \A w \in Writer : ~Undisturbed(w) /\ ~InCharge(w)
    BY <1>4 DEF Undisturbed, InCharge, Idle
  <1>8. EveryWriter
    BY <1>1, <1>4, <1>6, <1>7
       DEF EveryWriter, WriterInv, ChargeInv, ReadbackInv, At, Idle, NotSent, ReadingBack
  <1>9. ReaderInv
    BY DEF ManifestInit, ReaderInv
  <1> QED BY <1>3, <1>5, <1>6, <1>7, <1>8, <1>9
          DEF ManifestInv, EveryMessage, ConfirmedChunksHold

(***************************************************************************)
(* A running writer that changes nothing but its own state, and perhaps    *)
(* posts a message, keeps the invariant if its new state agrees with it.   *)
(***************************************************************************)
LEMMA WriterMoves ==
  ASSUME ManifestInv,
         NEW w \in Writer, NEW s \in WriterState, NEW sent \in SUBSET Message,
         Running(w),
         writers' = [writers EXCEPT ![w] = s],
         messages' = messages \cup sent,
         clock' = IF sent = {} THEN clock ELSE clock + 1,
         UNCHANGED <<account, latest, reader>>,
         s.alone = writers[w].alone, s.quiet = writers[w].quiet,
         s.acted = writers[w].acted,
         s.oldCount = writers[w].oldCount \/ \A m \in messages : m.by # w,
         \A m \in sent :
           /\ m.by = w /\ m.stamp = clock /\ m.chunk = Wanted(w, m.idx)
           /\ (m.kind = "delete") = ~IsWrite(w, m.idx)
           /\ m.idx < Greater(Len(PackageOf[w]), s.oldCount),
         WriterInv(w)', ReadbackInv(w)',
         Undisturbed(w) =>
           \A i \in 0..(s.next - 1) : account.chunks[i] = Wanted(w, i)
  PROVE  ManifestInv'
  <1> USE DEF ManifestInv
  <1>1. /\ writers \in [Writer -> WriterState] /\ clock \in Nat \ {0}
        /\ messages \subseteq Message
    BY DEF StoreTyped
  <1>2. /\ writers' \in [Writer -> WriterState] /\ writers'[w] = s
        /\ \A o \in Writer \ {w} : writers'[o] = writers[o]
    BY <1>1
  <1>3. clock' \in Nat \ {0} /\ clock <= clock' /\ (sent # {} => clock' = clock + 1)
    BY <1>1
  <1>4. StoreTyped'
    BY <1>1, <1>2, <1>3 DEF StoreTyped
  <1>5. CountCovers'
    BY DEF CountCovers
  <1>6. \A o \in Writer : /\ InCharge(o)' = InCharge(o)
                          /\ Undisturbed(o)' = Undisturbed(o)
    BY <1>2 DEF InCharge, Undisturbed
  <1>7. \A o \in Writer : Running(o)' => Running(o)
    BY <1>2 DEF Running
  <1>8. ASSUME NEW o \in Writer
        PROVE  ChargeInv(o)'
    <2>1. ChargeInv(o)
      BY DEF EveryWriter
    <2>2. InCharge(o) => o = w
      BY <2>1 DEF ChargeInv
    <2>3. \A m \in messages : m.stamp \in 1..(clock - 1)
      BY DEF EveryMessage, MessageInv
    <2>4. InCharge(w) => \A m, n \in messages' : m.by = w /\ n.by # w => n.stamp < m.stamp
      <3> SUFFICES ASSUME InCharge(w), NEW m \in messages', NEW n \in messages',
                          m.by = w, n.by # w
                   PROVE  n.stamp < m.stamp
        OBVIOUS
      <3>1. n \in messages /\ n.stamp < clock
        BY <1>1, <2>3
      <3>2. CASE m \in messages
        BY <3>1, <3>2 DEF EveryWriter, ChargeInv
      <3>3. CASE m \in sent
        BY <3>1, <3>3
      <3> QED BY <3>2, <3>3
    <2>5. Undisturbed(o) => InCharge(o)
      BY DEF Undisturbed, InCharge
    <2> QED BY <1>6, <1>7, <2>1, <2>2, <2>4, <2>5 DEF ChargeInv
  <1>9. ASSUME NEW o \in Writer
        PROVE  WriterInv(o)' /\ ReadbackInv(o)'
    <2>1. CASE o = w
      BY <2>1
    <2>2. CASE o # w
      <3>1. WriterInv(o) /\ ReadbackInv(o) /\ writers'[o] = writers[o]
        BY <1>2, <2>2 DEF EveryWriter
      <3>2. ReadbackInv(o)'
        BY <1>6, <3>1 DEF ReadbackInv, At, Reads, Content
      <3>3. (\E m \in messages' : m.by = o) => \E m \in messages : m.by = o
        BY <2>2
      <3>4. WriterInv(o)'
        BY <3>1, <3>3 DEF WriterInv, At, Steps
      <3> QED BY <3>2, <3>4
    <2> QED BY <2>1, <2>2
  <1>10. EveryWriter'
    BY <1>8, <1>9 DEF EveryWriter
  <1>11. EveryMessage'
    <2> SUFFICES ASSUME NEW m \in messages'
                 PROVE  MessageInv(m)'
      BY DEF EveryMessage
    <2>1. CASE m \in messages
      <3>1. MessageInv(m) /\ m.by \in Writer
        BY <1>1, <2>1 DEF EveryMessage, Message
      <3>2. Steps(m.by)' = Steps(m.by)
        BY <1>2, <2>1, <3>1 DEF Steps
      <3>3. m.stamp \in 1..(clock' - 1)
        BY <1>1, <1>3, <3>1 DEF MessageInv
      <3> QED BY <3>1, <3>2, <3>3 DEF MessageInv
    <2>2. CASE m \in sent
      <3>1. clock' = clock + 1 /\ m.stamp \in 1..(clock' - 1)
        BY <1>1, <1>3, <2>2
      <3>2. Steps(w)' = Greater(Len(PackageOf[w]), s.oldCount)
        BY <1>2 DEF Steps
      <3> QED BY <2>2, <3>1, <3>2 DEF MessageInv
    <2> QED BY <2>1, <2>2
  <1>12. ConfirmedChunksHold'
    <2> SUFFICES ASSUME NEW o \in Writer, Undisturbed(o)',
                        NEW i \in 0..(writers'[o].next - 1)
                 PROVE  account.chunks[i] = Wanted(o, i)
      BY DEF ConfirmedChunksHold
    <2>1. CASE o = w
      BY <1>2, <1>6, <2>1
    <2>2. CASE o # w
      BY <1>2, <1>6, <2>2 DEF ConfirmedChunksHold
    <2> QED BY <2>1, <2>2
  <1>13. ReaderInv'
    <2>1. reader.found # Nobody => reader.found \in Writer /\ reader.found # w
      BY DEF StoreTyped, ReaderInv, At, Running, Writing, ReadingBack
    <2>2. reader.found # Nobody => At(reader.found, "verified")'
      BY <1>2, <2>1 DEF ReaderInv, At
    <2> QED BY <1>6, <2>1, <2>2 DEF ReaderInv, Reads
  <1> QED BY <1>4, <1>5, <1>10, <1>11, <1>12, <1>13

(***************************************************************************)
(* The same for a step that posts nothing.                                 *)
(***************************************************************************)
LEMMA WriterNotes ==
  ASSUME ManifestInv,
         NEW w \in Writer, NEW s \in WriterState,
         Running(w),
         writers' = [writers EXCEPT ![w] = s],
         UNCHANGED <<account, messages, clock, latest, reader>>,
         s.alone = writers[w].alone, s.quiet = writers[w].quiet,
         s.acted = writers[w].acted,
         s.oldCount = writers[w].oldCount \/ \A m \in messages : m.by # w,
         WriterInv(w)', ReadbackInv(w)',
         Undisturbed(w) =>
           \A i \in 0..(s.next - 1) : account.chunks[i] = Wanted(w, i)
  PROVE  ManifestInv'
  <1>1. PICK sent \in SUBSET Message : sent = {}
    OBVIOUS
  <1>2. messages' = messages \cup sent /\ clock' = IF sent = {} THEN clock ELSE clock + 1
    BY <1>1
  <1>3. \A m \in sent : FALSE
    BY <1>1
  <1> QED BY <1>2, <1>3, WriterMoves

(***************************************************************************)
(* What the invariant says of one writer.                                  *)
(***************************************************************************)
LEMMA OneWriter ==
  ASSUME ManifestInv, NEW w \in Writer
  PROVE  /\ writers \in [Writer -> WriterState] /\ writers[w] \in WriterState
         /\ WriterInv(w) /\ ReadbackInv(w)
         /\ Steps(w) \in 1..MAX_CHUNKS /\ MAX_CHUNKS \in Nat /\ MAX_TRIES \in Nat \ {0}
         /\ account.count \in 0..MAX_CHUNKS /\ account.chunks \in [Index -> Text]
         /\ clock \in Nat \ {0}
         /\ Undisturbed(w) =>
              \A i \in 0..(writers[w].next - 1) : account.chunks[i] = Wanted(w, i)
  <1>1. writers \in [Writer -> WriterState] /\ writers[w] \in WriterState
    BY DEF ManifestInv, StoreTyped
  <1>2. writers[w].oldCount \in 0..MAX_CHUNKS
    BY <1>1 DEF WriterState
  <1>3. Steps(w) \in 1..MAX_CHUNKS
    BY <1>2, Packages DEF Steps, Greater
  <1> QED BY <1>1, <1>3, ManifestAssumption
          DEF ManifestInv, StoreTyped, EveryWriter, ConfirmedChunksHold

(***************************************************************************)
(* The steps of a writer that only change where it is.                     *)
(***************************************************************************)
LEMMA WriterGoesOn ==
  ASSUME ManifestInv, NEW w \in Writer,
         \/ Activated(w) \/ ReadOldCount(w) \/ Confirm(w) \/ NotSeen(w)
         \/ AllWritten(w) \/ Abandon(w)
  PROVE  ManifestInv'
  <1> DEFINE old == writers[w]
  <1>1. /\ writers \in [Writer -> WriterState] /\ old \in WriterState
        /\ WriterInv(w) /\ Steps(w) \in 1..MAX_CHUNKS
        /\ MAX_CHUNKS \in Nat /\ MAX_TRIES \in Nat \ {0}
        /\ account.count \in 0..MAX_CHUNKS
        /\ Undisturbed(w) =>
             \A i \in 0..(old.next - 1) : account.chunks[i] = Wanted(w, i)
    BY OneWriter
  <1>2. UNCHANGED <<account, messages, clock, latest, reader>>
    BY DEF Activated, ReadOldCount, Confirm, NotSeen, AllWritten, Abandon
  <1>3. /\ old.next \in 0..MAX_CHUNKS /\ old.tries \in 0..MAX_TRIES
        /\ old.count \in 0..MAX_CHUNKS /\ old.got \in Seq(Text) /\ Len(old.got) \in Nat
        /\ old.oldCount \in 0..MAX_CHUNKS /\ old.pc \in Where
        /\ 0 \in 0..MAX_TRIES
    BY <1>1 DEF WriterState
  <1>4. CASE Activated(w)
    <2>1. PICK s : s = [old EXCEPT !.pc = "write", !.tries = 0]
      OBVIOUS
    <2>2. s \in WriterState /\ writers' = [writers EXCEPT ![w] = s]
      <3>1. s \in WriterState
        BY <1>1, <1>3, <2>1 DEF WriterState, Where
      <3>2. writers' = [writers EXCEPT ![w] = s]
        BY <1>1, <1>4, <2>1 DEF Activated
      <3> QED BY <3>1, <3>2
    <2>3. /\ s.pc = "write" /\ s.tries = 0 /\ s.next = old.next /\ s.got = old.got
          /\ s.count = old.count /\ s.oldCount = old.oldCount /\ s.alone = old.alone
          /\ s.quiet = old.quiet /\ s.acted = old.acted
      BY <1>1, <2>1 DEF WriterState
    <2>4. old.pc = "activate" /\ account.deployed /\ Running(w)
      BY <1>4 DEF Activated, At, Running, Writing
    <2>5. writers'[w] = s
      BY <1>1, <2>2
    <2>6. WriterInv(w)'
      BY <1>1, <1>2, <2>3, <2>4, <2>5 DEF WriterInv, At, NotSent, ReadingBack
    <2>7. ReadbackInv(w)'
      BY <2>3, <2>5 DEF ReadbackInv, At
    <2> QED BY <1>1, <1>2, <2>2, <2>3, <2>4, <2>6, <2>7, WriterNotes
  <1>5. CASE ReadOldCount(w)
    <2>1. PICK s : s = [old EXCEPT !.pc = "write", !.oldCount = account.count]
      OBVIOUS
    <2>2. s \in WriterState /\ writers' = [writers EXCEPT ![w] = s]
      BY <1>1, <1>5, <2>1 DEF ReadOldCount, WriterState, Where
    <2>3. /\ s.pc = "write" /\ s.tries = old.tries /\ s.next = old.next /\ s.got = old.got
          /\ s.count = old.count /\ s.alone = old.alone
          /\ s.quiet = old.quiet /\ s.acted = old.acted
      BY <1>1, <2>1 DEF WriterState
    <2>4. old.pc = "oldCount" /\ Running(w)
      BY <1>5 DEF ReadOldCount, At, Running, Writing
    <2>5. writers'[w] = s
      BY <1>1, <2>2
    <2>6. old.tries = 0 /\ account.deployed /\ \A m \in messages : m.by # w
      BY <1>1, <2>4 DEF WriterInv, NotSent
    <2>7. WriterInv(w)'
      BY <1>1, <1>2, <2>3, <2>4, <2>5, <2>6 DEF WriterInv, At, NotSent, ReadingBack
    <2>8. ReadbackInv(w)'
      BY <2>3, <2>5 DEF ReadbackInv, At
    <2> QED BY <1>1, <1>2, <2>2, <2>3, <2>4, <2>6, <2>7, <2>8, WriterNotes
  <1>6. CASE Confirm(w)
    <2>1. PICK s : s = [old EXCEPT !.pc = "write", !.tries = 0, !.next = @ + 1]
      OBVIOUS
    <2>2. old.pc = "confirm" /\ Running(w) /\ account.chunks[old.next] = Wanted(w, old.next)
      BY <1>6 DEF Confirm, At, Running, Writing, ReadsBack
    <2>3. old.next < Steps(w) /\ account.deployed
      BY <1>1, <2>2 DEF WriterInv, At
    <2>4. old.next + 1 \in 0..MAX_CHUNKS
      BY <1>1, <1>3, <2>3
    <2>5. s \in WriterState /\ writers' = [writers EXCEPT ![w] = s]
      <3>1. s \in WriterState
        BY <1>1, <1>3, <2>1, <2>4 DEF WriterState, Where
      <3>2. writers' = [writers EXCEPT ![w] = s]
        BY <1>1, <1>6, <2>1 DEF Confirm
      <3> QED BY <3>1, <3>2
    <2>6. /\ s.pc = "write" /\ s.tries = 0 /\ s.next = old.next + 1 /\ s.got = old.got
          /\ s.count = old.count /\ s.oldCount = old.oldCount /\ s.alone = old.alone
          /\ s.quiet = old.quiet /\ s.acted = old.acted
      BY <1>1, <2>1 DEF WriterState
    <2>7. writers'[w] = s
      BY <1>1, <2>5
    <2>8. WriterInv(w)'
      BY <1>1, <1>2, <2>2, <2>3, <2>6, <2>7 DEF WriterInv, At, NotSent, ReadingBack
    <2>9. ReadbackInv(w)'
      BY <2>6, <2>7 DEF ReadbackInv, At
    <2>10. Undisturbed(w) => \A i \in 0..(s.next - 1) : account.chunks[i] = Wanted(w, i)
      <3> SUFFICES ASSUME Undisturbed(w), NEW i \in 0..(s.next - 1)
                   PROVE  account.chunks[i] = Wanted(w, i)
        OBVIOUS
      <3>1. i \in 0..(old.next - 1) \/ i = old.next
        BY <1>3, <2>6
      <3> QED BY <1>1, <2>2, <3>1
    <2> QED BY <1>1, <1>2, <2>2, <2>5, <2>6, <2>8, <2>9, <2>10, WriterNotes
  <1>7. CASE NotSeen(w)
    <2>1. PICK s : s = [old EXCEPT !.pc = IF old.tries < MAX_TRIES THEN "write" ELSE "failed"]
      OBVIOUS
    <2>2. s \in WriterState /\ writers' = [writers EXCEPT ![w] = s]
      BY <1>1, <1>7, <2>1 DEF NotSeen, WriterState, Where
    <2>3. /\ (s.pc = "write" /\ s.tries < MAX_TRIES) \/ s.pc = "failed"
          /\ s.tries = old.tries /\ s.next = old.next /\ s.got = old.got
          /\ s.count = old.count /\ s.oldCount = old.oldCount /\ s.alone = old.alone
          /\ s.quiet = old.quiet /\ s.acted = old.acted
      BY <1>1, <2>1 DEF WriterState
    <2>4. old.pc = "confirm" /\ Running(w)
      BY <1>7 DEF NotSeen, At, Running, Writing
    <2>5. writers'[w] = s
      BY <1>1, <2>2
    <2>6. WriterInv(w)'
      BY <1>1, <1>2, <2>3, <2>4, <2>5 DEF WriterInv, At, NotSent, ReadingBack
    <2>7. ReadbackInv(w)'
      BY <2>3, <2>5 DEF ReadbackInv, At
    <2> QED BY <1>1, <1>2, <2>2, <2>3, <2>4, <2>6, <2>7, WriterNotes
  <1>8. CASE AllWritten(w)
    <2>1. PICK s : s = [old EXCEPT !.pc = "readCount"]
      OBVIOUS
    <2>2. s \in WriterState /\ writers' = [writers EXCEPT ![w] = s]
      BY <1>1, <1>8, <2>1 DEF AllWritten, WriterState, Where
    <2>3. /\ s.pc = "readCount"
          /\ s.tries = old.tries /\ s.next = old.next /\ s.got = old.got
          /\ s.count = old.count /\ s.oldCount = old.oldCount /\ s.alone = old.alone
          /\ s.quiet = old.quiet /\ s.acted = old.acted
      BY <1>1, <2>1 DEF WriterState
    <2>4. old.pc = "write" /\ old.next >= Steps(w) /\ Running(w)
      BY <1>8 DEF AllWritten, At, Running, Writing
    <2>5. writers'[w] = s /\ Steps(w)' = Steps(w)
      BY <1>1, <2>2, <2>3 DEF Steps
    <2>6. WriterInv(w)'
      BY <1>1, <1>2, <2>3, <2>4, <2>5 DEF WriterInv, At, NotSent, ReadingBack
    <2>7. ReadbackInv(w)'
      BY <2>3, <2>5 DEF ReadbackInv, At
    <2> QED BY <1>1, <1>2, <2>2, <2>3, <2>4, <2>6, <2>7, WriterNotes
  <1>9. CASE Abandon(w)
    <2>1. PICK s : s = [old EXCEPT !.pc = "failed"]
      OBVIOUS
    <2>2. s \in WriterState /\ writers' = [writers EXCEPT ![w] = s]
      BY <1>1, <1>9, <2>1 DEF Abandon, WriterState, Where
    <2>3. /\ s.pc = "failed"
          /\ s.tries = old.tries /\ s.next = old.next /\ s.got = old.got
          /\ s.count = old.count /\ s.oldCount = old.oldCount /\ s.alone = old.alone
          /\ s.quiet = old.quiet /\ s.acted = old.acted
      BY <1>1, <2>1 DEF WriterState
    <2>4. Running(w)
      BY <1>9 DEF Abandon
    <2>5. writers'[w] = s
      BY <1>1, <2>2
    <2>6. WriterInv(w)'
      BY <1>1, <1>2, <2>3, <2>5 DEF WriterInv, At, NotSent, ReadingBack
    <2>7. ReadbackInv(w)'
      BY <2>3, <2>5 DEF ReadbackInv, At
    <2> QED BY <1>1, <1>2, <2>2, <2>3, <2>4, <2>6, <2>7, WriterNotes
  <1> QED BY <1>4, <1>5, <1>6, <1>7, <1>8, <1>9

(***************************************************************************)
(* The steps of a writer that post a message.                              *)
(***************************************************************************)
LEMMA WriterSends ==
  ASSUME ManifestInv, NEW w \in Writer, Deploy(w) \/ SendChunk(w)
  PROVE  ManifestInv'
  <1> DEFINE old == writers[w]
  <1>1. /\ writers \in [Writer -> WriterState] /\ old \in WriterState
        /\ WriterInv(w) /\ Steps(w) \in 1..MAX_CHUNKS
        /\ MAX_CHUNKS \in Nat /\ MAX_TRIES \in Nat \ {0} /\ clock \in Nat \ {0}
        /\ Undisturbed(w) =>
             \A i \in 0..(old.next - 1) : account.chunks[i] = Wanted(w, i)
    BY OneWriter
  <1>2. /\ old.next \in 0..MAX_CHUNKS /\ old.tries \in 0..MAX_TRIES
        /\ old.count \in 0..MAX_CHUNKS /\ old.got \in Seq(Text) /\ Len(old.got) \in Nat
        /\ old.oldCount \in 0..MAX_CHUNKS /\ old.pc \in Where
    BY <1>1 DEF WriterState
  <1>3. UNCHANGED <<account, latest, reader>>
    BY DEF Deploy, SendChunk
  <1>4. PICK m : /\ messages' = messages \cup {m} /\ clock' = clock + 1
                 /\ m \in Message /\ m.by = w /\ m.stamp = clock
                 /\ m.chunk = Wanted(w, m.idx)
                 /\ (m.kind = "delete") = ~IsWrite(w, m.idx)
                 /\ m.idx < Steps(w)
    <2>1. CASE Deploy(w)
      <3>1. PICK m : m = [by |-> w, stamp |-> clock, kind |-> "deploy", idx |-> 0,
                          chunk |-> PackageOf[w][1]]
        OBVIOUS
      <3>2. messages' = messages \cup {m} /\ clock' = clock + 1
        BY <2>1, <3>1 DEF Deploy, Post
      <3>3. 0 \in Index /\ IsWrite(w, 0) /\ Wanted(w, 0) = PackageOf[w][1]
        BY <1>1, Packages DEF Index, IsWrite, Wanted
      <3>4. Wanted(w, 0) \in Text
        BY <3>3, Packages
      <3>5. /\ m \in Message /\ m.by = w /\ m.stamp = clock /\ m.kind = "deploy"
            /\ m.idx = 0 /\ m.chunk = Wanted(w, 0)
        BY <1>1, <3>1, <3>3, <3>4 DEF Message
      <3>6. 0 < Steps(w)
        BY <1>1
      <3> QED BY <3>2, <3>3, <3>5, <3>6
    <2>2. CASE SendChunk(w)
      <3>1. PICK m : m = [by |-> w, stamp |-> clock,
                          kind |-> IF IsWrite(w, old.next) THEN "set" ELSE "delete",
                          idx |-> old.next, chunk |-> Wanted(w, old.next)]
        OBVIOUS
      <3>2. messages' = messages \cup {m} /\ clock' = clock + 1
        BY <2>2, <3>1 DEF SendChunk, Post
      <3>3. old.next < Steps(w) /\ old.next \in Index
        BY <1>1, <1>2, <2>2 DEF SendChunk, Index
      <3>4. Wanted(w, old.next) \in Text
        BY <3>3, Packages
      <3>5. /\ m \in Message /\ m.by = w /\ m.stamp = clock
            /\ m.kind = IF IsWrite(w, old.next) THEN "set" ELSE "delete"
            /\ m.idx = old.next /\ m.chunk = Wanted(w, old.next)
        BY <1>1, <3>1, <3>3, <3>4 DEF Message
      <3>6. (m.kind = "delete") = ~IsWrite(w, m.idx)
        BY <3>5
      <3> QED BY <3>2, <3>3, <3>5, <3>6
    <2> QED BY <2>1, <2>2
  <1>5. PICK s : /\ s \in WriterState /\ writers' = [writers EXCEPT ![w] = s]
                 /\ \/ s.pc = "activate" /\ old.pc = "deploy"
                    \/ s.pc = "confirm" /\ old.pc = "write" /\ old.next < Steps(w)
                    \/ s.pc = "failed"
                 /\ s.next = old.next /\ s.got = old.got
                 /\ s.count = old.count /\ s.oldCount = old.oldCount
                 /\ s.alone = old.alone /\ s.quiet = old.quiet /\ s.acted = old.acted
    <2>1. PICK answer \in {"activate", "confirm", "failed"} :
            /\ writers' = [writers EXCEPT ![w].pc = answer, ![w].tries = @ + 1]
            /\ \/ answer = "activate" /\ old.pc = "deploy"
               \/ answer = "confirm" /\ old.pc = "write" /\ old.next < Steps(w)
               \/ answer = "failed"
      BY DEF Deploy, SendChunk, Post, At
    <2>2. old.tries + 1 \in 0..MAX_TRIES
      <3>1. old.tries < MAX_TRIES
        BY <1>1 DEF Deploy, SendChunk, WriterInv, At, NotSent
      <3> QED BY <1>1, <1>2, <3>1
    <2>3. PICK s : s = [old EXCEPT !.pc = answer, !.tries = @ + 1]
      OBVIOUS
    <2>4. answer \in Where
      BY DEF Where
    <2>5. s \in WriterState
      BY <1>1, <1>2, <2>2, <2>3, <2>4 DEF WriterState
    <2>6. writers' = [writers EXCEPT ![w] = s]
      BY <1>1, <2>1, <2>3
    <2>7. /\ s.pc = answer /\ s.next = old.next /\ s.got = old.got
          /\ s.count = old.count /\ s.oldCount = old.oldCount
          /\ s.alone = old.alone /\ s.quiet = old.quiet /\ s.acted = old.acted
      BY <1>1, <2>3 DEF WriterState
    <2> QED BY <2>1, <2>5, <2>6, <2>7
  <1>6. writers'[w] = s /\ Steps(w)' = Steps(w)
    BY <1>1, <1>5 DEF Steps
  <1>7. Running(w)
    BY DEF Deploy, SendChunk, At, Running, Writing
  <1>8. WriterInv(w)'
    BY <1>1, <1>3, <1>5, <1>6 DEF WriterInv, At, NotSent, ReadingBack
  <1>9. ReadbackInv(w)'
    BY <1>5, <1>6 DEF ReadbackInv, At
  <1>10. PICK sent \in SUBSET Message : sent = {m}
    BY <1>4
  <1>11. messages' = messages \cup sent /\ clock' = IF sent = {} THEN clock ELSE clock + 1
    BY <1>4, <1>10
  <1>12. \A n \in sent :
           /\ n.by = w /\ n.stamp = clock /\ n.chunk = Wanted(w, n.idx)
           /\ (n.kind = "delete") = ~IsWrite(w, n.idx)
           /\ n.idx < Greater(Len(PackageOf[w]), s.oldCount)
    BY <1>4, <1>5, <1>10 DEF Steps
  <1> QED BY <1>1, <1>3, <1>5, <1>7, <1>8, <1>9, <1>11, <1>12, WriterMoves

(***************************************************************************)
(* The steps of a writer that read the manifest back and compare.          *)
(***************************************************************************)
LEMMA WriterReadsBack ==
  ASSUME ManifestInv, NEW w \in Writer,
         ReadBackCount(w) \/ ReadBackChunk(w) \/ Verify(w)
  PROVE  ManifestInv'
  <1> DEFINE old == writers[w]
  <1>1. /\ writers \in [Writer -> WriterState] /\ old \in WriterState
        /\ WriterInv(w) /\ ReadbackInv(w) /\ Steps(w) \in 1..MAX_CHUNKS
        /\ MAX_CHUNKS \in Nat /\ account.count \in 0..MAX_CHUNKS
        /\ account.chunks \in [Index -> Text]
        /\ Undisturbed(w) =>
             \A i \in 0..(old.next - 1) : account.chunks[i] = Wanted(w, i)
    BY OneWriter
  <1>2. UNCHANGED <<account, messages, clock, latest, reader>>
    BY DEF ReadBackCount, ReadBackChunk, Verify
  <1>3. /\ old.count \in 0..MAX_CHUNKS /\ old.got \in Seq(Text) /\ Len(old.got) \in Nat
        /\ old.oldCount \in 0..MAX_CHUNKS
    BY <1>1 DEF WriterState
  <1>4. CASE ReadBackCount(w)
    <2>1. PICK s : s = [old EXCEPT !.pc = "readChunks", !.count = account.count]
      OBVIOUS
    <2>2. s \in WriterState
      BY <1>1, <2>1 DEF WriterState, Where
    <2>3. writers' = [writers EXCEPT ![w] = s]
      BY <1>1, <1>4, <2>1 DEF ReadBackCount
    <2>4. /\ s.pc = "readChunks" /\ s.count = account.count
          /\ s.tries = old.tries /\ s.next = old.next /\ s.got = old.got
          /\ s.oldCount = old.oldCount /\ s.alone = old.alone
          /\ s.quiet = old.quiet /\ s.acted = old.acted
      BY <1>1, <2>1 DEF WriterState
    <2>5. old.pc = "readCount" /\ Running(w)
      BY <1>4 DEF ReadBackCount, At, Running, ReadingBack
    <2>6. old.got = << >> /\ Len(old.got) = 0
      BY <1>1, <2>5 DEF WriterInv
    <2>7. writers'[w] = s /\ Steps(w)' = Steps(w)
      BY <1>1, <2>3, <2>4 DEF Steps
    <2>8. WriterInv(w)'
      BY <1>1, <1>2, <2>4, <2>5, <2>6, <2>7 DEF WriterInv, At, NotSent, ReadingBack
    <2>9. ReadbackInv(w)'
      BY <1>2, <2>4, <2>6, <2>7 DEF ReadbackInv, At, Reads
    <2> QED BY <1>1, <1>2, <2>2, <2>3, <2>4, <2>5, <2>8, <2>9, WriterNotes
  <1>5. CASE ReadBackChunk(w)
    <2>1. /\ old.pc = "readChunks" /\ Running(w) /\ Len(old.got) < old.count
          /\ writers' = [writers EXCEPT ![w].got = Append(@, account.chunks[Len(old.got)])]
      BY <1>5 DEF ReadBackChunk, At, Running, ReadingBack
    <2>2. PICK c \in Text : c = account.chunks[Len(old.got)]
      <3>1. Len(old.got) \in Index
        BY <1>1, <1>3, <2>1 DEF Index
      <3> QED BY <1>1, <3>1
    <2>3. PICK g : g = Append(old.got, c)
      OBVIOUS
    <2>4. /\ g \in Seq(Text) /\ Len(g) = Len(old.got) + 1 /\ g[Len(g)] = c
          /\ \A k \in 1..Len(old.got) : g[k] = old.got[k]
      BY <1>3, <2>3
    <2>5. PICK s : s = [old EXCEPT !.got = g]
      OBVIOUS
    <2>6. s \in WriterState
      BY <1>1, <2>4, <2>5 DEF WriterState
    <2>7. writers' = [writers EXCEPT ![w] = s]
      BY <1>1, <2>1, <2>2, <2>3, <2>5
    <2>8. /\ s.pc = old.pc /\ s.count = old.count
          /\ s.tries = old.tries /\ s.next = old.next /\ s.got = g
          /\ s.oldCount = old.oldCount /\ s.alone = old.alone
          /\ s.quiet = old.quiet /\ s.acted = old.acted
      BY <1>1, <2>5 DEF WriterState
    <2>9. writers'[w] = s /\ Steps(w)' = Steps(w) /\ Undisturbed(w)' = Undisturbed(w)
      BY <1>1, <1>2, <2>7, <2>8 DEF Steps, Undisturbed
    <2>10. Len(g) <= old.count
      BY <1>3, <2>1, <2>4
    <2>11. WriterInv(w)'
      BY <1>1, <1>2, <2>1, <2>8, <2>9, <2>10 DEF WriterInv, At, NotSent, ReadingBack
    <2>12. ASSUME Undisturbed(w)
           PROVE  Reads(old.count, g)
      <3>1. Reads(old.count, old.got)
        BY <1>1, <2>1, <2>12 DEF ReadbackInv, At
      <3>2. \A k \in 1..Len(g) : k \in 1..Len(old.got) \/ k = Len(g)
        BY <1>3, <2>4
      <3>3. Len(g) - 1 = Len(old.got)
        BY <1>3, <2>4
      <3> QED BY <2>2, <2>4, <3>1, <3>2, <3>3 DEF Reads
    <2>13. ReadbackInv(w)'
      BY <1>2, <2>1, <2>8, <2>9, <2>12 DEF ReadbackInv, At, Reads
    <2> QED BY <1>1, <1>2, <2>1, <2>6, <2>7, <2>8, <2>11, <2>13, WriterNotes
  <1>6. CASE Verify(w)
    <2>1. old.pc = "readChunks" /\ Running(w) /\ Len(old.got) = old.count
      BY <1>6 DEF Verify, At, Running, ReadingBack
    <2>2. PICK s : s = [old EXCEPT !.pc = IF IsIntended(w) THEN "verified" ELSE "failed"]
      OBVIOUS
    <2>3. s \in WriterState
      BY <1>1, <2>2 DEF WriterState, Where
    <2>4. writers' = [writers EXCEPT ![w] = s]
      BY <1>1, <1>6, <2>2 DEF Verify
    <2>5. /\ s.pc = IF IsIntended(w) THEN "verified" ELSE "failed"
          /\ s.count = old.count
          /\ s.tries = old.tries /\ s.next = old.next /\ s.got = old.got
          /\ s.oldCount = old.oldCount /\ s.alone = old.alone
          /\ s.quiet = old.quiet /\ s.acted = old.acted
      BY <1>1, <2>2 DEF WriterState
    <2>6. writers'[w] = s /\ Steps(w)' = Steps(w) /\ Undisturbed(w)' = Undisturbed(w)
      BY <1>1, <1>2, <2>4, <2>5 DEF Steps, Undisturbed
    <2>7. WriterInv(w)'
      BY <1>1, <1>2, <2>1, <2>5, <2>6 DEF WriterInv, At, NotSent, ReadingBack
    <2>8. ASSUME Undisturbed(w), IsIntended(w)
          PROVE  Content = Package(w)
      <3>1. Reads(old.count, old.got)
        BY <1>1, <2>1, <2>8 DEF ReadbackInv, At
      <3>2. Len(old.got) = account.count
        BY <2>1, <3>1 DEF Reads
      <3>3. Joined(old.got) = Content
        BY <1>3, <3>1, <3>2, ReadInFull DEF Reads
      <3> QED BY <2>8, <3>3 DEF IsIntended
    <2>9. ReadbackInv(w)'
      BY <1>2, <2>5, <2>6, <2>8 DEF ReadbackInv, At, Content, Package
    <2> QED BY <1>1, <1>2, <2>1, <2>3, <2>4, <2>5, <2>7, <2>9, WriterNotes
  <1> QED BY <1>4, <1>5, <1>6

(***************************************************************************)
(* The beginning of a set.                                                 *)
(***************************************************************************)
LEMMA WriterBegins ==
  ASSUME ManifestInv, NEW w \in Writer, Begin(w)
  PROVE  ManifestInv'
  <1> DEFINE old == writers[w]
  <1>1. /\ writers \in [Writer -> WriterState] /\ old \in WriterState
        /\ WriterInv(w) /\ MAX_CHUNKS \in Nat /\ MAX_TRIES \in Nat \ {0}
    BY OneWriter
  <1>2. UNCHANGED <<account, messages, clock, reader>> /\ latest' = w /\ old.pc = "idle"
    BY DEF Begin, At
  <1>3. PICK alone \in BOOLEAN : alone = \A o \in Writer : ~Running(o)
    OBVIOUS
  <1>4. PICK quiet \in BOOLEAN : quiet = (alone /\ messages = {})
    OBVIOUS
  <1>5. PICK s : s = [old EXCEPT !.pc = IF account.deployed THEN "oldCount" ELSE "deploy",
                                 !.alone = alone, !.quiet = quiet]
    OBVIOUS
  <1>6. s \in WriterState
    BY <1>1, <1>5 DEF WriterState, Where
  <1>7. writers' = [writers EXCEPT ![w] = s]
    BY <1>1, <1>3, <1>4, <1>5 DEF Begin
  <1>8. /\ s.pc = IF account.deployed THEN "oldCount" ELSE "deploy"
        /\ s.alone = alone /\ s.quiet = quiet /\ s.acted = old.acted
        /\ s.tries = old.tries /\ s.next = old.next /\ s.got = old.got
        /\ s.count = old.count /\ s.oldCount = old.oldCount
    BY <1>1, <1>5 DEF WriterState
  <1>9. /\ writers' \in [Writer -> WriterState] /\ writers'[w] = s
        /\ \A o \in Writer \ {w} : writers'[o] = writers[o]
    BY <1>1, <1>6, <1>7
  <1>10. /\ old.tries = 0 /\ old.next = 0 /\ old.got = << >> /\ ~old.acted
         /\ \A m \in messages : m.by # w
    BY <1>1, <1>2 DEF WriterInv, At, NotSent
  <1>11. StoreTyped'
    BY <1>2, <1>9 DEF ManifestInv, StoreTyped
  <1>12. CountCovers'
    BY <1>2 DEF ManifestInv, CountCovers
  <1>13. \A o \in Writer : InCharge(o)' \/ Undisturbed(o)' => o = w
    BY <1>2 DEF InCharge, Undisturbed
  <1>14. /\ InCharge(w)' => \A o \in Writer : ~Running(o)
         /\ Undisturbed(w)' => messages = {}
    BY <1>3, <1>4, <1>8, <1>9, <1>10 DEF InCharge, Undisturbed
  <1>15. EveryWriter'
    <2> SUFFICES ASSUME NEW o \in Writer
                 PROVE  WriterInv(o)' /\ ChargeInv(o)' /\ ReadbackInv(o)'
      BY DEF EveryWriter
    <2>1. CASE o = w
      <3>1. WriterInv(w)'
        BY <1>1, <1>2, <1>3, <1>4, <1>8, <1>9, <1>10 DEF WriterInv, At, NotSent, ReadingBack
      <3>2. ReadbackInv(w)'
        BY <1>8, <1>9 DEF ReadbackInv, At
      <3>3. \A x \in Writer \ {w} : Running(x)' = Running(x)
        BY <1>9 DEF Running
      <3>4. ChargeInv(w)'
        BY <1>2, <1>10, <1>14, <3>3 DEF ChargeInv
      <3> QED BY <2>1, <3>1, <3>2, <3>4
    <2>2. CASE o # w
      <3>1. WriterInv(o) /\ writers'[o] = writers[o]
        BY <1>9, <2>2 DEF ManifestInv, EveryWriter
      <3>2. WriterInv(o)'
        BY <1>2, <3>1 DEF WriterInv, At, Steps
      <3>3. ChargeInv(o)' /\ ReadbackInv(o)'
        BY <1>13, <2>2 DEF ChargeInv, ReadbackInv
      <3> QED BY <3>2, <3>3
    <2> QED BY <2>1, <2>2
  <1>16. EveryMessage'
    <2> SUFFICES ASSUME NEW m \in messages
                 PROVE  MessageInv(m)'
      BY <1>2 DEF EveryMessage
    <2>1. MessageInv(m) /\ m.by \in Writer
      BY DEF ManifestInv, StoreTyped, EveryMessage, Message
    <2>2. Steps(m.by)' = Steps(m.by)
      BY <1>9, <1>10, <2>1 DEF Steps
    <2> QED BY <1>2, <2>1, <2>2 DEF MessageInv
  <1>17. ConfirmedChunksHold'
    <2>1. \A i \in 0..(s.next - 1) : FALSE
      BY <1>8, <1>10
    <2> QED BY <1>9, <1>13, <2>1 DEF ConfirmedChunksHold
  <1>18. ReaderInv'
    <2>1. ReaderInv /\ reader.found \in Writer \cup {Nobody}
      BY DEF ManifestInv, StoreTyped
    <2>2. reader.found # Nobody => reader.found # w
      BY <1>2, <2>1 DEF ReaderInv, At
    <2>3. reader.found # Nobody => At(reader.found, "verified")'
      BY <1>2, <1>9, <2>1, <2>2 DEF ReaderInv, At
    <2> QED BY <1>2, <2>1, <2>2, <2>3 DEF ReaderInv
  <1> QED BY <1>11, <1>12, <1>15, <1>16, <1>17, <1>18 DEF ManifestInv

(***************************************************************************)
(* The steps of the reader.                                                *)
(***************************************************************************)
LEMMA ReaderSteps ==
  ASSUME ManifestInv, GetCount \/ GetChunk \/ GetReturns
  PROVE  ManifestInv'
  <1>1. UNCHANGED <<account, messages, clock, writers, latest>>
    BY DEF GetCount, GetChunk, GetReturns
  <1>2. /\ StoreTyped /\ ReaderInv
        /\ reader \in [pc : {"idle", "reading", "done"}, count : 0..MAX_CHUNKS,
                        got : Seq(Text), found : Writer \cup {Nobody}]
        /\ account.count \in 0..MAX_CHUNKS /\ account.chunks \in [Index -> Text]
        /\ latest \in Writer \cup {Nobody} /\ MAX_CHUNKS \in Nat
    BY ManifestAssumption DEF ManifestInv, StoreTyped
  <1>3. /\ reader.count \in 0..MAX_CHUNKS /\ reader.got \in Seq(Text)
        /\ Len(reader.got) \in Nat
    BY <1>2
  <1>4. ASSUME /\ reader' \in [pc : {"idle", "reading", "done"}, count : 0..MAX_CHUNKS,
                               got : Seq(Text), found : Writer \cup {Nobody}],
               ReaderInv'
        PROVE  ManifestInv'
    <2>1. StoreTyped' /\ CountCovers' /\ EveryMessage' /\ ConfirmedChunksHold'
      BY <1>1, <1>2, <1>4
         DEF ManifestInv, StoreTyped, CountCovers, EveryMessage, MessageInv, Steps,
             ConfirmedChunksHold, Undisturbed
    <2>2. EveryWriter'
      BY <1>1 DEF ManifestInv, EveryWriter, WriterInv, ChargeInv, ReadbackInv, At, Steps,
                  InCharge, Undisturbed, Running, Reads, Content
    <2> QED BY <1>4, <2>1, <2>2 DEF ManifestInv
  <1>5. CASE GetCount
    <2>1. PICK found \in Writer \cup {Nobody} : found = IF Settled THEN latest ELSE Nobody
      BY <1>2
    <2>2. reader.pc = "idle" /\ reader' = [reader EXCEPT !.pc = "reading",
                                              !.count = account.count, !.found = found]
      BY <1>5, <2>1 DEF GetCount
    <2>3. /\ reader' \in [pc : {"idle", "reading", "done"}, count : 0..MAX_CHUNKS,
                          got : Seq(Text), found : Writer \cup {Nobody}]
          /\ reader'.pc = "reading" /\ reader'.count = account.count
          /\ reader'.found = found /\ reader'.got = reader.got
      BY <1>2, <2>2
    <2>4. reader.got = << >> /\ Len(reader.got) = 0
      BY <1>2, <2>2 DEF ReaderInv
    <2>5. found # Nobody => Undisturbed(latest) /\ At(latest, "verified") /\ found = latest
      BY <2>1 DEF Settled, Undisturbed
    <2>6. ReaderInv'
      BY <1>1, <2>3, <2>4, <2>5 DEF ReaderInv, At, Undisturbed, Reads
    <2> QED BY <1>4, <2>3, <2>6
  <1>6. CASE GetChunk
    <2>1. PICK c \in Text : c = account.chunks[Len(reader.got)]
      <3>1. Len(reader.got) \in Index
        BY <1>2, <1>3, <1>6 DEF GetChunk, Index
      <3> QED BY <1>2, <3>1
    <2>2. PICK g : g = Append(reader.got, c)
      OBVIOUS
    <2>3. /\ g \in Seq(Text) /\ Len(g) = Len(reader.got) + 1 /\ g[Len(g)] = c
          /\ \A k \in 1..Len(reader.got) : g[k] = reader.got[k]
      BY <1>3, <2>2
    <2>4. reader.pc = "reading" /\ reader' = [reader EXCEPT !.got = g]
      BY <1>6, <2>1, <2>2 DEF GetChunk
    <2>5. /\ reader' \in [pc : {"idle", "reading", "done"}, count : 0..MAX_CHUNKS,
                          got : Seq(Text), found : Writer \cup {Nobody}]
          /\ reader'.pc = "reading" /\ reader'.count = reader.count
          /\ reader'.found = reader.found /\ reader'.got = g
      BY <1>2, <2>3, <2>4
    <2>6. ASSUME Reads(reader.count, reader.got)
          PROVE  Reads(reader.count, g)
      <3>1. \A k \in 1..Len(g) : k \in 1..Len(reader.got) \/ k = Len(g)
        BY <1>3, <2>3
      <3>2. Len(g) - 1 = Len(reader.got)
        BY <1>3, <2>3
      <3> QED BY <2>1, <2>3, <2>6, <3>1, <3>2 DEF Reads
    <2>7. ReaderInv'
      BY <1>1, <1>2, <2>5, <2>6 DEF ReaderInv, At, Undisturbed, Reads
    <2> QED BY <1>4, <2>5, <2>7
  <1>7. CASE GetReturns
    <2>1. /\ Len(reader.got) = reader.count /\ reader.pc = "reading"
          /\ reader' = [reader EXCEPT !.pc = "done"]
      BY <1>7 DEF GetReturns
    <2>2. /\ reader' \in [pc : {"idle", "reading", "done"}, count : 0..MAX_CHUNKS,
                          got : Seq(Text), found : Writer \cup {Nobody}]
          /\ reader'.pc = "done" /\ reader'.count = reader.count
          /\ reader'.found = reader.found /\ reader'.got = reader.got
      BY <1>2, <2>1
    <2>3. ReaderInv'
      BY <1>1, <1>2, <2>1, <2>2 DEF ReaderInv, At, Undisturbed, Reads
    <2> QED BY <1>4, <2>2, <2>3
  <1> QED BY <1>5, <1>6, <1>7

(***************************************************************************)
(* The chain executes a message.  To an undisturbed writer that has        *)
(* confirmed all its chunks it changes nothing: the message is its own,    *)
(* and what it puts there is there.                                        *)
(***************************************************************************)
LEMMA ChainDelivers ==
  ASSUME ManifestInv, NEW m \in messages, Deliver(m)
  PROVE  ManifestInv'
  <1>1. /\ writers \in [Writer -> WriterState] /\ m \in Message
        /\ m.by \in Writer /\ m.idx \in Index /\ m.chunk \in Text /\ m.stamp \in Nat
        /\ MessageInv(m) /\ messages \subseteq Message
        /\ account \in [deployed : BOOLEAN, chunks : [Index -> Text], count : 0..MAX_CHUNKS]
    BY DEF ManifestInv, StoreTyped, EveryMessage, Message
  <1>2. UNCHANGED <<clock, latest, reader>> /\ messages' = {o \in messages : o.stamp > m.stamp}
    BY DEF Deliver
  <1>3. PICK by \in Writer : by = m.by
    BY <1>1
  <1>4. PICK acted \in BOOLEAN :
          acted = (writers[by].acted \/ (writers[by].pc \in Writing /\ writers[by].next = 0))
    OBVIOUS
  <1>5. PICK s : s = [writers[by] EXCEPT !.acted = acted]
    OBVIOUS
  <1>6. s \in WriterState /\ writers' = [writers EXCEPT ![by] = s]
    <2>1. s \in WriterState
      BY <1>1, <1>5 DEF WriterState
    <2>2. writers' = [writers EXCEPT ![by].acted = acted]
      BY <1>1, <1>3, <1>4 DEF Deliver, WriterState
    <2> QED BY <1>1, <1>5, <2>1, <2>2
  <1>7. /\ s.pc = writers[by].pc /\ s.alone = writers[by].alone
        /\ s.quiet = writers[by].quiet /\ s.acted = acted
        /\ s.tries = writers[by].tries /\ s.next = writers[by].next /\ s.got = writers[by].got
        /\ s.count = writers[by].count /\ s.oldCount = writers[by].oldCount
    BY <1>1, <1>5 DEF WriterState
  <1>8. /\ writers' \in [Writer -> WriterState]
        /\ \A o \in Writer :
             /\ writers'[o].pc = writers[o].pc /\ writers'[o].alone = writers[o].alone
             /\ writers'[o].quiet = writers[o].quiet /\ writers'[o].tries = writers[o].tries
             /\ writers'[o].next = writers[o].next /\ writers'[o].got = writers[o].got
             /\ writers'[o].count = writers[o].count
             /\ writers'[o].oldCount = writers[o].oldCount
             /\ writers'[o].acted =
                  (writers[o].acted \/ (o = by /\ o = m.by /\ writers[o].pc \in Writing /\ writers[o].next = 0))
    <2>1. writers'[by] = s /\ \A o \in Writer \ {by} : writers'[o] = writers[o]
      BY <1>1, <1>6
    <2>2. writers' \in [Writer -> WriterState]
      BY <1>1, <1>6
    <2>3. \A o \in Writer : writers[o].acted \in BOOLEAN
      BY <1>1 DEF WriterState
    <2> QED BY <1>3, <1>4, <1>7, <2>1, <2>2, <2>3
  <1>9. /\ account'.deployed = TRUE
        /\ account'.chunks = [account.chunks EXCEPT ![m.idx] = m.chunk]
        /\ account'.count = IF m.kind = "delete" THEN account.count
                                                ELSE Greater(account.count, m.idx + 1)
    BY DEF Deliver
  <1>10. /\ account.chunks \in [Index -> Text] /\ account.count \in 0..MAX_CHUNKS
         /\ MAX_CHUNKS \in Nat /\ m.idx \in 0..(MAX_CHUNKS - 1)
    BY <1>1, ManifestAssumption DEF Index
  <1>11. /\ account'.count \in 0..MAX_CHUNKS /\ account.count <= account'.count
         /\ (m.kind # "delete" => m.idx < account'.count)
         /\ (m.idx < account.count => account'.count = account.count)
    BY <1>9, <1>10 DEF Greater
  <1>12. /\ account'.chunks \in [Index -> Text] /\ account'.chunks[m.idx] = m.chunk
         /\ \A i \in Index \ {m.idx} : account'.chunks[i] = account.chunks[i]
    BY <1>1, <1>9, <1>10
  <1>13. StoreTyped'
    <2>1. account' \in [deployed : BOOLEAN, chunks : [Index -> Text], count : 0..MAX_CHUNKS]
      BY <1>11, <1>12 DEF Deliver
    <2> QED BY <1>1, <1>2, <1>8, <2>1 DEF ManifestInv, StoreTyped
  <1>14. CountCovers'
    <2>1. CountCovers
      BY DEF ManifestInv
    <2>2. m.kind = "delete" => m.chunk = Empty
      BY <1>1 DEF MessageInv, Wanted
    <2>3. 0 < account'.count
      <3>1. CASE m.kind = "delete"
        <4>1. account.deployed
          BY <1>1, <3>1 DEF Deliver
        <4> QED BY <1>10, <1>11, <2>1, <4>1 DEF CountCovers
      <3>2. CASE m.kind # "delete"
        BY <1>10, <1>11, <3>2
      <3> QED BY <3>1, <3>2
    <2>4. ASSUME NEW i \in Index, account'.chunks[i] # Empty
          PROVE  i < account'.count
      <3>1. CASE i = m.idx
        BY <1>11, <1>12, <2>2, <2>4, <3>1
      <3>2. CASE i # m.idx
        <4>1. i < account.count /\ i \in Nat
          BY <1>12, <2>1, <2>4, <3>2 DEF CountCovers, Index
        <4> QED BY <1>10, <1>11, <4>1
      <3> QED BY <3>1, <3>2
    <2> QED BY <2>3, <2>4 DEF CountCovers
  <1>15. \A o \in Writer : InCharge(o)' = InCharge(o) /\ Running(o)' = Running(o)
    BY <1>2, <1>8 DEF InCharge, Running
  <1>16. \A o \in Writer : Undisturbed(o) => Undisturbed(o)'
    BY <1>2, <1>8 DEF Undisturbed
  <1>17. \A o \in Writer : Undisturbed(o)' =>
           \/ Undisturbed(o) /\ o = m.by
           \/ o = m.by /\ InCharge(o) /\ writers[o].pc \in Writing /\ writers[o].next = 0
    <2> SUFFICES ASSUME NEW o \in Writer, Undisturbed(o)'
                 PROVE  \/ Undisturbed(o) /\ o = m.by
                        \/ /\ o = m.by /\ InCharge(o) /\ writers[o].pc \in Writing
                           /\ writers[o].next = 0
      OBVIOUS
    <2>1. CASE Undisturbed(o)
      BY <2>1 DEF ManifestInv, EveryWriter, ChargeInv
    <2>2. CASE ~Undisturbed(o)
      BY <1>2, <1>8, <2>2 DEF Undisturbed, InCharge
    <2> QED BY <2>1, <2>2
  <1>18. ASSUME NEW o \in Writer, Undisturbed(o)',
                writers[o].pc \in {"readChunks", "verified"}
         PROVE  /\ Undisturbed(o)
                /\ account'.chunks = account.chunks /\ account'.count = account.count
    <2>1. Undisturbed(o) /\ o = m.by
      BY <1>17, <1>18 DEF Writing
    <2>2. writers[o].next >= Steps(o) /\ account.deployed
      BY <1>18 DEF ManifestInv, EveryWriter, WriterInv, ReadingBack
    <2>3. Steps(o) \in Nat /\ writers[o].next \in Nat
      <3>1. Steps(o) \in 1..MAX_CHUNKS /\ writers[o] \in WriterState
        BY OneWriter
      <3>2. writers[o].next \in 0..MAX_CHUNKS
        BY <3>1 DEF WriterState
      <3> QED BY <1>10, <3>1, <3>2
    <2>4. m.idx \in 0..(writers[o].next - 1)
      BY <1>1, <1>10, <2>1, <2>2, <2>3 DEF MessageInv
    <2>5. account.chunks[m.idx] = Wanted(o, m.idx)
      BY <2>1, <2>4 DEF ManifestInv, ConfirmedChunksHold
    <2>6. account.chunks[m.idx] = m.chunk
      BY <1>1, <2>1, <2>5 DEF MessageInv
    <2>7. account'.chunks = account.chunks
      BY <1>1, <1>9, <1>10, <2>6
    <2>8. account'.count = account.count
      <3>1. CASE m.kind = "delete"
        BY <1>9, <3>1
      <3>2. CASE m.kind # "delete"
        <4>1. IsWrite(o, m.idx)
          BY <1>1, <2>1, <3>2 DEF MessageInv
        <4>2. Wanted(o, m.idx) # Empty \/ m.idx = 0
          BY <1>1, <4>1, Packages
        <4>3. m.idx < account.count
          BY <1>1, <2>2, <2>5, <4>2 DEF ManifestInv, CountCovers
        <4> QED BY <1>11, <4>3
      <3> QED BY <3>1, <3>2
    <2> QED BY <2>1, <2>7, <2>8
  <1>19. EveryWriter'
    <2> SUFFICES ASSUME NEW o \in Writer
                 PROVE  WriterInv(o)' /\ ChargeInv(o)' /\ ReadbackInv(o)'
      BY DEF EveryWriter
    <2>1. WriterInv(o) /\ ChargeInv(o) /\ ReadbackInv(o)
      BY DEF ManifestInv, EveryWriter
    <2>2. Steps(o)' = Steps(o)
      BY <1>8 DEF Steps
    <2>3. At(o, "idle") => ~writers'[o].acted
      BY <1>8, <2>1 DEF WriterInv, At, Writing
    <2>4. WriterInv(o)'
      BY <1>2, <1>8, <1>9, <2>1, <2>2, <2>3 DEF WriterInv, At
    <2>5. Undisturbed(o)' => \A n \in messages' : n.by = o
      <3> SUFFICES ASSUME Undisturbed(o)', NEW n \in messages', n.by # o
                   PROVE  FALSE
        OBVIOUS
      <3>1. n \in messages /\ n.stamp > m.stamp /\ n.stamp \in Nat
        BY <1>1, <1>2 DEF Message
      <3>2. o = m.by /\ InCharge(o) /\ ~Undisturbed(o)
        BY <1>17, <2>1, <3>1 DEF ChargeInv
      <3>3. n.stamp < m.stamp
        BY <2>1, <3>1, <3>2 DEF ChargeInv
      <3> QED BY <1>1, <3>1, <3>3
    <2>6. ChargeInv(o)'
      BY <1>2, <1>15, <2>1, <2>5 DEF ChargeInv
    <2>7. ReadbackInv(o)'
      <3>1. ASSUME Undisturbed(o)', At(o, "readChunks")'
            PROVE  Reads(writers[o].count, writers[o].got)'
        <4>1. writers[o].pc = "readChunks"
          BY <1>8, <3>1 DEF At
        <4>2. /\ Undisturbed(o)
              /\ account'.chunks = account.chunks /\ account'.count = account.count
          BY <1>18, <3>1, <4>1
        <4> QED BY <1>8, <2>1, <4>1, <4>2 DEF ReadbackInv, At, Reads
      <3>2. ASSUME Undisturbed(o)', At(o, "verified")'
            PROVE  Content' = Package(o)
        <4>1. writers[o].pc = "verified"
          BY <1>8, <3>2 DEF At
        <4>2. /\ Undisturbed(o)
              /\ account'.chunks = account.chunks /\ account'.count = account.count
          BY <1>18, <3>2, <4>1
        <4>3. Content' = Content
          BY <4>2 DEF Content
        <4> QED BY <2>1, <4>1, <4>2, <4>3 DEF ReadbackInv, At
      <3> QED BY <3>1, <3>2 DEF ReadbackInv, Package
    <2> QED BY <2>4, <2>6, <2>7
  <1>20. EveryMessage'
    <2> SUFFICES ASSUME NEW n \in messages'
                 PROVE  MessageInv(n)'
      BY DEF EveryMessage
    <2>1. n \in messages /\ MessageInv(n) /\ n.by \in Writer
      BY <1>1, <1>2 DEF ManifestInv, EveryMessage, Message
    <2>2. Steps(n.by)' = Steps(n.by)
      BY <1>8, <2>1 DEF Steps
    <2> QED BY <1>2, <2>1, <2>2 DEF MessageInv
  <1>21. ConfirmedChunksHold'
    <2> SUFFICES ASSUME NEW o \in Writer, Undisturbed(o)',
                        NEW i \in 0..(writers'[o].next - 1)
                 PROVE  account'.chunks[i] = Wanted(o, i)
      BY DEF ConfirmedChunksHold
    <2>1. i \in 0..(writers[o].next - 1) /\ writers[o].next \in 0..MAX_CHUNKS
      BY <1>1, <1>8 DEF WriterState
    <2>2. i \in Index /\ writers[o].next # 0
      BY <1>10, <2>1 DEF Index
    <2>3. Undisturbed(o) /\ o = m.by
      BY <1>17, <2>2
    <2>4. CASE i = m.idx
      BY <1>1, <1>12, <2>3, <2>4 DEF MessageInv
    <2>5. CASE i # m.idx
      BY <1>12, <2>1, <2>2, <2>3, <2>5 DEF ManifestInv, ConfirmedChunksHold
    <2> QED BY <2>4, <2>5
  <1>22. ReaderInv'
    <2>1. ReaderInv /\ reader.found \in Writer \cup {Nobody}
      BY DEF ManifestInv, StoreTyped
    <2>2. reader.found # Nobody => At(reader.found, "verified")'
      BY <1>2, <1>8, <2>1 DEF ReaderInv, At
    <2>3. ASSUME reader.found # Nobody, reader.found = latest
          PROVE  Undisturbed(latest)' /\ Reads(reader.count, reader.got)'
      <3>1. PICK o \in Writer : o = latest
        BY <2>1, <2>3
      <3>2. /\ Undisturbed(o) /\ Reads(reader.count, reader.got)
            /\ writers[o].pc = "verified"
        BY <2>1, <2>3, <3>1 DEF ReaderInv, At
      <3>3. Undisturbed(o)'
        BY <1>16, <3>2
      <3>4. account'.chunks = account.chunks /\ account'.count = account.count
        BY <1>18, <3>2, <3>3
      <3>5. Undisturbed(latest)'
        BY <1>2, <3>1, <3>3 DEF Undisturbed
      <3> QED BY <1>2, <3>2, <3>4, <3>5 DEF Reads
    <2> QED BY <1>2, <2>1, <2>2, <2>3 DEF ReaderInv
  <1> QED BY <1>13, <1>14, <1>19, <1>20, <1>21, <1>22 DEF ManifestInv

(***************************************************************************)
(* Every step keeps the invariant.                                         *)
(***************************************************************************)
LEMMA ManifestStep == ManifestInv /\ [ManifestNext]_manifestVars => ManifestInv'
  <1> SUFFICES ASSUME ManifestInv, [ManifestNext]_manifestVars
               PROVE  ManifestInv'
    OBVIOUS
  <1>1. ASSUME NEW m \in messages, Deliver(m)
        PROVE  ManifestInv'
    BY <1>1, ChainDelivers
  <1>2. ASSUME NEW w \in Writer, WriterStep(w)
        PROVE  ManifestInv'
    BY <1>2, WriterBegins, WriterGoesOn, WriterSends, WriterReadsBack DEF WriterStep
  <1>3. CASE GetCount \/ GetChunk \/ GetReturns
    BY <1>3, ReaderSteps
  <1>4. CASE UNCHANGED manifestVars
    <2> USE <1>4 DEF manifestVars
    <2>1. StoreTyped' /\ CountCovers' /\ EveryMessage' /\ ConfirmedChunksHold'
      BY DEF ManifestInv, StoreTyped, CountCovers, EveryMessage, MessageInv, Steps,
             ConfirmedChunksHold, Undisturbed
    <2>2. EveryWriter'
      BY DEF ManifestInv, EveryWriter, WriterInv, ChargeInv, ReadbackInv, At, Steps,
             InCharge, Undisturbed, Running, Reads, Content
    <2>3. ReaderInv'
      BY DEF ManifestInv, ReaderInv, At, Undisturbed, Reads
    <2> QED BY <2>1, <2>2, <2>3 DEF ManifestInv
  <1> QED BY <1>1, <1>2, <1>3, <1>4 DEF ManifestNext, Finished

-----------------------------------------------------------------------------
(* Theorems *)

(***************************************************************************)
(* Chunks that an undisturbed set has confirmed stay, and a package it has *)
(* verified is the content until another set begins: for any packages and  *)
(* writers, whichever messages are lost, late or repeated.                 *)
(***************************************************************************)
THEOREM PackagesStayWhole == ManifestSpec => []PackagesPersist
  <1>1. ManifestInv => PackagesPersist
    <2> SUFFICES ASSUME ManifestInv
                 PROVE  PackagesPersist
      OBVIOUS
    <2>1. ManifestTypeOK
      <3>1. \A w \in Writer : /\ writers[w].next \in 0..MAX_CHUNKS
                              /\ writers[w].tries \in 0..MAX_TRIES
                              /\ Len(writers[w].got) <= writers[w].count
        BY DEF ManifestInv, StoreTyped, WriterState, EveryWriter, WriterInv
      <3>2. \A m \in messages : m.idx \in Index /\ m.stamp \in 1..(clock - 1)
        BY DEF ManifestInv, StoreTyped, Message, EveryMessage, MessageInv
      <3> QED BY <3>1, <3>2 DEF ManifestInv, StoreTyped, ManifestTypeOK
    <2>2. VerifiedPackageStays
      BY DEF ManifestInv, EveryWriter, ReadbackInv, VerifiedPackageStays, Settled, Undisturbed
    <2> QED BY <2>1, <2>2 DEF ManifestInv, PackagesPersist
  <1> QED BY <1>1, ManifestInitially, ManifestStep, PTL DEF ManifestSpec

(***************************************************************************)
(* A read that began after such a set, and before any other, returned its  *)
(* package whole.                                                          *)
(***************************************************************************)
THEOREM SettledReadsStayWhole == ManifestSpec => []SettledReadsAreWhole
  <1>1. ManifestInv => SettledReadsAreWhole
    <2> SUFFICES ASSUME ManifestInv, reader.pc = "done", reader.found # Nobody,
                        reader.found = latest
                 PROVE  Joined(reader.got) = Package(latest)
      BY DEF SettledReadsAreWhole
    <2>1. latest \in Writer /\ reader.got \in Seq(Text)
      BY DEF ManifestInv, StoreTyped
    <2>2. /\ Undisturbed(latest) /\ At(latest, "verified")
          /\ Reads(reader.count, reader.got) /\ Len(reader.got) = reader.count
      BY DEF ManifestInv, ReaderInv
    <2>3. Joined(reader.got) = Content
      BY <2>1, <2>2, ReadInFull DEF Reads
    <2>4. Content = Package(latest)
      BY <2>1, <2>2 DEF ManifestInv, EveryWriter, ReadbackInv
    <2> QED BY <2>3, <2>4
  <1> QED BY <1>1, ManifestInitially, ManifestStep, PTL DEF ManifestSpec
=============================================================================
