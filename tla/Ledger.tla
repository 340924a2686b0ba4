------------------------------- MODULE Ledger -------------------------------
(***************************************************************************)
(* The durable journal of the coordinator: src/src/ledger.cpp on top of    *)
(* the file primitives of src/src/state.cpp.                               *)
(*                                                                         *)
(* On disk there are the boot record (head.bin) and the segment files      *)
(* (journal-NNNNN.log).  A write to a segment is a "chunk": the leading    *)
(* `bytes' bytes of one frame.  A chunk is whole when the frame was        *)
(* written completely; a process killed inside append_file_flushed, or a   *)
(* write error, leaves a shorter one.  The chunks of all segments, in file *)
(* and offset order, form `journal'.  Sizes are small numbers that keep    *)
(* what the code compares: header, payload, segment and journal bounds.    *)
(*                                                                         *)
(* A SHA-256 chain value is modelled by what it digests: the sequence and  *)
(* the payload (the link field is zeroed before hashing).                  *)
(***************************************************************************)
EXTENDS Integers, Sequences, FiniteSets, FiniteSetsExt

CONSTANTS
  Payload,          \* record type and payload bytes of an appended record
  PayloadBytes,     \* the payload length
  HeaderBytes,      \* kFrameHeaderBytes
  MaxRecordBytes,   \* kMaxRecordBytes
  MaxSegmentBytes,  \* kMaxSegmentBytes
  MaxSegments,      \* kMaxLedgerSegments
  MaxJournalBytes,  \* kMaxJournalBytes
  TrustSet,         \* digests of the trust sets a process may start with
  NoTrust,          \* no trust set: the directory has no head record yet
  MaxFaults,        \* bound: writes, flushes and removals that fail while the process lives
  MaxEpoch,         \* bound: boots explored
  MaxChunks         \* bound: chunks on disk

ASSUME LedgerAssumption ==
  /\ PayloadBytes \in [Payload -> Nat \ {0}]
  /\ HeaderBytes \in Nat \ {0}
  /\ MaxRecordBytes \in Nat
  /\ MaxSegmentBytes \in Nat
  /\ MaxSegments \in Nat
  /\ MaxJournalBytes \in Nat
  /\ NoTrust \notin TrustSet
  /\ MaxFaults \in Nat
  /\ MaxEpoch \in Nat
  /\ MaxChunks \in Nat

VARIABLES
  \* the state directory
  head,           \* head.bin: epoch and trust set of the last boot
  journal,        \* the chunks of every segment, in order
  files,          \* segment file number -> size in bytes
  \* the Ledger object of the running process
  phase,          \* where Ledger::open is, or "ready"
  boot,           \* head_: epoch and trust set of this boot
  lastSeq,        \* head_.last_sequence
  chain,          \* chain_
  segment,        \* segment_ + 1, the file appends go to
  segmentBytes,   \* segment_bytes_
  segmentCount,   \* segment_count_
  retained,       \* retained_bytes_
  kept,           \* the segment the scan found torn (0: none)
  unremoved,      \* segments behind it that this open could not remove
  \* observation
  acked,          \* <<sequence, payload>> of every acknowledged record
  served,         \* epochs of the incarnations that finished opening
  writers,        \* epochs of the incarnations that wrote journal bytes
  faults          \* writes and removals that failed so far

disk == <<head, journal, files>>
layout == <<segment, segmentBytes, segmentCount, retained>>
memory == <<phase, boot, lastSeq, chain, layout, kept, unremoved>>
observed == <<acked, served, writers, faults>>
vars == <<disk, memory, observed>>

-----------------------------------------------------------------------------
(* Frames *)

FrameBytes(p) == HeaderBytes + PayloadBytes[p]

Digest == {<<>>} \cup (Nat \X Payload)

Chunk == [file: Nat, off: Int, bytes: Nat,
          seq: Nat, payload: Payload, link: Digest]

HeadRecord == [epoch: Nat, trust: TrustSet \cup {NoTrust}]

NoHead == [epoch |-> 0, trust |-> NoTrust]

Whole(c) == c.bytes = FrameBytes(c.payload)

\* chain_of: the digest of the zero-link header and the payload.
ChainOf(c) == <<c.seq, c.payload>>

-----------------------------------------------------------------------------
(* read_frames: the scan of every segment *)

\* The k-th chunk parses, carries the expected sequence and links to the
\* chain recomputed from the chunk before it.
Sound(k) ==
  LET c == journal[k] IN
  /\ Whole(c)
  /\ c.seq = k
  /\ c.link = IF k = 1 THEN <<>> ELSE ChainOf(journal[k - 1])

\* The scan accepts exactly the first k records.
ScanAccepts(k) ==
  /\ \A i \in 1..k : Sound(i)
  /\ k < Len(journal) => ~Sound(k + 1)

\* Defect: only a short header counts as torn, a short payload does not.
TruncatedHeader(k) ==
  ~Whole(journal[k]) /\ files[journal[k].file] - journal[k].off < HeaderBytes

\* Defect: every frame that does not check is taken for a torn tail.
TruncatedAlways(k) == k \in DOMAIN journal

\* parse_frame answers kLedgerTruncated: the segment ends inside the frame
\* that starts at chunk k.  A short chunk that is followed by enough other
\* bytes is not truncated: its header CRC or payload digest fails instead.
Truncated(k) ==
  LET c == journal[k]
      remaining == files[c.file] - c.off
  IN  /\ ~Whole(c)
      /\ IF c.bytes < HeaderBytes THEN remaining < HeaderBytes
                                  ELSE remaining < FrameBytes(c.payload)

\* A segment is read only up to kMaxSegmentBytes + 1.
Oversized(f) == files[f] > MaxSegmentBytes + 1

\* The segments the scan opens: all of them, or those up to the torn one.
ScannedFiles(k) ==
  {f \in DOMAIN files :
     k < Len(journal) /\ Truncated(k + 1) => f <= journal[k + 1].file}

\* read_frames fails: a complete frame that does not check, or a segment
\* above its bound.
ScanRefuses(k) ==
  \/ k < Len(journal) /\ ~Truncated(k + 1)
  \/ \E f \in ScannedFiles(k) : Oversized(f)

-----------------------------------------------------------------------------
(* Ledger::open *)

Init ==
  /\ head = NoHead /\ journal = <<>> /\ files = [f \in {} |-> 0]
  /\ phase = "down" /\ boot = NoHead /\ lastSeq = 0 /\ chain = <<>>
  /\ segment = 1 /\ segmentBytes = 0 /\ segmentCount = 0 /\ retained = 0
  /\ kept = 0 /\ unremoved = {}
  /\ acked = {} /\ served = {} /\ writers = {} /\ faults = 0

\* The directory belongs to another coordinator or trust set, or it has
\* journal segments but no head.
DirectoryRefused(trust) ==
  \/ head # NoHead /\ head.trust # trust
  \/ head = NoHead /\ DOMAIN files # {}

\* The in-memory chain after a scan of k records.  parse_frame surfaced the
\* link of a record as record.chain, and open takes that of the last record.
RecoveredChain(k) == IF k = 0 THEN <<>> ELSE journal[k].link

\* Defect: an existing head is served again under its own epoch.
SameBoot(trust) ==
  [epoch |-> IF head = NoHead THEN 1 ELSE head.epoch, trust |-> trust]

\* The boot this open begins: the epoch after the recorded one.
NextBoot(trust) == [epoch |-> head.epoch + 1, trust |-> trust]

\* open up to the point where it first changes the directory.
OpenRefuses(trust) ==
  /\ phase \in {"down", "refused"}
  /\ \/ DirectoryRefused(trust)
     \/ \E k \in 0..Len(journal) : ScanAccepts(k) /\ ScanRefuses(k)
  /\ phase' = "refused"
  /\ UNCHANGED <<disk, boot, lastSeq, chain, layout, kept, unremoved, observed>>

OpenScan(trust, k) ==
  /\ phase \in {"down", "refused"}
  /\ head.epoch < MaxEpoch
  /\ ~DirectoryRefused(trust)
  /\ ScanAccepts(k)
  /\ ~ScanRefuses(k)
  /\ boot' = NextBoot(trust)
  /\ lastSeq' = k
  /\ chain' = RecoveredChain(k)
  /\ IF k < Len(journal)
       THEN phase' = "repair" /\ kept' = journal[k + 1].file
       ELSE phase' = "stamp" /\ kept' = 0
  /\ UNCHANGED <<disk, layout, unremoved, observed>>

\* The chunks of segment f behind the accepted records are those after chunk
\* `first' up to chunk `last'.
TailOf(f, first, last) ==
  /\ first \in lastSeq..Len(journal) /\ last \in first..Len(journal)
  /\ \A i \in (lastSeq + 1)..Len(journal) :
       journal[i].file = f <=> i \in (first + 1)..last

\* Defect: the record before the tail goes with it.
WithoutLast(first, last) ==
  SubSeq(journal, 1, first - 1) \o SubSeq(journal, last + 1, Len(journal))

\* Defect: the tail is counted and left in place.
TailLeft(first, last) == journal

WithoutTail(first, last) ==
  SubSeq(journal, 1, first) \o SubSeq(journal, last + 1, Len(journal))

\* Defect: the offset of the last header that was looked for.
HeaderOffset == journal[lastSeq + 1].off - HeaderBytes

\* The offset up to which the scan accepted the torn segment.
ValidBytes == journal[lastSeq + 1].off

\* truncate_file on the torn segment: its bytes from the torn frame on go.
TruncateTail(last) ==
  /\ phase = "repair"
  /\ TailOf(kept, lastSeq, last)
  /\ journal' = WithoutTail(lastSeq, last)
  /\ files' = [files EXCEPT ![kept] = ValidBytes]
  /\ phase' = "sweep"
  /\ UNCHANGED <<head, boot, lastSeq, chain, layout, kept, unremoved, observed>>

\* The segments after the torn one that are still to be removed.
Excess == {f \in DOMAIN files : f > kept} \ unremoved

\* remove_file on the segments after the torn one, lowest number first.
RemoveExcess(f, first, last) ==
  /\ phase = "sweep"
  /\ f \in Excess /\ \A g \in Excess : f <= g
  /\ TailOf(f, first, last)
  /\ journal' = WithoutTail(first, last)
  /\ files' = [g \in DOMAIN files \ {f} |-> files[g]]
  /\ UNCHANGED <<head, memory, observed>>

\* remove_file fails: open does not look at its result and goes on to the
\* next segment.
RemoveFails(f) ==
  /\ faults < MaxFaults /\ faults' = faults + 1
  /\ phase = "sweep"
  /\ f \in Excess /\ \A g \in Excess : f <= g
  /\ unremoved' = unremoved \cup {f}
  /\ UNCHANGED <<disk, phase, boot, lastSeq, chain, layout, kept, acked, served,
                 writers>>

RepairDone ==
  /\ phase = "sweep"
  /\ Excess = {}
  /\ phase' = "stamp"
  /\ UNCHANGED <<disk, boot, lastSeq, chain, layout, kept, unremoved, observed>>

LastFile(f) ==
  IF DOMAIN files = {} THEN f = 1
  ELSE f \in DOMAIN files /\ \A g \in DOMAIN files : g <= f

StoredBytes == MapThenSumSet(LAMBDA f : files[f], DOMAIN files)

\* The segment layout is discovered, then write_head replaces the head
\* record atomically: from here on the boot exists.
WriteHead(f) ==
  /\ phase = "stamp"
  /\ LastFile(f)
  /\ segment' = f
  /\ segmentBytes' = IF f \in DOMAIN files THEN files[f] ELSE 0
  /\ segmentCount' = Cardinality(DOMAIN files)
  /\ retained' = StoredBytes
  /\ head' = boot
  /\ phase' = "ready"
  /\ served' = served \cup {boot.epoch}
  /\ unremoved' = {}
  /\ UNCHANGED <<journal, files, boot, lastSeq, chain, kept, acked, writers, faults>>

-----------------------------------------------------------------------------
(* Ledger::append *)

Rotates(p) == segmentBytes + FrameBytes(p) > MaxSegmentBytes

TooLarge(p) ==
  \/ PayloadBytes[p] > MaxRecordBytes
  \/ FrameBytes(p) > MaxSegmentBytes

\* rotate_segment refuses at the segment bound.
RotationRefused(p) == Rotates(p) /\ segmentCount >= MaxSegments

JournalFull(p) == retained + FrameBytes(p) > MaxJournalBytes

Accepts(p) == ~TooLarge(p) /\ ~RotationRefused(p) /\ ~JournalFull(p)

\* rotate_segment, when the frame does not fit: only counters move, the file
\* appears with the first write.
TargetSegment(p) == IF Rotates(p) THEN segment + 1 ELSE segment

\* Defect: the byte counter survives the rotation.
BytesCarriedOver(p) == segmentBytes

BytesInTarget(p) == IF Rotates(p) THEN 0 ELSE segmentBytes

CountWithTarget(p) == IF Rotates(p) THEN segmentCount + 1 ELSE segmentCount

\* append_file_flushed leaves the first n bytes of the frame in the target
\* segment, which it creates if need be.
WriteBytes(p, n) ==
  LET f == TargetSegment(p)
      size == IF f \in DOMAIN files THEN files[f] ELSE 0
      frame == [file |-> f, off |-> size, bytes |-> n,
                seq |-> lastSeq + 1, payload |-> p, link |-> chain]
  IN  /\ files' = [g \in DOMAIN files \cup {f} |->
                     IF g = f THEN size + n ELSE files[g]]
      /\ journal' = IF n = 0 THEN journal ELSE Append(journal, frame)
      /\ writers' = IF n = 0 THEN writers ELSE writers \cup {boot.epoch}

CanWrite == phase = "ready" /\ Len(journal) < MaxChunks

\* The whole frame is written and flushed, then the record is acknowledged.
AppendRecord(p) ==
  /\ CanWrite /\ Accepts(p)
  /\ WriteBytes(p, FrameBytes(p))
  /\ lastSeq' = lastSeq + 1
  /\ chain' = <<lastSeq + 1, p>>
  /\ segment' = TargetSegment(p)
  /\ segmentBytes' = BytesInTarget(p) + FrameBytes(p)
  /\ segmentCount' = CountWithTarget(p)
  /\ retained' = retained + FrameBytes(p)
  /\ acked' = acked \cup {<<lastSeq + 1, p>>}
  /\ UNCHANGED <<head, phase, boot, kept, unremoved, served, faults>>

\* A bound refuses the record.  A rotation made before the total bound was
\* checked stays.
AppendRefused(p) ==
  /\ phase = "ready" /\ ~Accepts(p)
  /\ IF TooLarge(p) \/ RotationRefused(p)
       THEN UNCHANGED <<segment, segmentBytes, segmentCount>>
       ELSE /\ segment' = TargetSegment(p)
            /\ segmentBytes' = BytesInTarget(p)
            /\ segmentCount' = CountWithTarget(p)
  /\ UNCHANGED <<disk, phase, boot, lastSeq, chain, retained, kept, unremoved,
                 observed>>

\* open, write or fsync fails after n bytes reached the file: append reports the
\* failure, keeps its counters, and the process goes on.
AppendFails(p, n) ==
  /\ faults < MaxFaults /\ faults' = faults + 1
  /\ CanWrite /\ Accepts(p)
  /\ WriteBytes(p, n) \/ UNCHANGED <<journal, files, writers>>
  /\ segment' = TargetSegment(p)
  /\ segmentBytes' = BytesInTarget(p)
  /\ segmentCount' = CountWithTarget(p)
  /\ UNCHANGED <<head, phase, boot, lastSeq, chain, retained, kept, unremoved,
                 acked, served>>

Forget ==
  /\ phase' = "down" /\ boot' = NoHead /\ lastSeq' = 0 /\ chain' = <<>>
  /\ segment' = 1 /\ segmentBytes' = 0 /\ segmentCount' = 0 /\ retained' = 0
  /\ kept' = 0 /\ unremoved' = {}

\* The process dies inside append with n bytes of the frame in the file, all
\* of them included: then the record is durable and was never acknowledged.
CrashInAppend(p, n) ==
  /\ CanWrite /\ Accepts(p)
  /\ WriteBytes(p, n)
  /\ Forget
  /\ UNCHANGED <<head, acked, served, faults>>

\* The process dies between two operations, or inside open, or truncate_file
\* or write_head fails, which ends open and the process with it.
Crash ==
  /\ phase \notin {"down", "refused"}
  /\ Forget
  /\ UNCHANGED <<disk, observed>>

-----------------------------------------------------------------------------
Open ==
  \/ \E t \in TrustSet : OpenRefuses(t)
  \/ \E t \in TrustSet, k \in 0..Len(journal) : OpenScan(t, k)
  \/ \E last \in 0..Len(journal) : TruncateTail(last)
  \/ \E f \in DOMAIN files, first, last \in 0..Len(journal) : RemoveExcess(f, first, last)
  \/ \E f \in DOMAIN files : RemoveFails(f)
  \/ RepairDone
  \/ \E f \in {1} \cup DOMAIN files : WriteHead(f)

Appending ==
  \E p \in Payload :
    \/ AppendRecord(p)
    \/ AppendRefused(p)
    \/ \E n \in 0..FrameBytes(p) : AppendFails(p, n)
    \/ \E n \in 0..FrameBytes(p) : CrashInAppend(p, n)

Next == Open \/ Appending \/ Crash

Spec == Init /\ [][Next]_vars

-----------------------------------------------------------------------------
(* Properties *)

TypeOK ==
  /\ head \in HeadRecord
  /\ journal \in Seq(Chunk)
  /\ DOMAIN files \subseteq Nat /\ \A f \in DOMAIN files : files[f] \in Nat
  /\ phase \in {"down", "refused", "repair", "sweep", "stamp", "ready"}
  /\ boot \in HeadRecord
  /\ lastSeq \in Nat
  /\ chain \in Digest
  /\ segment \in Nat /\ segmentBytes \in Nat /\ segmentCount \in Nat
  /\ retained \in Nat /\ kept \in Nat
  /\ unremoved \subseteq DOMAIN files
  /\ acked \subseteq Nat \X Payload
  /\ served \subseteq Nat /\ writers \subseteq Nat /\ faults \in 0..MaxFaults

\* A record whose append was acknowledged stays on disk, whole and at its
\* sequence, whatever crashes and recoveries follow, as long as no write failed
\* in a process that lived on (append acknowledges only after
\* append_file_flushed; recovery truncates only what is torn).
AckedDurable ==
  faults = 0 => \A a \in acked :
    /\ a[1] \in 1..Len(journal)
    /\ Whole(journal[a[1]])
    /\ ChainOf(journal[a[1]]) = a

\* The records in the journal; an interrupted write at its end is none.
Durable ==
  LET n == Len(journal) IN
  [k \in 1..(IF n > 0 /\ ~Whole(journal[n]) THEN n - 1 ELSE n) |-> journal[k].payload]

Log == INSTANCE RecordLog WITH
  log <- Durable, serving <- phase = "ready",
  known <- IF phase = "ready" THEN lastSeq ELSE 0, broken <- faults > 0

\* The journal keeps the promise of RecordLog: whatever is killed and wherever
\* inside Ledger::open or append, no complete record is removed or rewritten,
\* a boot serves with all of them and acknowledges a record only at its place,
\* unless a write failed in a process that lived on.
ImplementsLog == Log!Spec

\* Each boot that serves has a higher epoch than every boot before it, also
\* when a boot dies anywhere inside Ledger::open, and the trust set a directory
\* was first served under never changes (kPublisherNotTrusted).
HeadAdvances ==
  [][/\ phase # "ready" /\ phase' = "ready" =>
          \A e \in served : e < boot'.epoch
     /\ head # NoHead => head'.trust = head.trust]_vars

\* The counters append checks its bounds against agree with the directory,
\* and the bounds hold for the files themselves, unless a write failed; of
\* segment files there is never more than one beyond the bound.
AccountingExact ==
  /\ Cardinality(DOMAIN files) <= MaxSegments + 1
  /\ (phase = "ready" /\ faults = 0) =>
       /\ retained = StoredBytes /\ retained <= MaxJournalBytes
       /\ segmentBytes = IF segment \in DOMAIN files THEN files[segment] ELSE 0
       /\ \A f \in DOMAIN files : files[f] <= MaxSegmentBytes

\* While a single incarnation has written the journal and no write of it
\* failed, no crash makes the directory unreadable: Ledger::open under its trust set is never refused.
ReadableAfterOneWriter ==
  \A k \in 0..Len(journal) :
    faults = 0 /\ Cardinality(writers) <= 1 /\ ScanAccepts(k) => ~ScanRefuses(k)

\* Byte b of segment f is part of one of the first n chunks.
BelongsTo(f, b, n) ==
  \E i \in 1..n :
    /\ journal[i].file = f
    /\ journal[i].off <= b /\ b < journal[i].off + journal[i].bytes

\* When Ledger::open is about to write the head, it has a sound prefix of the
\* journal, and every byte behind that prefix lies in a segment this very open
\* could not remove: nothing unreadable is left by the truncation, by a sweep
\* over several segments, or by earlier opens that died half-way.
RecoveryLeavesCleanJournal ==
  phase = "stamp" =>
    /\ \A i \in 1..lastSeq : Sound(i)
    /\ \A i \in (lastSeq + 1)..Len(journal) : journal[i].file \in unremoved
    /\ \A f \in DOMAIN files \ unremoved : \A b \in 0..(files[f] - 1) :
         BelongsTo(f, b, lastSeq)

\* "any record that was accepted is a record that can be recovered"
\* (runtime.cpp, above the replay loop).
AcceptedRecoverable ==
  acked # {} =>
    \A k \in 0..Len(journal) : ScanAccepts(k) => ~ScanRefuses(k)
=============================================================================
