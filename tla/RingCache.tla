----------------------------- MODULE RingCache -----------------------------
(***************************************************************************)
(* The playback cache of source/mplayer/stream/cache2.c: one filler thread *)
(* (cache_fill, called from ThreadProc) and one reader thread (MPlayer's   *)
(* demuxer, through stream_read and cache_stream_seek_long) share a ring   *)
(* of BufferSize units that holds the window [min_filepos, max_filepos) of *)
(* a file.                                                                 *)
(*                                                                         *)
(* A unit of the file is represented by its own position, so a slot of the *)
(* ring that holds q holds "the byte at position q".  Each critical        *)
(* section of cache_pos_mutex is one step, and so is each memcpy and each  *)
(* blocking call into the source.                                          *)
(***************************************************************************)
EXTENDS Integers, Sequences

CONSTANTS
  BufferSize,     \* s->buffer_size
  SectorSize,     \* s->sector_size
  BackSize,       \* s->back_size: history kept for backward seeks
  FillLimit,      \* s->fill_limit: smallest free space worth a read
  ReadChunk,      \* stream->read_chunk: largest single read
  SeekLimit,      \* s->seek_limit: forward skip a live stream tolerates
  FileLen,        \* length of the source
  SeekTargets,    \* positions the demuxer asks cache_stream_seek_long for
  PrefillTargets, \* "min" arguments of stream_cache_prefill
  StreamTypes,    \* stream->type: "file", or "stream" (live, without a seek method)
  MaxFaults,      \* bound on injected faults: failed reads and seeks, 30 silent seconds
  MaxRetries,     \* 500 in the code
  FillerPrio,     \* LWP priority of the cache thread (70)
  ReaderPrio      \* LWP priority of the MPlayer thread (68)

ASSUME SizeAssumption ==
  /\ BufferSize \in Nat /\ SectorSize \in Nat \ {0}
  /\ BackSize \in Nat /\ FillLimit \in Nat /\ ReadChunk \in Nat \ {0}
  /\ SectorSize <= FillLimit
  /\ FillLimit + BackSize <= BufferSize
  /\ FileLen \in Nat /\ SeekTargets \subseteq Nat /\ PrefillTargets \subseteq Nat
  /\ MaxFaults \in Nat /\ MaxRetries \in Nat

ASSUME StreamingAssumption ==
  /\ StreamTypes \subseteq {"file", "stream"}
  /\ SeekLimit \in Nat
  /\ "stream" \in StreamTypes => SeekLimit + ReadChunk <= BufferSize

ASSUME PriorityAssumption ==
  /\ FillerPrio \in Nat /\ ReaderPrio \in Nat
  /\ FillerPrio > ReaderPrio

VARIABLES
  min, max, read, offset, \* the four shared positions
  ring,                   \* buffer contents, a file position or Torn
  eof,                    \* s->eof, the cache's end-of-file latch
  type,                   \* stream->type
  fd, spos, seof, serror, \* the source: real position, stream->pos/eof/error
  astray,                 \* observer: the source did not follow the last seek asked of it
  fpc, fp, fread, fplan,  \* filler: control point and locals p, read, pos/space/len
  rpc, rp, rbuf, rlen,    \* reader: control point, snapshot p, s->buffer, last copy's len
  tell,                   \* reader: stream->pos
  want,                   \* reader: clamped "min" of stream_cache_prefill
  sought,                 \* observer: the reader has sought and been given nothing since
  abort,                  \* getMESS, controlledbygui == 2 or stop_cache_thread
  faults                  \* faults injected so far

position   == <<min, max, read, offset>>
source     == <<type, fd, spos, seof, serror, astray>>
filler     == <<fpc, fp, fread, fplan>>
reader     == <<rpc, rp, rbuf, rlen, tell, want, sought>>
vars       == <<position, ring, eof, source, filler, reader, abort, faults>>

Streaming == type = "stream"

Torn  == -1      \* a slot the source is writing into, or that holds no file byte
Slots == 0 .. BufferSize - 1

Least(a, b)    == IF a <= b THEN a ELSE b
Greatest(a, b) == IF a >= b THEN a ELSE b

\* cache_pos_get: one consistent snapshot of all four positions.
Snapshot == [min |-> min, max |-> max, read |-> read, offset |-> offset]

\* Locals that are out of scope: cache_fill has returned, no copy is planned.
NoSnapshot == [min |-> 0, max |-> 0, read |-> 0, offset |-> 0]
NoPlan     == [pos |-> 0, space |-> 0, len |-> 0]

FillerStates  == {"sleep", "snap", "flush", "reset", "seek", "plan", "read", "fail", "commit"}
FillerBlocked == {"sleep", "seek", "read"}
ReaderStates  == {"idle", "clear", "loop", "copy", "advance", "prefill"}

(***************************************************************************)
(* The LWP scheduler is preemptive with strict priorities: the MPlayer     *)
(* thread gets the processor only while the more urgent cache thread       *)
(* sleeps or waits for the source.                                         *)
(***************************************************************************)
ReaderPreempts == TRUE   \* mutant: the cache thread is not the more urgent one
ReaderMayRun == FillerPrio > ReaderPrio => fpc \in FillerBlocked

Init ==
  \E start \in {0} \cup {q \in SeekTargets : q < FileLen} :
    /\ type \in StreamTypes /\ (Streaming => start = 0)
    /\ min = start /\ max = start /\ read = start /\ offset = start
    /\ ring = [i \in Slots |-> Torn]
    /\ eof = 0
    /\ fd = start /\ spos = start /\ seof = 0 /\ serror = 0 /\ astray = FALSE
    /\ fpc = "sleep" /\ fp = NoSnapshot /\ fread = 0 /\ fplan = NoPlan
    /\ rpc = "idle" /\ rbuf = <<>> /\ rlen = 0 /\ tell = start /\ want = 0
    /\ rp = NoSnapshot /\ sought = FALSE
    /\ abort = 0 /\ faults = 0

-----------------------------------------------------------------------------
(* The source, through stream.c and stream_file.c / stream_gc_http.c.      *)

\* stream_reset: forgets the position once the stream is at its end.
StreamReset ==
  /\ spos' = IF seof = 1 THEN 0 ELSE spos
  /\ seof' = 0
  /\ UNCHANGED <<type, fd, serror, astray>>

\* The file source's seek: stream->pos is set first, and keeps the new position
\* when lseek fails and leaves the descriptor where it was.
SourceSeek(q) ==
  /\ spos' = q
  /\ \/ /\ fd' = q
        /\ astray' = FALSE
        /\ UNCHANGED <<seof, faults>>
     \/ /\ faults < MaxFaults
        /\ faults' = faults + 1
        /\ seof' = 1
        /\ astray' = TRUE
        /\ UNCHANGED fd

\* mutant: position 0 is not treated specially, so a reset stream is not rewound.
StreamSeekTrustsPos(q) ==
  /\ IF Streaming THEN astray' = TRUE /\ UNCHANGED <<fd, spos, seof, faults>>
     ELSE IF q # spos THEN SourceSeek(q)
     ELSE UNCHANGED <<fd, spos, seof, astray, faults>>
  /\ UNCHANGED <<type, serror>>

\* stream_seek_internal: skipped when stream->pos says we are already there;
\* a live stream has no seek method and stays where it is.
StreamSeek(q) ==
  /\ IF Streaming THEN astray' = TRUE /\ UNCHANGED <<fd, spos, seof, faults>>
     ELSE IF q = 0 \/ q # spos THEN SourceSeek(q)
     ELSE UNCHANGED <<fd, spos, seof, astray, faults>>
  /\ UNCHANGED <<type, serror>>

\* The recovery of a failed read: stream_reset, then a seek back to where the
\* stream was, whose failure nobody notices either.  A live stream only loses
\* its stream->pos.
SeekBack ==
  \/ Streaming  /\ spos' = 0 /\ seof' = 0 /\ UNCHANGED fd
  \/ ~Streaming /\ fd' = spos /\ seof' = 0 /\ UNCHANGED spos
  \/ ~Streaming /\ seof' = 1 /\ UNCHANGED <<fd, spos>>

\* stream_read_internal on a failed read (a file source returns -1 at its end
\* as well).  The radio source says itself whether this was an error.  errno is
\* whatever the last failing call left, so any end may be taken for an error;
\* the first such error resets the stream and seeks it back.
StreamReadFailed(said) ==
  LET error == IF Streaming THEN said ELSE serror IN
    /\ \/ /\ error = 0
          /\ serror' = 1
          /\ SeekBack
       \/ /\ serror' = error
          /\ seof' = 1
          /\ UNCHANGED <<fd, spos>>
    /\ UNCHANGED <<type, astray>>

-----------------------------------------------------------------------------
(* The filler: cache_fill, called in a loop by ThreadProc.                 *)

\* cache_fill returns and ThreadProc sleeps.
FillReturn == fpc' = "sleep" /\ fp' = NoSnapshot /\ fread' = 0 /\ fplan' = NoPlan

InWindow(q) == min <= q /\ q <= max

\* mutant: a latched eof is final, as it was before the recovery branch.
FillBeginLatched ==
  /\ fpc = "sleep"
  /\ eof = 0
  /\ fpc' = "snap"
  /\ UNCHANGED <<position, ring, eof, source, fp, fread, fplan, reader, abort, faults>>

\* Entry of cache_fill: an eof latch is believed only while the reader is
\* still inside the window it describes.
FillBegin ==
  /\ fpc = "sleep"
  /\ fpc' = "snap"
  /\ IF eof = 1
       THEN ~InWindow(read) /\ eof' = 0 /\ StreamReset
       ELSE UNCHANGED <<eof, source>>
  /\ UNCHANGED <<position, ring, fp, fread, fplan, reader, abort, faults>>

\* The cache contents are dropped unless a live stream can read forward to q.
MustDrop(q) ==
  /\ ~InWindow(q)
  /\ ~Streaming \/ q < min \/ q >= max + SeekLimit

FillSnapshot ==
  /\ fpc = "snap"
  /\ fp' = Snapshot
  /\ fread' = read
  /\ fpc' = IF MustDrop(read) THEN "flush" ELSE "plan"
  /\ UNCHANGED <<position, ring, eof, source, fplan, reader, abort, faults>>

\* cache_flush takes the lock twice: once to read read_filepos ...
FlushGet ==
  /\ fpc = "flush"
  /\ fp' = Snapshot
  /\ fpc' = "reset"
  /\ UNCHANGED <<position, ring, eof, source, fread, fplan, reader, abort, faults>>

\* ... and once to move all four positions there; stream_reset follows.
FlushReset ==
  /\ fpc = "reset"
  /\ min' = fp.read /\ max' = fp.read /\ read' = fp.read /\ offset' = fp.read
  /\ StreamReset
  /\ fpc' = "seek"
  /\ UNCHANGED <<ring, eof, fp, fread, fplan, reader, abort, faults>>

\* stream_seek_internal may block (it closes a connection), and its result is
\* not looked at; the snapshot is taken again afterwards, but the local copy of
\* the reader's position is not.
FillSeek ==
  /\ fpc = "seek"
  /\ StreamSeek(fread)
  /\ fp' = Snapshot
  /\ fpc' = "plan"
  /\ UNCHANGED <<position, ring, eof, fread, fplan, reader, abort>>

NoBack == 0              \* mutant: history is not counted as occupied
Back == Least(Greatest(fread - fp.min, 0), BackSize)
Newb == Greatest(fp.max - fread, 0)
Free == BufferSize - (Newb + Back)
FillPos == LET p == fp.max - fp.offset IN IF p >= BufferSize THEN p - BufferSize ELSE p

\* Less than a sector before the end of the buffer: read into the bounce
\* buffer and copy around the end.
WrapCopy   == Free > BufferSize - FillPos /\ BufferSize - FillPos < SectorSize
ReadLength ==
  Least(ReadChunk, IF Free <= BufferSize - FillPos THEN Free
                   ELSE IF WrapCopy THEN SectorSize ELSE BufferSize - FillPos)

\* mutant: the room for the read itself is forgotten.
OldestKeptNoRead(space) == fread - (BufferSize - Newb)

\* History before this position is given up, so that the retained history, the
\* new bytes and this read fit the buffer together.
OldestKept(space) == fread - (BufferSize - (space + Newb))

PlanFull ==
  /\ fpc = "plan"
  /\ Free < FillLimit
  /\ FillReturn
  /\ UNCHANGED <<position, ring, eof, source, reader, abort, faults>>

\* From here until the read returns, the source writes into the ring.
PlanRead ==
  /\ fpc = "plan"
  /\ Free >= FillLimit
  /\ LET space == ReadLength IN
       /\ fplan' = [pos |-> FillPos, space |-> space, len |-> 0]
       /\ min' = IF fp.min < OldestKept(space) THEN OldestKept(space) ELSE min
       /\ ring' = IF WrapCopy THEN ring
                  ELSE [i \in Slots |-> IF FillPos <= i /\ i < FillPos + space
                                        THEN Torn ELSE ring[i]]
  /\ fpc' = "read"
  /\ fp' = NoSnapshot /\ fread' = 0
  /\ UNCHANGED <<max, read, offset, eof, source, reader, abort, faults>>

\* The ring after len units from the source's position; a wrapping read is
\* continued at the buffer's first slot.
Written(len) ==
  [i \in Slots |->
     IF i >= fplan.pos /\ i - fplan.pos < len THEN fd + (i - fplan.pos)
     ELSE IF i < fplan.pos /\ i + BufferSize - fplan.pos < len
       THEN fd + (i + BufferSize - fplan.pos)
     ELSE ring[i]]

\* stream_read_internal returns len > 0 units.
ReadOk ==
  /\ fpc = "read"
  /\ \E len \in 1 .. Least(fplan.space, FileLen - fd) :
       /\ ring' = Written(len)
       /\ fplan' = [pos |-> fplan.pos, space |-> fplan.space, len |-> len]
       /\ fd' = fd + len
       /\ spos' = spos + len
  /\ seof' = 0
  /\ serror' = 0
  /\ fpc' = "commit"
  /\ UNCHANGED <<position, eof, type, astray, fp, fread, reader, abort, faults>>

\* The source is at its end.
ReadEnd ==
  /\ fpc = "read"
  /\ fd >= FileLen
  /\ StreamReadFailed(0)
  /\ fpc' = "fail"
  /\ UNCHANGED <<position, ring, eof, fp, fread, fplan, reader, abort, faults>>

\* A network or card error; a file source may leave errno unset.
ReadError ==
  /\ fpc = "read"
  /\ faults < MaxFaults
  /\ faults' = faults + 1
  /\ StreamReadFailed(1)
  /\ fpc' = "fail"
  /\ UNCHANGED <<position, ring, eof, fp, fread, fplan, reader, abort>>

\* cache_fill's len == 0 branch: errors are retried while at least 5% is
\* buffered, everything else latches eof.  (The error count saturates just
\* above MaxRetries: the code only ever compares it with that limit.)
FillFailed ==
  /\ fpc = "fail"
  /\ LET e     == IF serror > 0 THEN Least(serror + 1, MaxRetries + 1) ELSE 0
         retry == e > 0 /\ e <= MaxRetries /\ (max - read) * 20 >= BufferSize
     IN  /\ serror' = e
         /\ eof' = IF retry THEN eof ELSE 1
  /\ FillReturn
  /\ UNCHANGED <<position, ring, type, fd, spos, seof, astray, reader, abort, faults>>

\* cache_pos_commit_fill: the new end and the offset that goes with it.
FillCommit ==
  /\ fpc = "commit"
  /\ max' = max + fplan.len
  /\ offset' = IF fplan.pos + fplan.len >= BufferSize THEN offset + BufferSize ELSE offset
  /\ FillReturn
  /\ UNCHANGED <<min, read, ring, eof, source, reader, abort, faults>>

FillerIO  == FillSeek \/ ReadOk \/ ReadEnd \/ ReadError
FillerCPU == FillBegin \/ FillSnapshot \/ FlushGet \/ FlushReset \/ PlanFull \/ PlanRead
               \/ FillFailed \/ FillCommit

-----------------------------------------------------------------------------
(* The reader: cache_stream_seek_long, cache_stream_fill_buffer with       *)
(* cache_read, and stream_cache_prefill.                                   *)

\* cache_stream_seek_long publishes the aligned position first ...
SeekPublish ==
  /\ ReaderMayRun
  /\ rpc = "idle"
  /\ \E q \in SeekTargets :
       LET newpos == (q \div SectorSize) * SectorSize IN
         /\ read' = newpos
         /\ tell' = newpos
  /\ rbuf' = <<>>
  /\ sought' = TRUE
  /\ rpc' = "clear"
  /\ UNCHANGED <<min, max, offset, ring, eof, source, filler, rp, rlen, want, abort, faults>>

\* ... then clears the latch and goes on to fill the reader's buffer.
SeekClearEof ==
  /\ ReaderMayRun
  /\ rpc = "clear"
  /\ eof' = 0
  /\ rpc' = "loop"
  /\ UNCHANGED <<position, ring, source, filler, rp, rbuf, rlen, tell, want, sought, abort, faults>>

\* cache_stream_fill_buffer from stream_read.
FillBuffer ==
  /\ ReaderMayRun
  /\ rpc = "idle"
  /\ rbuf' = <<>>
  /\ rpc' = "loop"
  /\ UNCHANGED <<position, ring, eof, source, filler, rp, rlen, tell, want, sought, abort, faults>>

\* Leaving cache_read: stream->pos moves by what was read.
Return ==
  /\ rpc' = "idle"
  /\ tell' = tell + Len(rbuf)
  /\ UNCHANGED <<rp, rbuf, want, sought>>

Available == min <= read /\ read < max
AnyEof    == eof = 1         \* mutant: eof ends the read even below the window
AtEof     == eof = 1 /\ read >= max

LoopAbort ==
  /\ ReaderMayRun
  /\ rpc = "loop"
  /\ abort = 1
  /\ Return
  /\ UNCHANGED <<position, ring, eof, source, filler, rlen, abort, faults>>

\* (The snapshot and the look at s->eof that follows it are one step: in between
\* only the filler could run, and it sets the latch or clears it for a position
\* outside the window, so the loop would at worst come around once more.)
LoopEof ==
  /\ ReaderMayRun
  /\ rpc = "loop"
  /\ abort = 0
  /\ ~Available /\ AtEof
  /\ Return
  /\ UNCHANGED <<position, ring, eof, source, filler, rlen, abort, faults>>

\* Thirty seconds without data: the source is silent all that time.
LoopStalled ==
  /\ ReaderMayRun
  /\ rpc = "loop"
  /\ abort = 0 /\ ~Available /\ ~AtEof
  /\ faults < MaxFaults
  /\ faults' = faults + 1
  /\ Return
  /\ UNCHANGED <<position, ring, eof, source, filler, rlen, abort>>

LoopSnapshot ==
  /\ ReaderMayRun
  /\ rpc = "loop"
  /\ abort = 0
  /\ Available
  /\ rp' = Snapshot
  /\ rpc' = "copy"
  /\ UNCHANGED <<position, ring, eof, source, filler, rbuf, rlen, tell, want, sought, abort, faults>>

CopyPos ==
  LET p == rp.read - rp.offset IN
    IF p < 0 THEN p + BufferSize ELSE IF p >= BufferSize THEN p - BufferSize ELSE p
CopyLen == Least(Least(rp.max - rp.read, BufferSize - CopyPos), SectorSize - Len(rbuf))

\* The memcpy out of the ring, without a lock; the "very odd error" test
\* sends the loop around again.
Copy ==
  /\ ReaderMayRun
  /\ rpc = "copy"
  /\ IF CopyLen <= 0 \/ CopyPos < 0 \/ CopyPos + CopyLen > BufferSize
       THEN rpc' = "loop" /\ UNCHANGED <<rbuf, rlen, sought>>
       ELSE /\ rbuf' = rbuf \o [i \in 1 .. CopyLen |-> ring[CopyPos + i - 1]]
            /\ rlen' = CopyLen
            /\ rpc' = "advance"
            /\ sought' = FALSE
  /\ rp' = NoSnapshot
  /\ UNCHANGED <<position, ring, eof, source, filler, tell, want, abort, faults>>

\* cache_pos_advance_read; a full sector ends the loop.
Advance ==
  /\ ReaderMayRun
  /\ rpc = "advance"
  /\ read' = read + rlen
  /\ rlen' = 0
  /\ IF Len(rbuf) < SectorSize
       THEN rpc' = "loop" /\ UNCHANGED <<rp, rbuf, tell, want, sought>>
       ELSE Return
  /\ UNCHANGED <<min, max, offset, ring, eof, source, filler, abort, faults>>

\* mutant: only the clamp of stream_enable_cache, retained history forgotten.
ForwardLimitNoHistory == BufferSize - FillLimit

\* The most that can be buffered ahead: retained history and the filler's
\* minimum write have to fit beside it.
ForwardLimit == BufferSize - BackSize - FillLimit

\* stream_cache_prefill: wait for "min" units, clamped to what can be reached.
Prefill ==
  /\ ReaderMayRun
  /\ rpc = "idle"
  /\ \E m \in PrefillTargets :
       want' = Least(m, ForwardLimit)
  /\ rpc' = "prefill"
  /\ UNCHANGED <<position, ring, eof, source, filler, rp, rbuf, rlen, tell, sought, abort, faults>>

Prefilled == read >= min /\ max - read >= want

\* Leaves the wait loop: enough buffered, eof (short file) or interrupted.
PrefillDone ==
  /\ ReaderMayRun
  /\ rpc = "prefill"
  /\ Prefilled \/ eof = 1 \/ abort = 1
  /\ rpc' = "idle"
  /\ want' = 0
  /\ UNCHANGED <<position, ring, eof, source, filler, rp, rbuf, rlen, tell, sought, abort, faults>>

\* Thirty seconds without progress.
PrefillStalled ==
  /\ ReaderMayRun
  /\ rpc = "prefill"
  /\ ~(Prefilled \/ eof = 1 \/ abort = 1)
  /\ faults < MaxFaults
  /\ faults' = faults + 1
  /\ rpc' = "idle"
  /\ want' = 0
  /\ UNCHANGED <<position, ring, eof, source, filler, rp, rbuf, rlen, tell, sought, abort>>

\* The GUI asks for another track, or cache_uninit stops the worker.
Interrupt ==
  /\ abort = 0
  /\ abort' = 1
  /\ UNCHANGED <<position, ring, eof, source, filler, reader, faults>>

ReaderCalls == SeekPublish \/ FillBuffer \/ Prefill
ReaderSteps == SeekClearEof \/ LoopAbort \/ LoopEof \/ LoopSnapshot \/ Copy \/ Advance
                 \/ PrefillDone
ReaderGivesUp == LoopStalled \/ PrefillStalled

Next == FillerIO \/ FillerCPU \/ ReaderCalls \/ ReaderSteps \/ ReaderGivesUp \/ Interrupt

\* Filler: its sleeps end and its I/O is bounded by the transport's deadlines.
\* Reader: the filler sleeps after every cache_fill, and the reader, next in
\* priority, runs during those sleeps (strong fairness).  Nothing is assumed of
\* the 30-second limits: no call depends on them to come back.
Fairness == WF_vars(FillerCPU) /\ WF_vars(FillerIO) /\ SF_vars(ReaderSteps)

Spec == Init /\ [][Next]_vars
LiveSpec == Spec /\ Fairness

-----------------------------------------------------------------------------
(* Properties.                                                             *)

Snapshots == [min : Int, max : Int, read : Int, offset : Int]
Plans     == [pos : Int, space : Int, len : Int]

\* The types of the shared fields and of both threads' locals.
TypeOK ==
  /\ min \in Int /\ max \in Int /\ read \in Int /\ offset \in Int
  /\ ring \in [Slots -> Int]
  /\ eof \in {0, 1} /\ seof \in {0, 1} /\ abort \in {0, 1}
  /\ type \in StreamTypes /\ astray \in BOOLEAN /\ sought \in BOOLEAN
  /\ fd \in Int /\ spos \in Int /\ serror \in Nat
  /\ fpc \in FillerStates /\ fp \in Snapshots /\ fread \in Int /\ fplan \in Plans
  /\ rpc \in ReaderStates /\ rp \in Snapshots /\ rbuf \in Seq(Int) /\ rlen \in Int
  /\ tell \in Int /\ want \in Int /\ faults \in Nat

\* The slot that holds file position q, for q in the window.
SlotOf(q) == IF q >= offset THEN q - offset ELSE q - offset + BufferSize

\* The window is a window, it fits the buffer together with a read that is
\* under way, and the end of the window is in the current lap of the ring:
\* the wrap arithmetic of cache_read and cache_fill (one addition or one
\* subtraction of buffer_size) always lands inside the buffer.
WindowFits ==
  /\ min <= max
  /\ offset <= max /\ max < offset + BufferSize
  /\ max - min <= BufferSize
  /\ fpc \in {"read", "commit", "fail"} => max + fplan.space - min <= BufferSize

\* Every position of the window is in its slot: no fill, wrap-around copy,
\* flush, seek or recovery from a failed read ever leaves a byte of another
\* position, or a half-written one, where cache_read will look for it.  The one
\* exception is a window started by a seek that the source did not follow: the
\* lseek failed and cache_fill did not look, or the stream is live.  It lasts
\* until a seek is followed.
WindowHoldsFile == ~astray => \A q \in min .. max - 1 : ring[SlotOf(q)] = q

\* What the reader has been given is the file, consecutively from where the
\* call started, although memcpy runs outside the lock.
DeliversFile ==
  LET start == IF rpc = "idle" \/ rpc = "prefill" THEN tell - Len(rbuf) ELSE tell
  IN  ~astray => \A i \in 1 .. Len(rbuf) : rbuf[i] = start + i - 1

\* cache_stream_fill_buffer prints "read_filepos differs, report this bug" when
\* the filler has moved the position that the reader owns.
ReaderOwnsPosition == rpc \in {"idle", "prefill", "clear"} => read = tell

\* Without faults, the end of file is reported at the end of the file, even
\* when the latch was set by a read that was in flight during a seek.
EofIsTheEnd ==
  faults = 0 /\ ~astray /\ rpc = "loop" /\ ~Available /\ AtEof => read >= FileLen

\* A filler step never moves the window away from under the reader: a seek
\* that lands inside the window is served from the buffer.
ReaderStaysInWindow ==
  [][read' = read /\ InWindow(read) => InWindow(read)']_vars

\* "we should keep back_size amount of old bytes for backward seek": history
\* is given up only beyond back_size.
HistoryKept ==
  [][fpc = "plan" /\ min' # min => min' <= read - BackSize]_vars

\* A filler that stops because the ring is full leaves the reader something to
\* read, and a prefill all that it waits for: the two never wait for each other.
NoStandoff ==
  fpc = "plan" /\ Free < FillLimit => Available /\ (rpc = "prefill" => Prefilled)

\* A read or a seek always comes back.
ReadReturns == rpc = "loop" ~> rpc = "idle"

\* The prefill of a file always comes back: its clamped target can be reached
\* beside the history the filler keeps and the free space it insists on.  (A live
\* stream that has ended while errno holds an old EIO is retried for as long as
\* something is buffered, so there only the 30-second limit ends the wait.)
PrefillReturns == rpc = "prefill" /\ ~Streaming ~> rpc = "idle"

-----------------------------------------------------------------------------
(* The inductive invariant behind the safety properties: what each thread  *)
(* knows at each of its control points.                                    *)

\* Unless it is astray, the source stands at the end of the window except while
\* it is repositioned or a read waits to be committed; stream->pos says so, or
\* was reset to 0.
SourceAligned ==
  ~astray =>
    /\ fpc \notin {"seek", "commit"} => fd = max
    /\ fpc = "commit" => fd = max + fplan.len
    /\ ~Streaming => spos = fd \/ (spos = 0 /\ fpc \in {"snap", "flush", "reset", "seek"})
    /\ ~Streaming /\ fpc = "snap" /\ spos # fd => ~InWindow(read)

FillerKnows ==
  /\ fpc \in {"flush", "reset"} => fread = read /\ MustDrop(read)
  /\ fpc = "reset" => fp.read = read
  /\ fpc = "seek" => min = fread /\ max = fread /\ offset = fread
  /\ fpc = "plan" =>
       /\ fp.min = min /\ fp.max = max /\ fp.offset = offset
       /\ fread = read \/ (min = fread /\ max = fread)
       /\ ~MustDrop(fread)
  /\ fpc \in {"read", "commit", "fail"} =>
       fplan.pos = max - offset /\ 0 < fplan.space /\ fplan.space <= BufferSize
  /\ fpc = "commit" => 0 < fplan.len /\ fplan.len <= fplan.space
  /\ eof = 1 => fpc = "sleep"

\* A reader between its snapshot and its advance is inside the window, and the
\* ring has moved on by at most one lap since the snapshot.
ReaderKnows ==
  /\ rpc \in {"idle", "prefill", "clear"} => read = tell
  /\ rpc \in {"loop", "copy"} => read = tell + Len(rbuf) /\ Len(rbuf) < SectorSize
  /\ rpc = "clear" => rbuf = <<>>
  /\ rpc = "copy" =>
       /\ rp.read = read /\ min <= read /\ read < rp.max /\ rp.max <= max
       /\ rp.max <= read + BufferSize
       /\ rp.offset <= rp.max /\ rp.max < rp.offset + BufferSize
       /\ offset = rp.offset \/ offset = rp.offset + BufferSize
  /\ rpc = "advance" =>
       /\ 0 < rlen /\ min <= read /\ read + rlen <= max
       /\ read + rlen = tell + Len(rbuf) /\ Len(rbuf) <= SectorSize

\* Only a seek takes the reader out of the window, and until then its buffer is
\* empty: nothing has been given to it before the source is repositioned.
SeekKnown ==
  /\ ~sought => InWindow(read)
  /\ rbuf # <<>> => ~sought
  /\ fpc \in {"flush", "reset", "seek"} => sought

\* What a finished read has put into the ring, before it is committed.
ReadHoldsFile ==
  fpc = "commit" /\ ~astray =>
    \A q \in max .. max + fplan.len - 1 :
      ring[IF q - offset < BufferSize THEN q - offset ELSE q - offset - BufferSize] = q

\* Without faults the latch is set only at the end of the file.
LatchIsTheEnd ==
  faults = 0 /\ ~astray => /\ eof = 1 => max >= FileLen
                           /\ fpc = "fail" => max >= FileLen

\* Nothing past the end of the file is in the window, or waits to be committed;
\* only an empty window can lie there, after a seek.
WithinFile ==
  ~astray => /\ min < max => max <= FileLen
             /\ fpc = "commit" => max + fplan.len <= FileLen

PositionInv == WindowFits /\ SourceAligned /\ FillerKnows /\ ReaderKnows /\ SeekKnown
ContentInv  == WindowHoldsFile /\ ReadHoldsFile /\ DeliversFile
RingInv     == PositionInv /\ ContentInv /\ LatchIsTheEnd /\ WithinFile

Promise == INSTANCE SeekableStream WITH
  pos <- tell, buf <- rbuf,
  busy <- rpc \notin {"idle", "prefill"},
  excuse <- abort = 1 \/ faults > 0,
  live <- Streaming, lost <- astray

\* The cached stream keeps the promise of SeekableStream.
KeepsPromise == Promise!Spec
=============================================================================
