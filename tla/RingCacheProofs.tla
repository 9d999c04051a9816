-------------------------- MODULE RingCacheProofs --------------------------
(***************************************************************************)
(* The cached stream always hands the reader the file's own bytes: what    *)
(* the ring and the reader's buffer hold (ContentInv), what the            *)
(* end-of-file latch means (LatchIsTheEnd) and where the window ends       *)
(* (WithinFile), on top of the position invariant.  Every part of it says  *)
(* what holds unless the source is astray; a step that finds it astray     *)
(* leaves it so, except a seek that is followed, and then the window and   *)
(* the reader's buffer are empty.  From all of it: the cached stream       *)
(* implements SeekableStream, step by step.                                *)
(***************************************************************************)
EXTENDS RingCachePositions

\* Only a seek of the filler decides whether the source is astray.
LEMMA AstrayKept == ASSUME [Next]_vars, ~FillSeek PROVE astray' = astray
  BY DEF Next, FillerIO, FillerCPU, FillBegin, StreamReset, FillSnapshot, FlushGet, FlushReset,
     PlanFull, PlanRead, ReadOk, ReadEnd, ReadError, StreamReadFailed, FillFailed, FillCommit,
     ReaderCalls, ReaderSteps, ReaderGivesUp, SeekPublish, FillBuffer, Prefill, SeekClearEof,
     LoopAbort, LoopEof, LoopStalled, LoopSnapshot, Copy, Advance, PrefillDone, PrefillStalled,
     Interrupt, vars, source

\* When the filler seeks, the window is empty and the reader has been given nothing.
LEMMA SeekFindsNothing ==
  ASSUME TypeOK, PositionInv, FillSeek
  PROVE  /\ min' = max /\ max' = max /\ max \in Int /\ rbuf' = <<>> /\ fpc' = "plan" /\ eof' # 1 /\ sought
<1>1. min = max /\ rbuf = <<>> /\ eof # 1
  BY DEF PositionInv, FillerKnows, SeekKnown, FillSeek
<1>2. sought
  BY DEF PositionInv, SeekKnown, FillSeek
<1>3. QED
  BY <1>1, <1>2 DEF FillSeek, position, reader, TypeOK

\* So that everything starts afresh, whether the source follows or not.
LEMMA FillSeekContent ==
  ASSUME TypeOK, PositionInv, FillSeek
  PROVE  ContentInv' /\ LatchIsTheEnd' /\ WithinFile'
<1>1. /\ min' = max /\ max' = max /\ max \in Int /\ rbuf' = <<>> /\ fpc' = "plan" /\ eof' # 1
  BY SeekFindsNothing
<1>2. WindowHoldsFile'
  BY <1>1 DEF WindowHoldsFile
<1>3. WithinFile'
  BY <1>1 DEF WithinFile
<1>4. QED
  BY <1>1, <1>2, <1>3 DEF ContentInv, ReadHoldsFile, DeliversFile, LatchIsTheEnd

\* Filler steps that write neither the ring nor the positions.
LEMMA FillQuietContent ==
  ASSUME TypeOK, ContentInv, ~astray,
         FillBegin \/ FillSnapshot \/ FlushGet \/ PlanFull \/ ReadEnd \/ ReadError
           \/ FillFailed \/ Interrupt
  PROVE  ContentInv'
<1>1. /\ UNCHANGED <<position, ring, rpc, rbuf, tell>>
      /\ fpc' # "commit" \/ UNCHANGED <<fpc, fplan>>
  BY DEF FillBegin, FillSnapshot, FlushGet, PlanFull, ReadEnd, ReadError, FillFailed,
     Interrupt, FillReturn, position, reader, filler
<1>2. UNCHANGED <<min, max, offset, ring>>
  BY <1>1 DEF position
<1>3. WindowHoldsFile'
  BY <1>2 DEF ContentInv, WindowHoldsFile, SlotOf
<1>4. ReadHoldsFile'
  BY <1>1, <1>2 DEF ContentInv, ReadHoldsFile
<1>5. DeliversFile'
  BY <1>1 DEF ContentInv, DeliversFile
<1>6. QED
  BY <1>3, <1>4, <1>5 DEF ContentInv

\* A flushed window is empty.
LEMMA FlushResetContent == ASSUME TypeOK, ContentInv, ~astray, FlushReset PROVE ContentInv'
<1>1. fp.read \in Int
  BY DEF TypeOK, Snapshots
<1>2. min' = fp.read /\ max' = fp.read /\ fpc' = "seek" /\ UNCHANGED <<rpc, rbuf, tell>>
  BY DEF FlushReset, reader
<1>3. WindowHoldsFile'
  BY <1>1, <1>2 DEF WindowHoldsFile
<1>4. ReadHoldsFile'
  BY <1>2 DEF ReadHoldsFile
<1>5. DeliversFile'
  BY <1>2 DEF ContentInv, DeliversFile
<1>6. QED
  BY <1>3, <1>4, <1>5 DEF ContentInv

\* The slots the source is going to write lie between the window's end and,
\* one lap on, its beginning: no position of the window is in one of them.
LEMMA WindowAvoidsRead ==
  ASSUME NEW lo \in Int, NEW hi \in Int, NEW off \in Int, NEW space \in Int, NEW q \in Int,
         BufferSize \in Int,
         off <= hi, hi < off + BufferSize, 0 < space, hi + space - lo <= BufferSize,
         lo <= q, q < hi
  PROVE  LET slot == IF q >= off THEN q - off ELSE q - off + BufferSize IN
           /\ slot \in Int /\ 0 <= slot /\ slot < BufferSize
           /\ slot < hi - off \/ slot >= hi - off + space
           /\ slot < hi - off => slot + BufferSize - (hi - off) >= space
<1>1. CASE q >= off
  BY <1>1
<1>2. CASE q < off
  BY <1>2
<1>3. QED
  BY <1>1, <1>2

\* A planned read tears no slot of the window.
LEMMA PlanReadContent ==
  ASSUME TypeOK, PositionInv, ContentInv, ~astray, PlanRead
  PROVE  ContentInv'
<1>1. /\ FillPos = max - offset
      /\ ReadLength \in Int /\ 0 < ReadLength
      /\ min' \in Int /\ min <= min' /\ max + ReadLength - min' <= BufferSize
  BY PlanFacts
<1>2. /\ UNCHANGED <<max, offset, rpc, rbuf, tell>> /\ fpc' = "read"
      /\ ring' = IF WrapCopy THEN ring
                 ELSE [i \in Slots |-> IF FillPos <= i /\ i < FillPos + ReadLength
                                       THEN Torn ELSE ring[i]]
  BY DEF PlanRead, reader
<1>3. /\ min \in Int /\ max \in Int /\ offset \in Int /\ BufferSize \in Int
      /\ offset <= max /\ max < offset + BufferSize
  BY SizeAssumption DEF TypeOK, PositionInv, WindowFits
<1>4. WindowHoldsFile'
  <2> SUFFICES ASSUME NEW q \in min' .. max - 1 PROVE ring'[SlotOf(q)] = q
    BY <1>2 DEF WindowHoldsFile, SlotOf
  <2>1. q \in Int /\ min' <= q /\ q < max /\ q \in min .. max - 1
    BY <1>1, <1>3
  <2>2. ring[SlotOf(q)] = q
    BY <2>1 DEF ContentInv, WindowHoldsFile
  <2>3. /\ SlotOf(q) \in Int /\ 0 <= SlotOf(q) /\ SlotOf(q) < BufferSize
        /\ SlotOf(q) < max - offset \/ SlotOf(q) >= max - offset + ReadLength
    BY ZenonT(60), <1>1, <1>3, <2>1, WindowAvoidsRead DEF SlotOf
  <2>4. SlotOf(q) \in Slots /\ ~(FillPos <= SlotOf(q) /\ SlotOf(q) < FillPos + ReadLength)
    BY <1>1, <1>3, <2>3 DEF Slots
  <2>5. ring'[SlotOf(q)] = ring[SlotOf(q)]
    BY <1>2, <2>4
  <2>6. QED
    BY <2>2, <2>5
<1>5. ReadHoldsFile'
  BY <1>2 DEF ReadHoldsFile
<1>6. DeliversFile'
  BY <1>2 DEF ContentInv, DeliversFile
<1>7. QED
  BY <1>4, <1>5, <1>6 DEF ContentInv

\* A finished read has put the positions after the window into their slots,
\* around the end of the buffer if need be, and has left the window alone.
LEMMA ReadOkContent ==
  ASSUME TypeOK, PositionInv, ContentInv, ~astray, ReadOk
  PROVE  ContentInv'
<1>1. PICK len \in 1 .. Least(fplan.space, FileLen - fd) :
        /\ ring' = Written(len)
        /\ fplan' = [pos |-> fplan.pos, space |-> fplan.space, len |-> len]
  BY DEF ReadOk
<1>2. len \in Int /\ 0 < len /\ len <= fplan.space
  BY SizeAssumption DEF Least, TypeOK, Plans
<1>3. /\ min \in Int /\ max \in Int /\ offset \in Int /\ BufferSize \in Int
      /\ fplan.space \in Int /\ fplan.pos \in Int
      /\ offset <= max /\ max < offset + BufferSize
      /\ max + fplan.space - min <= BufferSize /\ min <= max
      /\ fplan.pos = max - offset /\ 0 < fplan.space /\ fplan.space <= BufferSize /\ fd = max
  BY SizeAssumption DEF TypeOK, Plans, PositionInv, WindowFits, FillerKnows, SourceAligned, ReadOk
<1>4. UNCHANGED <<min, max, offset, rpc, rbuf, tell>> /\ fplan'.len = len
  BY <1>1 DEF ReadOk, position, reader
<1>5. \A i \in Slots : ring'[i] =
        IF i >= max - offset /\ i - (max - offset) < len THEN max + (i - (max - offset))
        ELSE IF i < max - offset /\ i + BufferSize - (max - offset) < len
          THEN max + (i + BufferSize - (max - offset))
        ELSE ring[i]
  BY <1>1, <1>3 DEF Written
<1>6. WindowHoldsFile'
  <2> SUFFICES ASSUME NEW q \in min .. max - 1 PROVE ring'[SlotOf(q)] = q
    BY <1>4 DEF WindowHoldsFile, SlotOf
  <2>1. q \in Int /\ min <= q /\ q < max
    BY <1>3
  <2>2. ring[SlotOf(q)] = q
    BY DEF ContentInv, WindowHoldsFile
  <2>3. /\ SlotOf(q) \in Int /\ 0 <= SlotOf(q) /\ SlotOf(q) < BufferSize
        /\ SlotOf(q) < max - offset \/ SlotOf(q) >= max - offset + fplan.space
        /\ SlotOf(q) < max - offset => SlotOf(q) + BufferSize - (max - offset) >= fplan.space
    <3> DEFINE space == fplan.space
    <3>1. space \in Int /\ 0 < space /\ max + space - min <= BufferSize
      BY <1>3
    <3>2. QED
      <4> HIDE DEF space
      <4> QED
        BY ZenonT(60), <1>3, <2>1, <3>1, WindowAvoidsRead DEF SlotOf
  <2>4. SlotOf(q) \in Slots
    BY <1>3, <2>3 DEF Slots
  <2>5. /\ ~(SlotOf(q) >= max - offset /\ SlotOf(q) - (max - offset) < len)
        /\ ~(SlotOf(q) < max - offset /\ SlotOf(q) + BufferSize - (max - offset) < len)
    BY <1>2, <1>3, <2>3
  <2>6. QED
    BY <1>5, <2>2, <2>4, <2>5
<1>7. ReadHoldsFile'
  <2> SUFFICES ASSUME NEW q \in max .. max + len - 1
               PROVE  ring'[IF q - offset < BufferSize THEN q - offset
                            ELSE q - offset - BufferSize] = q
    BY <1>4 DEF ReadHoldsFile
  <2>1. q \in Int /\ max <= q /\ q < max + len
    BY <1>2, <1>3
  <2>2. CASE q - offset < BufferSize
    <3>1. /\ q - offset \in Slots /\ q - offset >= max - offset
          /\ (q - offset) - (max - offset) < len /\ max + ((q - offset) - (max - offset)) = q
      BY <1>2, <1>3, <2>1, <2>2 DEF Slots
    <3>2. QED
      BY <1>5, <2>2, <3>1
  <2>3. CASE ~(q - offset < BufferSize)
    <3>1. q - offset - BufferSize \in Slots
      BY <1>2, <1>3, <2>1, <2>3 DEF Slots
    <3>2. /\ q - offset - BufferSize < max - offset
          /\ ~(q - offset - BufferSize >= max - offset)
          /\ (q - offset - BufferSize) + BufferSize - (max - offset) < len
          /\ max + ((q - offset - BufferSize) + BufferSize - (max - offset)) = q
      BY <1>2, <1>3, <2>1, <2>3
    <3>3. QED
      BY <1>5, <2>3, <3>1, <3>2
  <2>4. QED
    BY <2>2, <2>3
<1>8. DeliversFile'
  BY <1>4 DEF ContentInv, DeliversFile
<1>9. QED
  BY <1>6, <1>7, <1>8 DEF ContentInv

\* The commit re-labels slots and moves no byte: entering the next lap, every
\* position of the window keeps its slot.
LEMMA FillCommitContent ==
  ASSUME TypeOK, PositionInv, ContentInv, ~astray, FillCommit
  PROVE  ContentInv'
<1>1. /\ min \in Int /\ max \in Int /\ offset \in Int /\ BufferSize \in Int
      /\ fplan.len \in Int /\ fplan.space \in Int /\ fplan.pos \in Int
      /\ offset <= max /\ max < offset + BufferSize
      /\ max + fplan.space - min <= BufferSize /\ min <= max
      /\ fplan.pos = max - offset /\ 0 < fplan.len /\ fplan.len <= fplan.space
      /\ fplan.space <= BufferSize
  BY SizeAssumption DEF TypeOK, Plans, PositionInv, WindowFits, FillerKnows, FillCommit
<1>2. /\ min' = min /\ max' = max + fplan.len /\ ring' = ring /\ fpc = "commit" /\ fpc' = "sleep"
      /\ \/ (offset' = offset + BufferSize /\ fplan.pos + fplan.len >= BufferSize)
         \/ (offset' = offset /\ fplan.pos + fplan.len < BufferSize)
      /\ UNCHANGED <<rpc, rbuf, tell>>
  BY <1>1 DEF FillCommit, FillReturn, reader
<1>3. WindowHoldsFile'
  <2> SUFFICES ASSUME NEW q \in min .. max + fplan.len - 1
               PROVE  ring'[IF q >= offset' THEN q - offset' ELSE q - offset' + BufferSize] = q
    <3>1. min' .. max' - 1 = min .. max + fplan.len - 1
      <4>1. min' = min /\ max' = max + fplan.len
        BY <1>2
      <4>2. (max + fplan.len) - 1 = max + fplan.len - 1
        BY <1>1
      <4>3. QED
        BY <4>1, <4>2
    <3>2. WindowHoldsFile' <=> (~astray' => \A k \in min' .. max' - 1 :
            ring'[IF k >= offset' THEN k - offset' ELSE k - offset' + BufferSize] = k)
      BY DEF WindowHoldsFile, SlotOf
    <3>3. QED
      BY <3>1, <3>2
  <2>1. q \in Int /\ min <= q /\ q < max + fplan.len
    BY <1>1
  <2>2. CASE q < max
    <3>1. ring[SlotOf(q)] = q
      BY <1>1, <2>1, <2>2 DEF ContentInv, WindowHoldsFile
    <3>2. SlotOf(q) = IF q >= offset' THEN q - offset' ELSE q - offset' + BufferSize
      BY <1>1, <1>2, <2>1, <2>2 DEF SlotOf
    <3>3. QED
      BY <1>2, <3>1, <3>2
  <2>3. CASE q >= max
    <3>1. ring[IF q - offset < BufferSize THEN q - offset ELSE q - offset - BufferSize] = q
      BY <1>1, <1>2, <2>1, <2>3 DEF ContentInv, ReadHoldsFile
    <3>2. (IF q - offset < BufferSize THEN q - offset ELSE q - offset - BufferSize)
            = (IF q >= offset' THEN q - offset' ELSE q - offset' + BufferSize)
      BY <1>1, <1>2, <2>1, <2>3
    <3>3. QED
      BY <1>2, <3>1, <3>2
  <2>4. QED
    BY <1>1, <2>1, <2>2, <2>3
<1>4. ReadHoldsFile'
  BY <1>2 DEF ReadHoldsFile
<1>5. DeliversFile'
  BY <1>2 DEF ContentInv, DeliversFile
<1>6. QED
  BY <1>3, <1>4, <1>5 DEF ContentInv

\* The slots cache_read computes from its snapshot are still the slots of the
\* positions it wants, even if the ring has entered its next lap since.
LEMMA CopySlots ==
  ASSUME TypeOK, PositionInv, rpc = "copy", NEW i \in 1 .. CopyLen
  PROVE  /\ read + i - 1 \in min .. max - 1
         /\ SlotOf(read + i - 1) = CopyPos + i - 1
<1>1. /\ CopyPos \in Int /\ CopyLen \in Int
      /\ CopyPos = (IF read < rp.offset THEN read - rp.offset + BufferSize ELSE read - rp.offset)
      /\ 0 <= CopyPos /\ 0 < CopyLen /\ CopyPos + CopyLen <= BufferSize
      /\ read + CopyLen <= rp.max
  BY CopyRange
<1>2. /\ min <= read /\ rp.max <= max /\ rp.max < rp.offset + BufferSize
      /\ offset = rp.offset \/ offset = rp.offset + BufferSize
  BY DEF PositionInv, ReaderKnows
<1>3. /\ read \in Int /\ min \in Int /\ max \in Int /\ offset \in Int /\ BufferSize \in Int
      /\ rp.max \in Int /\ rp.offset \in Int
  BY SizeAssumption DEF TypeOK, Snapshots
<1>4. offset <= max /\ max - min <= BufferSize
  BY DEF PositionInv, WindowFits
<1>5. i \in Int /\ 1 <= i /\ i <= CopyLen
  BY <1>1
<1>6. read + i - 1 \in min .. max - 1
  BY <1>1, <1>2, <1>3, <1>5
<1>7. SlotOf(read + i - 1) = CopyPos + i - 1
  <2>1. CASE offset = rp.offset
    BY <1>1, <1>2, <1>3, <1>5, <2>1 DEF SlotOf
  <2>2. CASE offset = rp.offset + BufferSize
    <3>1. read >= rp.offset
      BY <1>2, <1>3, <1>4, <2>2
    <3>2. CopyPos = read - rp.offset
      BY <1>1, <1>3, <3>1
    <3>3. read + i - 1 < offset
      BY <1>1, <1>2, <1>3, <1>5, <2>2
    <3>4. SlotOf(read + i - 1) = read + i - 1 - offset + BufferSize
      BY <1>3, <1>5, <3>3 DEF SlotOf
    <3>5. QED
      BY <1>3, <1>5, <2>2, <3>2, <3>4
  <2>3. QED
    BY <1>2, <2>1, <2>2
<1>8. QED
  BY <1>6, <1>7

\* The memcpy out of the ring, outside the lock, copies the file.
LEMMA CopyContent ==
  ASSUME TypeOK, PositionInv, ContentInv, ~astray, Copy
  PROVE  ContentInv'
<1>1. /\ UNCHANGED <<min, max, offset, ring, fpc, fplan, tell>>
  BY DEF Copy, position, filler
<1>2. WindowHoldsFile' /\ ReadHoldsFile'
  BY <1>1 DEF ContentInv, WindowHoldsFile, ReadHoldsFile, SlotOf
<1>3. DeliversFile'
  <2>1. /\ rpc = "copy" /\ rpc' = "advance"
        /\ Len(rbuf') = Len(rbuf) + CopyLen
        /\ \A i \in 1 .. Len(rbuf) : rbuf'[i] = rbuf[i]
        /\ \A i \in 1 .. CopyLen : rbuf'[Len(rbuf) + i] = ring[CopyPos + i - 1]
    BY CopyEffect
  <2>2. \A i \in 1 .. Len(rbuf) : rbuf[i] = tell + i - 1
    BY <2>1 DEF ContentInv, DeliversFile
  <2>3. \A i \in 1 .. CopyLen : ring[CopyPos + i - 1] = read + i - 1
    BY <2>1, CopySlots DEF ContentInv, WindowHoldsFile
  <2>4. /\ read = tell + Len(rbuf) /\ Len(rbuf) \in Nat /\ tell \in Int /\ read \in Int
        /\ CopyLen \in Int /\ 0 < CopyLen
    BY <2>1, CopyRange DEF PositionInv, ReaderKnows, TypeOK
  <2>5. \A i \in 1 .. Len(rbuf') : rbuf'[i] = tell + i - 1
    <3> SUFFICES ASSUME NEW i \in 1 .. Len(rbuf) + CopyLen PROVE rbuf'[i] = tell + i - 1
      BY <2>1
    <3>1. CASE i <= Len(rbuf)
      BY <2>1, <2>2, <2>4, <3>1
    <3>2. CASE i > Len(rbuf)
      <4>1. i - Len(rbuf) \in 1 .. CopyLen /\ Len(rbuf) + (i - Len(rbuf)) = i
        BY <2>4, <3>2
      <4>2. rbuf'[i] = read + (i - Len(rbuf)) - 1
        BY <2>1, <2>3, <4>1
      <4>3. QED
        BY <2>4, <4>1, <4>2
    <3>3. QED
      BY <2>4, <3>1, <3>2
  <2>6. QED
    BY <1>1, <2>1, <2>5 DEF DeliversFile
<1>4. QED
  BY <1>2, <1>3 DEF ContentInv

\* The reader's other steps leave the ring alone.
LEMMA ReaderContent ==
  ASSUME TypeOK, PositionInv, ContentInv, ~astray,
         SeekPublish \/ SeekClearEof \/ FillBuffer \/ Prefill \/ PrefillDone \/ PrefillStalled
           \/ LoopAbort \/ LoopEof \/ LoopStalled \/ LoopSnapshot \/ Advance
  PROVE  ContentInv'
<1>1. UNCHANGED <<min, max, offset, ring, fpc, fplan>>
  BY DEF SeekPublish, SeekClearEof, FillBuffer, Prefill, PrefillDone, PrefillStalled, LoopAbort,
     LoopEof, LoopStalled, LoopSnapshot, Advance, position, filler
<1>2. WindowHoldsFile' /\ ReadHoldsFile'
  BY <1>1 DEF ContentInv, WindowHoldsFile, ReadHoldsFile, SlotOf
<1>3. DeliversFile'
  <2>1. CASE SeekPublish \/ FillBuffer
    BY <2>1 DEF SeekPublish, FillBuffer, DeliversFile
  <2>2. CASE SeekClearEof \/ Prefill \/ PrefillDone \/ PrefillStalled \/ LoopSnapshot
    BY <2>2 DEF SeekClearEof, Prefill, PrefillDone, PrefillStalled, LoopSnapshot, DeliversFile,
       ContentInv
  <2>3. CASE LoopAbort \/ LoopEof \/ LoopStalled \/ Advance
    <3>1. /\ rpc \in {"loop", "advance"} /\ rbuf' = rbuf
          /\ (rpc' = "idle" /\ tell' = tell + Len(rbuf)) \/ (rpc' = "loop" /\ tell' = tell)
      BY <2>3 DEF LoopAbort, LoopEof, LoopStalled, Advance, Return
    <3>2. tell \in Int /\ Len(rbuf) \in Nat
      BY DEF TypeOK
    <3>3. \A i \in 1 .. Len(rbuf) : rbuf[i] = tell + i - 1
      BY <3>1 DEF ContentInv, DeliversFile
    <3>4. QED
      BY <3>1, <3>2, <3>3 DEF DeliversFile
  <2>4. QED
    BY <2>1, <2>2, <2>3
<1>4. QED
  BY <1>2, <1>3 DEF ContentInv

\* The latch is set, and a read has failed, only at the end of the file.
LEMMA NextLatch ==
  ASSUME TypeOK, PositionInv, LatchIsTheEnd, [Next]_vars, ~FillSeek, ~astray
  PROVE  LatchIsTheEnd'
<1>1. /\ eof = 1 => fpc = "sleep"
      /\ fpc = "read" => fd = max
      /\ max \in Int /\ FileLen \in Int /\ faults \in Nat
  BY SizeAssumption DEF TypeOK, PositionInv, FillerKnows, SourceAligned
<1>2. CASE ReadEnd \/ ReadError
  BY <1>1, <1>2 DEF LatchIsTheEnd, ReadEnd, ReadError, position
<1>3. CASE FillFailed
  BY <1>1, <1>3 DEF LatchIsTheEnd, FillFailed, FillReturn, position
<1>4. CASE FillBegin \/ FillSnapshot \/ FlushGet \/ PlanFull \/ PlanRead \/ ReadOk
             \/ FlushReset \/ FillCommit
  <2>1. fpc' # "fail" /\ faults' = faults
    BY <1>4 DEF FillBegin, FillSnapshot, FlushGet, PlanFull, PlanRead, ReadOk, FlushReset,
       FillCommit, FillReturn
  <2>2. eof' # 1
    BY <1>1, <1>4 DEF FillBegin, FillSnapshot, FlushGet, PlanFull, PlanRead, ReadOk, FlushReset,
       FillCommit
  <2>3. QED
    BY <2>1, <2>2 DEF LatchIsTheEnd
<1>5. CASE ReaderCalls \/ ReaderSteps \/ ReaderGivesUp \/ Interrupt \/ UNCHANGED vars
  <2>1. /\ UNCHANGED <<max, fpc>>
        /\ faults' = faults \/ faults' = faults + 1
        /\ eof' = eof \/ eof' = 0
    BY <1>5 DEF ReaderCalls, ReaderSteps, ReaderGivesUp, SeekPublish, FillBuffer, Prefill,
       SeekClearEof, LoopAbort, LoopEof, LoopStalled, LoopSnapshot, Copy, Advance, PrefillDone,
       PrefillStalled, Interrupt, vars, position, filler
  <2>2. QED
    BY <1>1, <2>1 DEF LatchIsTheEnd
<1>6. QED
  BY <1>2, <1>3, <1>4, <1>5 DEF Next, FillerIO, FillerCPU

\* A read brings in nothing past the end of the file, and nothing else moves
\* the end of a window that is not empty.
LEMMA NextWithin ==
  ASSUME TypeOK, PositionInv, WithinFile, [Next]_vars, ~FillSeek, ~astray
  PROVE  WithinFile'
<1>1. min \in Int /\ max \in Int /\ fd \in Int /\ FileLen \in Int
  BY SizeAssumption DEF TypeOK
<1>2. CASE ReadOk
  <2>1. PICK len \in 1 .. Least(fplan.space, FileLen - fd) :
          fplan' = [pos |-> fplan.pos, space |-> fplan.space, len |-> len]
    BY <1>2 DEF ReadOk
  <2>2. fplan.space \in Int /\ fd = max
    BY <1>2 DEF TypeOK, Plans, ReadOk, PositionInv, SourceAligned
  <2>3. fplan'.len = len /\ len \in Int /\ len <= FileLen - max
    BY <1>1, <2>1, <2>2 DEF Least
  <2>4. UNCHANGED <<min, max>>
    BY <1>2 DEF ReadOk, position
  <2>5. QED
    BY <1>1, <2>3, <2>4 DEF WithinFile
<1>3. CASE FillCommit
  BY <1>1, <1>3 DEF FillCommit, FillReturn, WithinFile
<1>4. CASE PlanRead
  <2>1. min' \in Int /\ min <= min'
    BY <1>4, PlanFacts
  <2>2. max' = max /\ fpc' = "read"
    BY <1>4 DEF PlanRead
  <2>3. QED
    BY <1>1, <2>1, <2>2 DEF WithinFile
<1>5. CASE FlushReset
  <2>1. fp.read \in Int
    BY DEF TypeOK, Snapshots
  <2>2. QED
    BY <1>5, <2>1 DEF FlushReset, WithinFile
<1>6. CASE ~(ReadOk \/ FillCommit \/ PlanRead \/ FlushReset)
  <2>1. /\ UNCHANGED <<min, max>>
        /\ fpc' # "commit" \/ UNCHANGED <<fpc, fplan>>
    BY <1>6 DEF Next, FillerIO, FillerCPU, FillBegin, FillSnapshot, FlushGet, PlanFull, ReadEnd,
       ReadError, FillFailed, FillReturn, ReaderCalls, ReaderSteps, ReaderGivesUp, SeekPublish,
       FillBuffer, Prefill, SeekClearEof, LoopAbort, LoopEof, LoopStalled, LoopSnapshot, Copy,
       Advance, PrefillDone, PrefillStalled, Interrupt, vars, position, filler
  <2>2. QED
    BY <2>1 DEF WithinFile
<1>7. QED
  BY <1>2, <1>3, <1>4, <1>5, <1>6

\* Every step but the filler's seek preserves the contents.
LEMMA NextContent ==
  ASSUME TypeOK, PositionInv, ContentInv, [Next]_vars, ~FillSeek, ~astray
  PROVE  ContentInv'
<1>1. CASE FillerCPU \/ FillerIO
  BY <1>1, FillQuietContent, FlushResetContent, PlanReadContent, ReadOkContent,
     FillCommitContent DEF FillerCPU, FillerIO
<1>2. CASE ReaderCalls \/ ReaderSteps \/ ReaderGivesUp \/ Interrupt
  BY <1>2, FillQuietContent, ReaderContent, CopyContent DEF ReaderCalls, ReaderSteps, ReaderGivesUp
<1>3. CASE UNCHANGED vars
  BY <1>3 DEF ContentInv, WindowHoldsFile, ReadHoldsFile, DeliversFile, SlotOf, vars, position,
     filler, reader
<1>4. QED
  BY <1>1, <1>2, <1>3 DEF Next

\* The whole invariant of the ring.
THEOREM Invariance == Spec => []RingInv
<1>1. Init => ContentInv /\ LatchIsTheEnd /\ WithinFile
  <2> SUFFICES ASSUME Init PROVE ContentInv /\ LatchIsTheEnd /\ WithinFile
    OBVIOUS
  <2>1. PICK start \in Nat : min = start /\ max = start
    BY SizeAssumption DEF Init
  <2>2. rbuf = <<>> /\ fpc = "sleep" /\ eof = 0
    BY DEF Init
  <2>3. WindowHoldsFile
    BY <2>1 DEF WindowHoldsFile
  <2>4. WithinFile
    BY <2>1, <2>2 DEF WithinFile
  <2>5. QED
    BY <2>2, <2>3, <2>4 DEF ContentInv, ReadHoldsFile, DeliversFile, LatchIsTheEnd
<1>2. TypeOK /\ PositionInv /\ ContentInv /\ LatchIsTheEnd /\ WithinFile /\ [Next]_vars
        => ContentInv' /\ LatchIsTheEnd' /\ WithinFile'
  <2> SUFFICES ASSUME TypeOK, PositionInv, ContentInv, LatchIsTheEnd, WithinFile, [Next]_vars
               PROVE  ContentInv' /\ LatchIsTheEnd' /\ WithinFile'
    OBVIOUS
  <2>1. CASE FillSeek
    BY <2>1, FillSeekContent
  <2>2. CASE ~FillSeek /\ astray
    <3>1. astray'
      BY <2>2, AstrayKept
    <3>2. QED
      BY <3>1 DEF ContentInv, WindowHoldsFile, ReadHoldsFile, DeliversFile, LatchIsTheEnd,
         WithinFile
  <2>3. CASE ~FillSeek /\ ~astray
    BY <2>3, NextContent, NextLatch, NextWithin
  <2>4. QED
    BY <2>1, <2>2, <2>3
<1>3. QED
  BY <1>1, <1>2, Typing, Positions, PTL DEF Spec, RingInv

\* The window arithmetic of cache_fill and cache_read never leaves the buffer.
THEOREM WindowAlwaysFits == Spec => []WindowFits
<1>1. PositionInv => WindowFits
  BY DEF PositionInv
<1>2. QED
  BY <1>1, Positions, PTL

\* Every position of the window is in its slot, at every moment, unless the
\* window was started by a seek that the source did not follow.
THEOREM WindowIsFile == Spec => []WindowHoldsFile
<1>1. RingInv => WindowHoldsFile
  BY DEF RingInv, ContentInv
<1>2. QED
  BY <1>1, Invariance, PTL

\* The reader is handed the file, consecutively and untorn, with that exception.
THEOREM Delivery == Spec => []DeliversFile
<1>1. RingInv => DeliversFile
  BY DEF RingInv, ContentInv
<1>2. QED
  BY <1>1, Invariance, PTL

\* "read_filepos differs" is never printed.
THEOREM PositionOwned == Spec => []ReaderOwnsPosition
<1>1. PositionInv => ReaderOwnsPosition
  BY DEF PositionInv, ReaderKnows, ReaderOwnsPosition
<1>2. QED
  BY <1>1, Positions, PTL

\* Without faults the reader is told of the end only at the end.
THEOREM EofSound == Spec => []EofIsTheEnd
<1>1. TypeOK /\ RingInv => EofIsTheEnd
  BY SizeAssumption DEF TypeOK, RingInv, LatchIsTheEnd, EofIsTheEnd, AtEof, Available
<1>2. QED
  BY <1>1, Typing, Invariance, PTL

\* History inside back_size is never given up.
THEOREM History == Spec => HistoryKept
<1>1. TypeOK /\ PositionInv /\ [Next]_vars
        => [fpc = "plan" /\ min' # min => min' <= read - BackSize]_vars
  <2> SUFFICES ASSUME TypeOK, PositionInv, [Next]_vars, fpc = "plan", min' # min
               PROVE  min' <= read - BackSize
    OBVIOUS
  <2>1. PlanRead
    BY DEF Next, FillerIO, FillerCPU, FillBegin, FillSnapshot, FlushGet, FlushReset, FillSeek,
       PlanFull, ReadOk, ReadEnd, ReadError, FillFailed, FillCommit, ReaderCalls, ReaderSteps,
       ReaderGivesUp, SeekPublish, FillBuffer, Prefill, SeekClearEof, LoopAbort, LoopEof,
       LoopStalled, LoopSnapshot, Copy, Advance, PrefillDone, PrefillStalled, Interrupt, vars,
       position
  <2>2. QED
    BY <2>1, PlanFacts
<1>2. QED
  BY <1>1, Typing, Positions, PTL DEF Spec, HistoryKept

\* The filler never moves the window away from under the reader.
THEOREM ReaderKept == Spec => ReaderStaysInWindow
<1>1. TypeOK /\ PositionInv /\ [Next]_vars
        => [read' = read /\ InWindow(read) => InWindow(read)']_vars
  <2> SUFFICES ASSUME TypeOK, PositionInv, [Next]_vars, read' = read, InWindow(read)
               PROVE  InWindow(read)'
    OBVIOUS
  <2>1. CASE PlanRead
    BY <2>1, PlanFacts DEF PlanRead, InWindow
  <2>2. CASE FlushReset
    BY <2>2 DEF TypeOK, Snapshots, FlushReset, InWindow
  <2>3. CASE FillCommit
    <3>1. fplan.len \in Int /\ 0 < fplan.len
      BY <2>3 DEF TypeOK, Plans, PositionInv, FillerKnows, FillCommit
    <3>2. QED
      BY <2>3, <3>1 DEF TypeOK, FillCommit, InWindow
  <2>4. CASE ~(PlanRead \/ FlushReset \/ FillCommit)
    <3>1. min' = min /\ max' = max
      BY <2>4 DEF Next, FillerIO, FillerCPU, FillBegin, FillSnapshot, FlushGet, FillSeek,
         PlanFull, ReadOk, ReadEnd, ReadError, FillFailed, ReaderCalls, ReaderSteps,
         ReaderGivesUp, SeekPublish, FillBuffer, Prefill, SeekClearEof, LoopAbort, LoopEof,
         LoopStalled, LoopSnapshot, Copy, Advance, PrefillDone, PrefillStalled, Interrupt, vars,
         position
    <3>2. QED
      BY <3>1 DEF InWindow
  <2>5. QED
    BY <2>1, <2>2, <2>3, <2>4
<1>2. QED
  BY <1>1, Typing, Positions, PTL DEF Spec, ReaderStaysInWindow
-----------------------------------------------------------------------------
(* The cached stream implements SeekableStream.                            *)

\* The filler's steps, and the reader's bookkeeping, are invisible to the
\* caller; a read error is at most an excuse.
LEMMA HiddenSteps ==
  ASSUME FillBegin \/ FillSnapshot \/ FlushGet \/ FlushReset \/ PlanFull \/ PlanRead
           \/ ReadOk \/ ReadEnd \/ FillFailed \/ FillCommit \/ SeekClearEof \/ LoopSnapshot
           \/ Prefill \/ PrefillDone
  PROVE  UNCHANGED Promise!vars
<1>1. UNCHANGED <<tell, rbuf, abort, faults, sought, type, astray>>
  BY DEF FillBegin, StreamReset, FillSnapshot, FlushGet, FlushReset, PlanFull, PlanRead, ReadOk,
     ReadEnd, StreamReadFailed, FillFailed, FillCommit, SeekClearEof, LoopSnapshot, Prefill,
     PrefillDone, source, reader
<1>2. (rpc \notin {"idle", "prefill"})' <=> (rpc \notin {"idle", "prefill"})
  BY DEF FillBegin, FillSnapshot, FlushGet, FlushReset, PlanFull, PlanRead, ReadOk, ReadEnd,
     FillFailed, FillCommit, SeekClearEof, LoopSnapshot, Prefill, PrefillDone, reader
<1>3. (rpc \notin {"idle", "prefill"})' = (rpc \notin {"idle", "prefill"})
  BY <1>2
<1>4. (abort = 1 \/ faults > 0)' = (abort = 1 \/ faults > 0) /\ Streaming' = Streaming
  BY <1>1 DEF Streaming
<1>5. QED
  BY <1>1, <1>3, <1>4 DEF Promise!vars

\* An interruption, a read error and a prefill given up are the caller's excuses.
LEMMA ExcuseSteps ==
  ASSUME TypeOK, Interrupt \/ ReadError \/ PrefillStalled
  PROVE  Promise!Excuse
<1>1. UNCHANGED <<tell, rbuf, sought, type, astray>>
  BY DEF Interrupt, ReadError, StreamReadFailed, PrefillStalled, source, reader
<1>2. (rpc \notin {"idle", "prefill"})' = (rpc \notin {"idle", "prefill"})
  BY DEF Interrupt, ReadError, PrefillStalled, reader
<1>3. abort' = 1 \/ faults' > 0
  BY DEF TypeOK, Interrupt, ReadError, PrefillStalled
<1>4. (abort' = 1 \/ faults' > 0) = TRUE
  BY <1>3
<1>5. QED
  BY <1>1, <1>2, <1>4 DEF Promise!Excuse, Streaming

\* The filler's seek is made for a seek of the caller's; it may lead him astray,
\* if the source fails or is live, and lead him back.
LEMMA RepositionSteps ==
  ASSUME TypeOK, PositionInv, FillSeek
  PROVE  Promise!Reposition \/ UNCHANGED Promise!vars
<1>1. sought /\ UNCHANGED <<tell, rbuf, rpc, sought, type, abort>>
  BY SeekFindsNothing DEF FillSeek, StreamSeek, reader
<1>2. faults \in Nat /\ faults' \in Nat /\ faults <= faults'
  BY DEF TypeOK, FillSeek, StreamSeek, SourceSeek
<1>3. \/ UNCHANGED <<faults, astray>>
      \/ astray' = FALSE \/ Streaming \/ faults' > 0
  BY <1>2 DEF FillSeek, StreamSeek, SourceSeek, TypeOK
<1>4. (rpc \notin {"idle", "prefill"})' = (rpc \notin {"idle", "prefill"}) /\ Streaming' = Streaming
  BY <1>1 DEF Streaming
<1>5. CASE UNCHANGED <<faults, astray>>
  <2>1. (abort = 1 \/ faults > 0)' = (abort = 1 \/ faults > 0)
    BY <1>1, <1>5
  <2>2. QED
    BY <1>1, <1>4, <1>5, <2>1 DEF Promise!vars
<1>6. CASE astray' = FALSE \/ Streaming \/ faults' > 0
  <2>1. (abort = 1 \/ faults > 0) => (abort' = 1 \/ faults' > 0)
    BY <1>1, <1>2
  <2>2. astray' => (abort' = 1 \/ faults' > 0) \/ Streaming
    BY <1>6
  <2>3. QED
    BY <1>1, <1>4, <2>1, <2>2 DEF Promise!Reposition
<1>7. QED
  BY <1>3, <1>5, <1>6

\* A seek and a read start a call.
LEMMA CallSteps ==
  ASSUME SeekPublish \/ FillBuffer
  PROVE  Promise!Seek \/ Promise!Read
<1>1. /\ rpc = "idle" /\ rpc' \in {"clear", "loop"} /\ rbuf' = <<>>
      /\ UNCHANGED <<abort, faults, type, astray>>
  BY DEF SeekPublish, FillBuffer, source
<1>2. ~(rpc \notin {"idle", "prefill"}) /\ (rpc' \notin {"idle", "prefill"}) = TRUE
  BY <1>1
<1>3. (abort = 1 \/ faults > 0)' = (abort = 1 \/ faults > 0) /\ Streaming' = Streaming
  BY <1>1 DEF Streaming
<1>4. CASE SeekPublish
  <2>1. \E q \in SeekTargets : tell' = (q \div SectorSize) * SectorSize
    BY <1>4 DEF SeekPublish
  <2>2. sought' = TRUE
    BY <1>4 DEF SeekPublish
  <2>3. Promise!Seek
    BY <1>1, <1>2, <1>3, <2>1, <2>2 DEF Promise!Seek
  <2>4. QED
    BY <2>3
<1>5. CASE FillBuffer
  <2>1. tell' = tell /\ sought' = sought
    BY <1>5 DEF FillBuffer
  <2>2. Promise!Read
    BY <1>1, <1>2, <1>3, <2>1 DEF Promise!Read
  <2>3. QED
    BY <2>2
<1>6. QED
  BY <1>4, <1>5

\* One memcpy delivers the file's next units, and stays inside the file.
LEMMA CopyDelivers ==
  ASSUME TypeOK, RingInv, Copy
  PROVE  Promise!Deliver
<1>1. /\ rpc = "copy" /\ rpc' = "advance"
      /\ rbuf' = rbuf \o [i \in 1 .. CopyLen |-> ring[CopyPos + i - 1]]
      /\ Len(rbuf') = Len(rbuf) + CopyLen
      /\ UNCHANGED <<tell, abort, faults, type, astray>>
  BY CopyEffect DEF Copy, RingInv, source
<1>2. /\ CopyLen \in Int /\ 0 < CopyLen /\ Len(rbuf) + CopyLen <= SectorSize
      /\ read + CopyLen <= rp.max
  BY <1>1, CopyRange DEF RingInv
<1>3. /\ read = tell + Len(rbuf) /\ min <= read /\ read < rp.max /\ rp.max <= max
      /\ ~astray => (min < max => max <= FileLen)
  BY <1>1 DEF RingInv, PositionInv, ReaderKnows, WithinFile
<1>4. /\ read \in Int /\ tell \in Int /\ Len(rbuf) \in Nat /\ min \in Int /\ max \in Int
      /\ rp.max \in Int /\ FileLen \in Int /\ SectorSize \in Int
  BY SizeAssumption DEF TypeOK, Snapshots
<1>5. CopyLen \in 1 .. SectorSize - Len(rbuf)
  BY <1>2, <1>4
<1>6. ASSUME ~astray
      PROVE  /\ tell + Len(rbuf) + CopyLen <= FileLen
             /\ rbuf' = rbuf \o [i \in 1 .. CopyLen |-> tell + Len(rbuf) + i - 1]
  <2>1. tell + Len(rbuf) + CopyLen <= FileLen
    BY <1>2, <1>3, <1>4, <1>6
  <2>2. ASSUME NEW i \in 1 .. CopyLen
        PROVE  ring[CopyPos + i - 1] = tell + Len(rbuf) + i - 1
    <3>1. ring[CopyPos + i - 1] = read + i - 1
      BY <1>1, <1>6, CopySlots DEF RingInv, ContentInv, WindowHoldsFile
    <3>2. QED
      BY <1>3, <1>4, <3>1
  <2>3. [i \in 1 .. CopyLen |-> ring[CopyPos + i - 1]]
          = [i \in 1 .. CopyLen |-> tell + Len(rbuf) + i - 1]
    BY <2>2
  <2>4. QED
    BY <1>1, <2>1, <2>3
<1>7. /\ rpc \notin {"idle", "prefill"}
      /\ (rpc \notin {"idle", "prefill"})' = (rpc \notin {"idle", "prefill"})
      /\ (abort = 1 \/ faults > 0)' = (abort = 1 \/ faults > 0)
      /\ Streaming' = Streaming
  BY <1>1 DEF Streaming
<1>8. sought' = FALSE
  BY CopyEffect DEF RingInv
<1>9. \E n \in 1 .. SectorSize - Len(rbuf) :
        \/ /\ ~astray
           /\ tell + Len(rbuf) + n <= FileLen
           /\ rbuf' = rbuf \o [i \in 1 .. n |-> tell + Len(rbuf) + i - 1]
        \/ /\ astray
           /\ Len(rbuf') = Len(rbuf) + n
  <2>1. CASE astray
    BY <1>1, <1>5, <2>1
  <2>2. CASE ~astray
    BY <1>5, <1>6, <2>2
  <2>3. QED
    BY <2>1, <2>2
<1>10. QED
  BY <1>1, <1>7, <1>8, <1>9 DEF Promise!Deliver

\* A call comes back full, at the end of the file, or with an excuse.
LEMMA ReturnSteps ==
  ASSUME TypeOK, RingInv, LoopAbort \/ LoopEof \/ LoopStalled \/ Advance
  PROVE  Promise!Return \/ UNCHANGED Promise!vars
<1>1. /\ rpc \in {"loop", "advance"} /\ rbuf' = rbuf /\ UNCHANGED <<abort, sought, type, astray>>
      /\ \/ rpc' = "idle" /\ tell' = tell + Len(rbuf)
         \/ rpc' = "loop" /\ tell' = tell /\ faults' = faults
  BY DEF LoopAbort, LoopEof, LoopStalled, Advance, Return, source
<1>2. rpc \notin {"idle", "prefill"} /\ Streaming' = Streaming
  BY <1>1 DEF Streaming
<1>3. faults \in Nat /\ faults' \in Nat /\ faults <= faults'
  BY DEF TypeOK, LoopAbort, LoopEof, LoopStalled, Advance
<1>4. ASSUME rpc' = "idle"
      PROVE  \/ abort' = 1 \/ faults' > 0
             \/ astray \/ Len(rbuf) = SectorSize \/ tell + Len(rbuf) >= FileLen
  <2>1. CASE LoopAbort \/ LoopStalled
    BY <2>1 DEF LoopAbort, LoopStalled, TypeOK
  <2>2. CASE LoopEof
    <3>1. rpc = "loop" /\ eof = 1 /\ read >= max
      BY <2>2 DEF LoopEof, AtEof
    <3>2. read = tell + Len(rbuf) /\ (faults = 0 /\ ~astray => max >= FileLen)
      BY <3>1 DEF RingInv, PositionInv, ReaderKnows, LatchIsTheEnd
    <3>3. /\ read \in Int /\ max \in Int /\ FileLen \in Int
      BY SizeAssumption DEF TypeOK
    <3>4. faults > 0 \/ astray \/ read >= FileLen
      BY <1>3, <3>1, <3>2, <3>3
    <3>5. QED
      BY <1>3, <3>2, <3>4
  <2>3. CASE Advance
    <3>1. ~(Len(rbuf) < SectorSize) /\ Len(rbuf) <= SectorSize
      BY <1>4, <2>3 DEF Advance, RingInv, PositionInv, ReaderKnows
    <3>2. Len(rbuf) \in Nat /\ SectorSize \in Nat
      BY SizeAssumption DEF TypeOK
    <3>3. QED
      BY <3>1, <3>2
  <2>4. QED
    BY <2>1, <2>2, <2>3
<1>5. CASE rpc' = "idle"
  <2>1. (rpc' \notin {"idle", "prefill"}) = FALSE
    BY <1>5
  <2>2. tell' = tell + Len(rbuf)
    BY <1>1, <1>5
  <2>3. (abort = 1 \/ faults > 0) => (abort' = 1 \/ faults' > 0)
    BY <1>1, <1>3
  <2>4. Promise!Return
    BY <1>1, <1>2, <1>4, <1>5, <2>1, <2>2, <2>3 DEF Promise!Return
  <2>5. QED
    BY <2>4
<1>6. CASE rpc' = "loop"
  <2>1. (rpc \notin {"idle", "prefill"})' = (rpc \notin {"idle", "prefill"}) /\ tell' = tell
    BY <1>1, <1>2, <1>6
  <2>2. (abort = 1 \/ faults > 0)' = (abort = 1 \/ faults > 0)
    BY <1>1, <1>6
  <2>3. QED
    BY <1>1, <1>2, <2>1, <2>2 DEF Promise!vars
<1>7. QED
  BY <1>1, <1>5, <1>6

\* The cached stream keeps the promise of SeekableStream for every geometry of
\* the ring: each step of cache_fill and cache_read is a step its caller may
\* see there, or one it does not see.  Failing reads and seeks included: only a
\* seek, and only of a source that failed or is live, leads the reader astray.
THEOREM PromiseKept == Spec => KeepsPromise
<1>1. Init => Promise!Init
  <2> SUFFICES ASSUME Init PROVE Promise!Init
    OBVIOUS
  <2>1. tell \in {0} \cup SeekTargets /\ rbuf = <<>> /\ rpc = "idle"
    BY DEF Init
  <2>2. sought = FALSE /\ astray = FALSE
    BY DEF Init
  <2>3. (rpc \notin {"idle", "prefill"}) = FALSE
    BY <2>1
  <2>4. (abort = 1 \/ faults > 0) \in BOOLEAN /\ Streaming \in BOOLEAN
    BY DEF Streaming
  <2>5. QED
    BY <2>1, <2>2, <2>3, <2>4 DEF Promise!Init
<1>2. TypeOK /\ RingInv /\ [Next]_vars => [Promise!Next]_(Promise!vars)
  <2> SUFFICES ASSUME TypeOK, RingInv, [Next]_vars
               PROVE  Promise!Next \/ UNCHANGED Promise!vars
    OBVIOUS
  <2>1. CASE FillSeek
    BY <2>1, RepositionSteps DEF RingInv, Promise!Next
  <2>2. CASE (FillerCPU \/ FillerIO) /\ ~FillSeek
    BY <2>2, HiddenSteps, ExcuseSteps DEF FillerCPU, FillerIO, Promise!Next
  <2>3. CASE ReaderCalls
    BY <2>3, HiddenSteps, CallSteps DEF ReaderCalls, Promise!Next
  <2>4. CASE ReaderSteps \/ ReaderGivesUp
    BY <2>4, HiddenSteps, ExcuseSteps, CopyDelivers, ReturnSteps
       DEF ReaderSteps, ReaderGivesUp, Promise!Next
  <2>5. CASE Interrupt
    BY <2>5, ExcuseSteps DEF Promise!Next
  <2>6. CASE UNCHANGED vars
    <3>1. UNCHANGED <<tell, rbuf, rpc, abort, faults, sought, type, astray>>
      BY <2>6 DEF vars, source, reader
    <3>2. QED
      BY <3>1 DEF Promise!vars, Streaming
  <2>7. QED
    BY <2>1, <2>2, <2>3, <2>4, <2>5, <2>6 DEF Next
<1>3. QED
  BY <1>1, <1>2, Typing, Invariance, PTL DEF Spec, KeepsPromise, Promise!Spec

-----------------------------------------------------------------------------
(* The safety behind the liveness properties.                              *)

\* A prefill waits for no more than can be buffered ahead.
WantFits == want <= ForwardLimit

LEMMA PrefillClamped == Spec => []WantFits
<1>1. ForwardLimit \in Nat
  BY SizeAssumption DEF ForwardLimit
<1>2. Init => WantFits
  BY <1>1 DEF Init, WantFits
<1>3. WantFits /\ [Next]_vars => WantFits'
  <2> SUFFICES ASSUME WantFits, [Next]_vars PROVE WantFits'
    OBVIOUS
  <2>1. CASE Prefill
    <3>1. PICK m \in PrefillTargets : want' = Least(m, ForwardLimit)
      BY <2>1 DEF Prefill
    <3>2. m \in Nat
      BY SizeAssumption
    <3>3. QED
      BY <1>1, <3>1, <3>2 DEF Least, WantFits
  <2>2. CASE PrefillDone \/ PrefillStalled
    BY <1>1, <2>2 DEF PrefillDone, PrefillStalled, WantFits
  <2>3. CASE ~(Prefill \/ PrefillDone \/ PrefillStalled)
    <3>1. want' = want
      BY <2>3 DEF Next, FillerIO, FillerCPU, FillBegin, FillSnapshot, FlushGet, FlushReset,
         FillSeek, PlanFull, PlanRead, ReadOk, ReadEnd, ReadError, FillFailed, FillCommit,
         ReaderCalls, ReaderSteps, ReaderGivesUp, SeekPublish, FillBuffer, SeekClearEof,
         LoopAbort, LoopEof, LoopStalled, LoopSnapshot, Copy, Advance, Return, Interrupt, vars,
         reader
    <3>2. QED
      BY <3>1 DEF WantFits, ForwardLimit
  <2>4. QED
    BY <2>1, <2>2, <2>3
<1>4. QED
  BY <1>2, <1>3, PTL DEF Spec

\* For every geometry of the ring, a full ring serves whoever waits for it: the
\* filler's minimum write and the history it keeps never add up to a standoff
\* with a reader, nor with stream_cache_prefill.
THEOREM NeverStandoff == Spec => []NoStandoff
<1>1. TypeOK /\ PositionInv /\ WantFits => NoStandoff
  <2> SUFFICES ASSUME TypeOK, PositionInv, WantFits, fpc = "plan", Free < FillLimit
               PROVE  Available /\ Prefilled
    BY DEF NoStandoff
  <2>1. /\ min \in Int /\ max \in Int /\ read \in Int /\ fread \in Int /\ want \in Int
        /\ BufferSize \in Nat /\ BackSize \in Nat /\ FillLimit \in Nat
        /\ FillLimit + BackSize <= BufferSize
    BY SizeAssumption DEF TypeOK
  <2>2. /\ fp.min = min /\ fp.max = max
        /\ fread = read \/ (min = fread /\ max = fread)
        /\ ~MustDrop(fread)
    BY DEF PositionInv, FillerKnows
  <2>3. Back \in Int /\ Back <= BackSize /\ Newb \in Int /\ Newb = Greatest(max - fread, 0)
    BY <2>1, <2>2 DEF Back, Newb, Least, Greatest
  <2>4. Newb > BufferSize - BackSize - FillLimit
    BY <2>1, <2>3 DEF Free
  <2>5. Newb > 0 /\ Newb > want
    BY <2>1, <2>3, <2>4 DEF WantFits, ForwardLimit
  <2>6. max - fread > 0 /\ max - fread > want
    BY <2>1, <2>3, <2>5 DEF Greatest
  <2>7. fread = read
    BY <2>1, <2>2, <2>6
  <2>8. min <= read
    BY <2>1, <2>2, <2>6, <2>7 DEF MustDrop, InWindow
  <2>9. QED
    BY <2>1, <2>6, <2>7, <2>8 DEF Available, Prefilled
<1>2. QED
  BY <1>1, Typing, Positions, PrefillClamped, PTL
=============================================================================
