------------------------ MODULE RingCachePositions ------------------------
(***************************************************************************)
(* Types and position arithmetic of the ring, for every buffer geometry,   *)
(* file and pattern of seeks that the assumptions of RingCache allow.      *)
(*                                                                         *)
(* TypeOK is inductive by itself.  PositionInv, what each thread knows     *)
(* about the four shared positions at each of its control points, is       *)
(* preserved because the filler outranks the reader (PriorityAssumption):  *)
(* the reader runs only while the filler sleeps, repositions the source    *)
(* or reads from it.                                                       *)
(***************************************************************************)
EXTENDS RingCache, TLAPS

-----------------------------------------------------------------------------
(* Type correctness: one lemma per action that computes something.         *)

\* The quantities cache_fill computes from its snapshot are integers.
LEMMA FillArithmetic ==
  ASSUME fp \in Snapshots, fread \in Int
  PROVE  FillPos \in Int /\ ReadLength \in Int /\ OldestKept(ReadLength) \in Int
<1>1. Back \in Int /\ Newb \in Int
  BY SizeAssumption DEF Back, Newb, Least, Greatest, Snapshots
<1>2. FillPos \in Int
  BY SizeAssumption DEF FillPos, Snapshots
<1>3. ReadLength \in Int
  BY <1>1, <1>2, SizeAssumption DEF ReadLength, WrapCopy, Free, Least
<1>4. OldestKept(ReadLength) \in Int
  BY <1>1, <1>3, SizeAssumption DEF OldestKept
<1>5. QED
  BY <1>2, <1>3, <1>4

\* The quantities cache_read computes from its snapshot are integers.
LEMMA CopyArithmetic ==
  ASSUME TypeOK
  PROVE  CopyPos \in Int /\ CopyLen \in Int
<1>1. CopyPos \in Int
  BY SizeAssumption DEF CopyPos, TypeOK, Snapshots
<1>2. Len(rbuf) \in Nat /\ rp.max \in Int /\ rp.read \in Int
  BY DEF TypeOK, Snapshots
<1>3. CopyLen \in Int
  BY <1>1, <1>2, SizeAssumption DEF CopyLen, Least
<1>4. QED
  BY <1>1, <1>3

\* cache_fill's entry, with or without the eof recovery.
LEMMA FillBeginTypes == ASSUME TypeOK, FillBegin PROVE TypeOK'
<1>1. CASE eof = 1
  BY <1>1 DEF TypeOK, FillBegin, StreamReset, InWindow, position, source, reader, FillerStates
<1>2. CASE eof # 1
  BY <1>2 DEF TypeOK, FillBegin, StreamReset, InWindow, position, source, reader, FillerStates
<1>3. QED
  BY <1>1, <1>2

\* The steps of cache_fill before it plans a read.
LEMMA FillSetupTypes ==
  ASSUME TypeOK, FillSnapshot \/ FlushGet \/ FlushReset \/ FillSeek \/ PlanFull
  PROVE  TypeOK'
<1>1. CASE FillSnapshot
  BY <1>1 DEF TypeOK, FillSnapshot, Snapshot, Snapshots, position, source, reader, FillerStates
<1>2. CASE FlushGet
  BY <1>2 DEF TypeOK, FlushGet, Snapshot, Snapshots, position, source, reader, FillerStates
<1>3. CASE FlushReset
  BY <1>3 DEF TypeOK, FlushReset, StreamReset, Snapshots, reader, FillerStates
<1>4. CASE FillSeek
  <2>1. fd' \in Int /\ spos' \in Int /\ seof' \in {0, 1} /\ faults' \in Nat
    BY <1>4 DEF TypeOK, FillSeek, StreamSeek, SourceSeek
  <2>3. astray' \in BOOLEAN
    BY <1>4 DEF TypeOK, FillSeek, StreamSeek, SourceSeek
  <2>2. QED
    BY <1>4, <2>1, <2>3 DEF TypeOK, FillSeek, StreamSeek, Snapshot, Snapshots, position, reader,
       FillerStates
<1>5. CASE PlanFull
  BY <1>5 DEF TypeOK, PlanFull, FillReturn, NoSnapshot, NoPlan, Snapshots, Plans, position,
     source, reader, FillerStates
<1>6. QED
  BY <1>1, <1>2, <1>3, <1>4, <1>5

\* cache_fill commits itself to a read.
LEMMA PlanReadTypes == ASSUME TypeOK, PlanRead PROVE TypeOK'
<1>1. FillPos \in Int /\ ReadLength \in Int /\ OldestKept(ReadLength) \in Int
  BY FillArithmetic DEF TypeOK
<1>2. ring' \in [Slots -> Int]
  BY DEF PlanRead, TypeOK, Torn
<1>3. min' \in Int /\ fplan' \in Plans
  BY <1>1 DEF PlanRead, TypeOK, Plans
<1>4. QED
  BY <1>2, <1>3 DEF PlanRead, TypeOK, NoSnapshot, Snapshots, source, reader, FillerStates

\* The read returns data.
LEMMA ReadOkTypes == ASSUME TypeOK, ReadOk PROVE TypeOK'
<1>1. PICK len \in 1 .. Least(fplan.space, FileLen - fd) :
        /\ ring' = Written(len)
        /\ fplan' = [pos |-> fplan.pos, space |-> fplan.space, len |-> len]
        /\ fd' = fd + len
        /\ spos' = spos + len
  BY DEF ReadOk
<1>2. len \in Int /\ fd' \in Int /\ spos' \in Int
  BY <1>1 DEF TypeOK
<1>3. ring' \in [Slots -> Int]
  BY SMTT(30), <1>1, <1>2, SizeAssumption DEF Written, Slots, TypeOK, Plans
<1>4. fplan' \in Plans
  BY <1>1, <1>2 DEF TypeOK, Plans
<1>5. QED
  BY <1>2, <1>3, <1>4 DEF ReadOk, TypeOK, position, reader, FillerStates

\* What a failed read leaves of the source.
LEMMA FailedTypes ==
  ASSUME TypeOK, NEW said \in {0, 1}, StreamReadFailed(said)
  PROVE  /\ fd' \in Int /\ spos' \in Int /\ seof' \in {0, 1} /\ serror' \in Nat
         /\ UNCHANGED <<type, astray>>
  BY DEF TypeOK, StreamReadFailed, SeekBack

\* The read fails, or its outcome is recorded.
LEMMA FillOutcomeTypes ==
  ASSUME TypeOK, ReadEnd \/ ReadError \/ FillFailed \/ FillCommit
  PROVE  TypeOK'
<1>1. CASE ReadEnd
  <2>1. StreamReadFailed(0)
    BY <1>1 DEF ReadEnd
  <2>2. fd' \in Int /\ spos' \in Int /\ seof' \in {0, 1} /\ serror' \in Nat /\ UNCHANGED <<type, astray>>
    BY <2>1, FailedTypes
  <2>3. QED
    BY <1>1, <2>2 DEF TypeOK, ReadEnd, position, reader, FillerStates
<1>2. CASE ReadError
  <2>1. StreamReadFailed(1)
    BY <1>2 DEF ReadError
  <2>2. fd' \in Int /\ spos' \in Int /\ seof' \in {0, 1} /\ serror' \in Nat /\ UNCHANGED <<type, astray>>
    BY <2>1, FailedTypes
  <2>3. QED
    BY <1>2, <2>2 DEF TypeOK, ReadError, position, reader, FillerStates
<1>3. CASE FillFailed
  <2>1. serror' \in Nat /\ eof' \in {0, 1}
    BY <1>3, SizeAssumption DEF TypeOK, FillFailed, Least
  <2>2. QED
    BY <1>3, <2>1 DEF TypeOK, FillFailed, FillReturn, NoSnapshot, NoPlan, Snapshots, Plans,
       position, reader, FillerStates
<1>4. CASE FillCommit
  <2>1. max' \in Int /\ offset' \in Int
    BY <1>4, SizeAssumption DEF TypeOK, FillCommit, Plans
  <2>2. QED
    BY <1>4, <2>1 DEF TypeOK, FillCommit, FillReturn, NoSnapshot, NoPlan, Snapshots, Plans,
       source, reader, FillerStates
<1>5. QED
  BY <1>1, <1>2, <1>3, <1>4

\* The reader's calls into the cache.
LEMMA CallTypes == ASSUME TypeOK, ReaderCalls PROVE TypeOK'
<1>1. CASE SeekPublish
  <2>1. PICK q \in SeekTargets : read' = (q \div SectorSize) * SectorSize
                                 /\ tell' = (q \div SectorSize) * SectorSize
    BY <1>1 DEF SeekPublish
  <2>2. (q \div SectorSize) * SectorSize \in Int
    BY SizeAssumption
  <2>3. QED
    BY <1>1, <2>1, <2>2 DEF SeekPublish, TypeOK, source, filler, ReaderStates
<1>2. CASE FillBuffer
  BY <1>2 DEF FillBuffer, TypeOK, position, source, filler, ReaderStates
<1>3. CASE Prefill
  <2>1. want' \in Int
    BY <1>3, SizeAssumption DEF Prefill, Least, ForwardLimit
  <2>2. QED
    BY <1>3, <2>1 DEF Prefill, TypeOK, position, source, filler, ReaderStates
<1>4. QED
  BY <1>1, <1>2, <1>3 DEF ReaderCalls

\* The memcpy of cache_read, or its "very odd error" branch.
LEMMA CopyTypes == ASSUME TypeOK, Copy PROVE TypeOK'
<1>1. CopyPos \in Int /\ CopyLen \in Int
  BY CopyArithmetic
<1>2. CASE CopyLen <= 0 \/ CopyPos < 0 \/ CopyPos + CopyLen > BufferSize
  BY <1>2 DEF TypeOK, Copy, NoSnapshot, position, source, filler, ReaderStates, Snapshots
<1>3. CASE ~(CopyLen <= 0 \/ CopyPos < 0 \/ CopyPos + CopyLen > BufferSize)
  <2>1. [i \in 1 .. CopyLen |-> ring[CopyPos + i - 1]] \in Seq(Int)
    BY <1>1, <1>3, SizeAssumption DEF Slots, TypeOK
  <2>2. rbuf' = rbuf \o [i \in 1 .. CopyLen |-> ring[CopyPos + i - 1]] /\ rlen' = CopyLen
    BY <1>3 DEF Copy
  <2>3. rbuf' \in Seq(Int)
    BY <2>1, <2>2 DEF TypeOK
  <2>4. rpc' = "advance" /\ sought' \in BOOLEAN
    BY <1>3 DEF Copy
  <2>5. QED
    BY <1>1, <2>2, <2>3, <2>4 DEF TypeOK, Copy, NoSnapshot, position, source, filler,
       ReaderStates, Snapshots
<1>4. QED
  BY <1>2, <1>3

\* The reader's other steps, and the interrupt.
LEMMA ReaderStepTypes ==
  ASSUME TypeOK, ReaderSteps \/ ReaderGivesUp \/ Interrupt
  PROVE  TypeOK'
<1>1. CASE SeekClearEof
  BY <1>1 DEF SeekClearEof, TypeOK, position, source, filler, ReaderStates
<1>2. CASE LoopAbort
  BY <1>2 DEF LoopAbort, Return, TypeOK, position, source, filler, ReaderStates
<1>3. CASE LoopEof
  BY <1>3 DEF LoopEof, Return, TypeOK, position, source, filler, ReaderStates
<1>4. CASE LoopStalled
  BY <1>4 DEF LoopStalled, Return, TypeOK, position, source, filler, ReaderStates
<1>5. CASE LoopSnapshot
  BY <1>5 DEF LoopSnapshot, Snapshot, Snapshots, TypeOK, position, source, filler, ReaderStates
<1>6. CASE Copy
  BY <1>6, CopyTypes
<1>7. CASE Advance
  BY <1>7 DEF Advance, Return, TypeOK, source, filler, ReaderStates
<1>8. CASE PrefillDone
  BY <1>8 DEF PrefillDone, TypeOK, position, source, filler, ReaderStates
<1>9. CASE Interrupt
  BY <1>9 DEF Interrupt, TypeOK, position, source, filler, reader
<1>10. CASE PrefillStalled
  BY <1>10 DEF PrefillStalled, TypeOK, position, source, filler, ReaderStates
<1>11. QED
  BY <1>1, <1>2, <1>3, <1>4, <1>5, <1>6, <1>7, <1>8, <1>9, <1>10 DEF ReaderSteps, ReaderGivesUp

\* Every action of cache2.c keeps the declared types.
THEOREM Typing == Spec => []TypeOK
<1>1. Init => TypeOK
  <2> SUFFICES ASSUME Init PROVE TypeOK
    OBVIOUS
  <2>1. ring \in [Slots -> Int] /\ rbuf \in Seq(Int)
    BY DEF Init, Slots, Torn
  <2>2. PICK start \in Nat : /\ min = start /\ max = start /\ read = start /\ offset = start
                             /\ fd = start /\ spos = start /\ tell = start
    BY SizeAssumption DEF Init
  <2>3. type \in StreamTypes /\ fp = NoSnapshot /\ fplan = NoPlan /\ rp = NoSnapshot
    BY DEF Init
  <2>4. astray \in BOOLEAN /\ sought \in BOOLEAN
    BY DEF Init
  <2>5. fp \in Snapshots /\ fplan \in Plans /\ rp \in Snapshots
    BY <2>3 DEF NoSnapshot, NoPlan, Snapshots, Plans
  <2>6. QED
    BY <2>1, <2>2, <2>3, <2>4, <2>5 DEF Init, TypeOK, FillerStates, ReaderStates
<1>2. TypeOK /\ [Next]_vars => TypeOK'
  <2> SUFFICES ASSUME TypeOK, [Next]_vars PROVE TypeOK'
    OBVIOUS
  <2>1. CASE FillerCPU \/ FillerIO
    BY <2>1, FillBeginTypes, FillSetupTypes, PlanReadTypes, ReadOkTypes, FillOutcomeTypes
       DEF FillerCPU, FillerIO
  <2>2. CASE ReaderCalls \/ ReaderSteps \/ ReaderGivesUp \/ Interrupt
    BY <2>2, CallTypes, ReaderStepTypes
  <2>3. CASE UNCHANGED vars
    BY <2>3 DEF TypeOK, vars, position, source, filler, reader
  <2>4. QED
    BY <2>1, <2>2, <2>3 DEF Next
<1>3. QED
  BY <1>1, <1>2, PTL DEF Spec

-----------------------------------------------------------------------------
(* The positions.                                                          *)

\* The priorities of wiimc.cpp: the reader runs only at the filler's blocking calls.
LEMMA ReaderWaits == ReaderMayRun <=> fpc \in {"sleep", "seek", "read"}
  BY PriorityAssumption DEF ReaderMayRun, FillerBlocked

\* Entry of cache_fill, its snapshot, and its returns without data.
LEMMA FillQuietPositions ==
  ASSUME TypeOK, PositionInv, FillBegin \/ FillSnapshot \/ FlushGet \/ PlanFull \/ FillFailed
  PROVE  PositionInv'
<1>1. CASE FillBegin
  BY <1>1, SizeAssumption, StreamingAssumption DEF TypeOK, PositionInv, WindowFits, SourceAligned,
     FillerKnows, ReaderKnows, SeekKnown, InWindow, MustDrop, Streaming, FillBegin, StreamReset,
     FillerStates, ReaderStates, position, source, reader
<1>2. CASE FillSnapshot
  BY <1>2, SizeAssumption, StreamingAssumption DEF TypeOK, PositionInv, WindowFits, SourceAligned,
     FillerKnows, ReaderKnows, SeekKnown, InWindow, MustDrop, Streaming, FillSnapshot, Snapshot,
     position, source, reader
<1>3. CASE FlushGet
  BY <1>3, SizeAssumption, StreamingAssumption DEF TypeOK, PositionInv, WindowFits, SourceAligned,
     FillerKnows, ReaderKnows, SeekKnown, InWindow, MustDrop, Streaming, FlushGet, Snapshot,
     position, source, reader
<1>4. CASE PlanFull
  BY <1>4, SizeAssumption, StreamingAssumption DEF TypeOK, PositionInv, WindowFits, SourceAligned,
     FillerKnows, ReaderKnows, SeekKnown, InWindow, MustDrop, Streaming, PlanFull, FillReturn,
     NoSnapshot, NoPlan, position, source, reader
<1>5. CASE FillFailed
  BY <1>5, SizeAssumption, StreamingAssumption DEF TypeOK, PositionInv, WindowFits, SourceAligned,
     FillerKnows, ReaderKnows, SeekKnown, InWindow, MustDrop, Streaming, FillFailed, FillReturn,
     NoSnapshot, NoPlan, position, source, reader
<1>6. QED
  BY <1>1, <1>2, <1>3, <1>4, <1>5

\* cache_flush moves the window to the reader, who is not inside it.
LEMMA FlushResetPositions == ASSUME TypeOK, PositionInv, FlushReset PROVE PositionInv'
<1> USE SizeAssumption, StreamingAssumption
<1>1. /\ fread = read /\ fp.read = read /\ MustDrop(read) /\ sought /\ rbuf = <<>>
      /\ ~astray /\ ~Streaming => spos = fd \/ spos = 0
  BY DEF TypeOK, PositionInv, FillerKnows, SourceAligned, SeekKnown, FlushReset, Streaming
<1>2. /\ min' = read /\ max' = read /\ read' = read /\ offset' = read /\ fpc' = "seek"
      /\ fread' = read /\ fd' = fd /\ spos' \in {0, spos} /\ eof' = eof /\ fp' = fp
      /\ fplan' = fplan /\ UNCHANGED <<rpc, rp, rbuf, rlen, tell, sought, astray, type>>
  BY <1>1 DEF FlushReset, StreamReset, reader
<1>3. WindowFits' /\ SeekKnown'
  BY <1>1, <1>2 DEF WindowFits, SeekKnown, InWindow, TypeOK
<1>4. SourceAligned'
  BY <1>1, <1>2 DEF SourceAligned, Streaming, TypeOK
<1>5. FillerKnows'
  BY <1>1, <1>2 DEF FillerKnows, PositionInv, TypeOK, FlushReset
<1>6. rpc \notin {"copy", "advance"}
  BY <1>1 DEF PositionInv, ReaderKnows, MustDrop, InWindow, TypeOK, Snapshots
<1>7. ReaderKnows'
  BY <1>2, <1>6 DEF PositionInv, ReaderKnows
<1>8. QED
  BY <1>3, <1>4, <1>5, <1>7 DEF PositionInv

\* The source follows the flushed window, wherever the reader is by then.
LEMMA FillSeekPositions == ASSUME TypeOK, PositionInv, FillSeek PROVE PositionInv'
<1> USE SizeAssumption, StreamingAssumption
<1>1. SourceAligned'
  <2>1. /\ max = fread /\ max' = max /\ fpc' = "plan" /\ type' = type
        /\ ~astray /\ ~Streaming => spos = fd \/ spos = 0
    BY DEF TypeOK, PositionInv, SourceAligned, FillerKnows, FillSeek, StreamSeek, Streaming, position
  <2>2. ~astray' => fd' = max /\ spos' = fd' /\ ~Streaming
    BY <2>1 DEF FillSeek, StreamSeek, SourceSeek, Streaming
  <2>3. QED
    BY <2>1, <2>2 DEF SourceAligned
<1>2. WindowFits' /\ SeekKnown' /\ ReaderKnows'
  BY DEF TypeOK, PositionInv, WindowFits, SeekKnown, ReaderKnows, InWindow, FillSeek, position,
     reader
<1>3. FillerKnows'
  BY DEF TypeOK, PositionInv, FillerKnows, WindowFits, MustDrop, InWindow, FillSeek, Snapshot,
     position
<1>4. QED
  BY <1>1, <1>2, <1>3 DEF PositionInv

\* What cache_fill works out before it reads: where the data goes, how much is
\* asked for, and how far the history is given up.
LEMMA PlanFacts ==
  ASSUME TypeOK, PositionInv, PlanRead
  PROVE  /\ fp.max = max /\ fp.offset = offset
         /\ FillPos = max - offset
         /\ ReadLength \in Int /\ 0 < ReadLength /\ ReadLength <= BufferSize
         /\ WrapCopy \/ FillPos + ReadLength <= BufferSize
         /\ min' \in Int /\ min <= min' /\ min' <= max /\ max + ReadLength - min' <= BufferSize
         /\ min <= read => min' <= read
         /\ min' # min => min' <= read - BackSize
<1> DEFINE space == ReadLength
<1>1. /\ min \in Int /\ max \in Int /\ offset \in Int /\ read \in Int /\ fread \in Int
      /\ fp.min = min /\ fp.max = max /\ fp.offset = offset
      /\ min <= max /\ offset <= max /\ max < offset + BufferSize /\ max - min <= BufferSize
      /\ fpc = "plan"
  BY DEF TypeOK, PositionInv, FillerKnows, WindowFits, PlanRead
<1>2. /\ min <= fread
      /\ fread <= max \/ (Streaming /\ fread < max + SeekLimit)
      /\ fread = read \/ (min = fread /\ max = fread)
  BY <1>1, StreamingAssumption DEF PositionInv, FillerKnows, MustDrop, InWindow, Streaming
<1>3. FillPos = max - offset
  BY <1>1, SizeAssumption DEF FillPos
<1>4. /\ Newb \in Int /\ 0 <= Newb /\ (fread <= max => Newb = max - fread) /\ (fread > max => Newb = 0)
      /\ Back \in Int /\ 0 <= Back /\ (Back = BackSize \/ Back = fread - min)
  BY <1>1, <1>2, SizeAssumption DEF Newb, Back, Least, Greatest
<1>5. /\ Free \in Int /\ FillLimit <= Free /\ Free <= BufferSize /\ Free = BufferSize - (Newb + Back)
  BY <1>4, SizeAssumption DEF Free, PlanRead
<1>6. /\ space \in Int /\ 0 < space /\ space <= ReadChunk /\ space <= Free
      /\ WrapCopy \/ FillPos + space <= BufferSize
  BY <1>1, <1>3, <1>5, SizeAssumption DEF ReadLength, WrapCopy, Least
<1>7. min' = IF min < OldestKept(space) THEN OldestKept(space) ELSE min
  BY <1>1 DEF PlanRead
<1>8. OldestKept(space) = fread - (BufferSize - (space + Newb))
  BY DEF OldestKept
<1>9. /\ min' \in Int /\ min <= min' /\ min' <= max /\ max + space - min' <= BufferSize
      /\ min' <= fread /\ (min' = min \/ fread = read)
      /\ min' # min => min' <= read - BackSize
  <2>1. CASE fread <= max
    <3>1. OldestKept(space) = max + space - BufferSize
      BY <1>1, <1>4, <1>6, <1>8, <2>1, SizeAssumption
    <3>2. max + space - BufferSize <= fread - Back
      BY <1>1, <1>4, <1>5, <1>6, <2>1, SizeAssumption
    <3>3. CASE min' = min
      BY <1>1, <1>2, <1>6, <1>7, <3>1, <3>3, SizeAssumption
    <3>4. CASE min' # min
      <4>1. min' = max + space - BufferSize /\ min < min'
        BY <1>7, <3>1, <3>4
      <4>2. Back = BackSize
        BY <1>1, <1>4, <1>6, <3>2, <4>1, SizeAssumption
      <4>3. fread = read
        BY <1>1, <1>2, <1>6, <1>5, <4>1, SizeAssumption
      <4>4. QED
        BY <1>1, <1>4, <1>6, <2>1, <3>2, <4>1, <4>2, <4>3, SizeAssumption
    <3>5. QED
      BY <3>3, <3>4
  <2>2. CASE fread > max
    <3>1. Newb = 0 /\ fread = read
      BY <1>1, <1>2, <1>4, <2>2
    <3>2. OldestKept(space) = fread + space - BufferSize
      BY <1>1, <1>6, <1>8, <3>1, SizeAssumption
    <3>3. fread + space - BufferSize <= fread - Back
      BY <1>1, <1>4, <1>5, <1>6, <3>1, SizeAssumption
    <3>4. CASE min' = min
      BY <1>1, <1>2, <1>6, <1>7, <2>2, <3>2, <3>4, SizeAssumption
    <3>5. CASE min' # min
      <4>1. min' = fread + space - BufferSize /\ min < min'
        BY <1>7, <3>2, <3>5
      <4>2. Back = BackSize
        BY <1>1, <1>4, <1>6, <3>3, <4>1, SizeAssumption
      <4>3. min' <= max
        <5>1. Streaming /\ fread < max + SeekLimit
          BY <1>1, <1>2, <2>2, SizeAssumption
        <5>2. SeekLimit \in Nat /\ SeekLimit + ReadChunk <= BufferSize
          BY <5>1, StreamingAssumption DEF Streaming, TypeOK
        <5>3. QED
          BY <1>1, <1>6, <4>1, <5>1, <5>2, SizeAssumption
      <4>4. QED
        BY <1>1, <1>4, <1>6, <2>2, <3>1, <3>3, <4>1, <4>2, <4>3, SizeAssumption
    <3>6. QED
      BY <3>4, <3>5
  <2>3. QED
    BY <1>1, <2>1, <2>2
<1>10. min <= read => min' <= read
  BY <1>1, <1>9
<1>11. space <= BufferSize
  BY <1>5, <1>6, SizeAssumption
<1>12. QED
  BY <1>1, <1>3, <1>6, <1>9, <1>10, <1>11

\* A read is planned.
LEMMA PlanReadPositions == ASSUME TypeOK, PositionInv, PlanRead PROVE PositionInv'
<1>1. /\ min \in Int /\ max \in Int /\ offset \in Int /\ read \in Int
      /\ min <= max /\ offset <= max /\ max < offset + BufferSize /\ max - min <= BufferSize
      /\ fpc = "plan"
  BY DEF TypeOK, PositionInv, WindowFits, PlanRead
<1>2. /\ FillPos = max - offset
      /\ ReadLength \in Int /\ 0 < ReadLength /\ ReadLength <= BufferSize
      /\ min' \in Int /\ min <= min' /\ min' <= max /\ max + ReadLength - min' <= BufferSize
      /\ min <= read => min' <= read
  BY PlanFacts
<1>3. /\ fpc' = "read"
      /\ fplan' = [pos |-> FillPos, space |-> ReadLength, len |-> 0]
      /\ UNCHANGED <<max, read, offset, eof, source, reader, abort, faults>>
  BY DEF PlanRead
<1>4. fplan'.pos = max - offset /\ fplan'.space = ReadLength /\ fplan'.len = 0
  BY <1>2, <1>3
<1>5. WindowFits'
  <2>1. max' = max /\ offset' = offset
    BY <1>3
  <2>2. max - min' <= BufferSize
    <3>1. \A a, b, c \in Int : a + b - c <= BufferSize /\ 0 < b => a - c <= BufferSize
      BY SizeAssumption
    <3>2. QED
      BY <1>1, <1>2, <3>1
  <2>3. QED
    BY <1>1, <1>2, <1>4, <2>1, <2>2 DEF WindowFits
<1>6. SourceAligned' /\ FillerKnows'
  BY <1>1, <1>2, <1>3, <1>4, SizeAssumption DEF PositionInv, SourceAligned, FillerKnows,
     Streaming, source
<1>7. SeekKnown'
  BY <1>1, <1>2, <1>3 DEF PositionInv, SeekKnown, InWindow, reader
<1>8. ReaderKnows'
  BY <1>2, <1>3 DEF PositionInv, ReaderKnows, reader
<1>9. QED
  BY <1>5, <1>6, <1>7, <1>8 DEF PositionInv

\* The read returns data, which is not yet part of the window.
LEMMA ReadOkPositions == ASSUME TypeOK, PositionInv, ReadOk PROVE PositionInv'
<1>1. PICK len \in 1 .. Least(fplan.space, FileLen - fd) :
            /\ fplan' = [pos |-> fplan.pos, space |-> fplan.space, len |-> len]
            /\ fd' = fd + len
            /\ spos' = spos + len
  BY DEF ReadOk
<1>2. len \in Int /\ 0 < len /\ len <= fplan.space
  BY SizeAssumption DEF Least, TypeOK, Plans
<1>3. fplan'.pos = fplan.pos /\ fplan'.space = fplan.space /\ fplan'.len = len
  BY <1>1
<1>4. WindowFits' /\ SeekKnown' /\ ReaderKnows'
  BY <1>3 DEF PositionInv, WindowFits, SeekKnown, ReaderKnows, MustDrop, InWindow, Streaming,
     ReadOk, position, reader, TypeOK
<1>5. SourceAligned' /\ FillerKnows'
  BY <1>1, <1>2, <1>3 DEF PositionInv, SourceAligned, FillerKnows, MustDrop, InWindow, ReadOk,
     Streaming, position, TypeOK
<1>6. QED
  BY <1>4, <1>5 DEF PositionInv

\* The read fails: the source stands where it stood.
LEMMA ReadFailedPositions == ASSUME TypeOK, PositionInv, ReadEnd \/ ReadError PROVE PositionInv'
<1>1. /\ fpc = "read" /\ fpc' = "fail" /\ UNCHANGED <<position, eof, fp, fread, fplan, reader>>
      /\ StreamReadFailed(0) \/ StreamReadFailed(1)
  BY DEF ReadEnd, ReadError
<1>2. SourceAligned'
  <2>1. ~astray => fd = max /\ (~Streaming => spos = fd)
    BY <1>1 DEF PositionInv, SourceAligned
  <2>2. UNCHANGED <<type, astray>> /\ (~astray => fd' = max /\ (~Streaming => spos' = fd'))
    BY <1>1, <2>1 DEF StreamReadFailed, SeekBack
  <2>3. QED
    BY <1>1, <2>2 DEF SourceAligned, Streaming, position
<1>3. WindowFits' /\ FillerKnows' /\ ReaderKnows' /\ SeekKnown'
  BY <1>1 DEF PositionInv, WindowFits, FillerKnows, ReaderKnows, SeekKnown, InWindow, position,
     reader, TypeOK
<1>4. QED
  BY <1>2, <1>3 DEF PositionInv

\* The data becomes part of the window; the ring may enter its next lap.
LEMMA FillCommitPositions == ASSUME TypeOK, PositionInv, FillCommit PROVE PositionInv'
<1> USE SizeAssumption
<1>01. fplan.pos \in Int /\ fplan.len \in Int /\ fplan.space \in Int
  BY DEF TypeOK, Plans
<1>1. /\ fpc = "commit" /\ fpc' = "sleep" /\ max' = max + fplan.len /\ min' = min /\ read' = read
      /\ \/ (offset' = offset + BufferSize /\ fplan.pos + fplan.len >= BufferSize)
         \/ (offset' = offset /\ fplan.pos + fplan.len < BufferSize)
      /\ fplan.pos \in Int /\ fplan.len \in Int /\ fplan.space \in Int
  BY <1>01 DEF FillCommit, FillReturn
<1>2. /\ 0 < fplan.len /\ fplan.len <= fplan.space /\ fplan.space <= BufferSize
      /\ fplan.pos = max - offset
      /\ max + fplan.space - min <= BufferSize
      /\ offset <= max /\ max < offset + BufferSize /\ min <= max
      /\ eof # 1
  BY <1>1 DEF PositionInv, FillerKnows, WindowFits, SourceAligned, TypeOK
<1>21. min \in Int /\ max \in Int /\ offset \in Int /\ BufferSize \in Int /\ read \in Int
  BY DEF TypeOK
<1>3. min' <= max' /\ offset' <= max' /\ max' < offset' + BufferSize /\ max' - min' <= BufferSize
  BY <1>1, <1>2, <1>21
<1>32. WindowFits'
  BY <1>1, <1>3 DEF WindowFits
<1>31. SeekKnown'
  BY <1>1, <1>2, <1>21 DEF PositionInv, SeekKnown, InWindow, FillCommit, reader
<1>4. SourceAligned' /\ FillerKnows'
  BY <1>1, <1>2 DEF PositionInv, SourceAligned, FillerKnows, FillCommit, Streaming, source, TypeOK
<1>5. ReaderKnows'
  <2>1. CASE rpc = "copy"
    <3>1. /\ rp.read = read /\ min <= read /\ read < rp.max /\ rp.max <= max
          /\ rp.max <= read + BufferSize
          /\ rp.offset <= rp.max /\ rp.max < rp.offset + BufferSize
          /\ offset = rp.offset \/ offset = rp.offset + BufferSize
          /\ read = tell + Len(rbuf) /\ Len(rbuf) < SectorSize
      BY <2>1 DEF PositionInv, ReaderKnows
    <3>2. rp.max \in Int /\ rp.offset \in Int
      BY DEF TypeOK, Snapshots
    <3>3. rp' = rp /\ rpc' = rpc /\ rbuf' = rbuf /\ tell' = tell
      BY DEF FillCommit, reader
    <3>4. offset' = rp.offset \/ offset' = rp.offset + BufferSize
      <4>1. CASE offset = rp.offset
        BY <1>1, <4>1
      <4>2. CASE offset = rp.offset + BufferSize
        <5>1. offset' # offset + BufferSize
          <6> SUFFICES ASSUME offset' = offset + BufferSize PROVE FALSE
            OBVIOUS
          <6>1. rp.offset + BufferSize + BufferSize <= max'
            BY <1>3, <4>2
          <6>2. max' <= min + BufferSize
            BY <1>1, <1>2, <1>21
          <6>3. min + BufferSize < rp.offset + BufferSize + BufferSize
            BY <1>21, <3>1, <3>2
          <6>4. max' \in Int
            BY <1>1, <1>21
          <6>5. QED
            BY <1>21, <3>2, <6>1, <6>2, <6>3, <6>4
        <5>2. QED
          BY <1>1, <4>2, <5>1
      <4>3. QED
        BY <3>1, <4>1, <4>2
    <3>5. rp.max <= max'
      BY SMTT(30), <1>1, <1>2, <1>21, <3>1, <3>2
    <3>6. QED
      BY <1>1, <2>1, <3>1, <3>3, <3>4, <3>5 DEF ReaderKnows
  <2>2. CASE rpc # "copy"
    BY <1>1, <1>2, <2>2 DEF PositionInv, ReaderKnows, FillCommit, reader, TypeOK
  <2>3. QED
    BY <2>1, <2>2
<1>7. QED
  BY <1>32, <1>31, <1>4, <1>5 DEF PositionInv

\* A seek moves only the position the reader owns.
LEMMA SeekPublishPositions == ASSUME TypeOK, PositionInv, SeekPublish PROVE PositionInv'
<1>0. fpc \in {"sleep", "seek", "read"}
  BY ReaderWaits DEF SeekPublish
<1>1. PICK np \in Int : read' = np /\ tell' = np
  <2>1. PICK q \in SeekTargets : LET newpos == (q \div SectorSize) * SectorSize IN
         /\ read' = newpos
         /\ tell' = newpos
    BY DEF SeekPublish
  <2>2. (q \div SectorSize) * SectorSize \in Int
    BY SizeAssumption
  <2>3. QED
    BY <2>1, <2>2
<1>2. WindowFits' /\ SeekKnown' /\ ReaderKnows'
  BY <1>1 DEF PositionInv, WindowFits, SeekKnown, ReaderKnows, SeekPublish, filler, TypeOK
<1>3. SourceAligned' /\ FillerKnows'
  BY <1>0, <1>1 DEF PositionInv, SourceAligned, FillerKnows, InWindow, SeekPublish, Streaming,
     source, filler, TypeOK
<1>6. QED
  BY <1>2, <1>3 DEF PositionInv

\* Reader steps that leave the positions alone.
LEMMA ReaderQuietPositions ==
  ASSUME TypeOK, PositionInv,
         \/ SeekClearEof \/ FillBuffer \/ Prefill \/ PrefillDone \/ Interrupt
         \/ LoopAbort \/ LoopEof \/ LoopStalled \/ PrefillStalled
  PROVE  PositionInv'
<1>1. /\ UNCHANGED <<position, ring, source, filler, sought>> /\ (eof' = eof \/ eof' = 0)
      /\ rbuf' = rbuf \/ rbuf' = <<>>
  BY DEF SeekClearEof, FillBuffer, Prefill, PrefillDone, PrefillStalled, Interrupt, LoopAbort,
     LoopEof, LoopStalled, Return, reader
<1>2. WindowFits' /\ SourceAligned' /\ SeekKnown'
  BY <1>1 DEF PositionInv, WindowFits, SourceAligned, SeekKnown, MustDrop, InWindow, Streaming,
     position, source, filler
<1>3. FillerKnows'
  BY <1>1 DEF PositionInv, FillerKnows, MustDrop, InWindow, Streaming, position, source, filler
<1>4. ReaderKnows'
  <2>1. CASE SeekClearEof
    BY <1>1, <2>1, SizeAssumption DEF PositionInv, ReaderKnows, SeekClearEof, position, TypeOK
  <2>2. CASE FillBuffer
    BY <1>1, <2>2, SizeAssumption DEF PositionInv, ReaderKnows, FillBuffer, position, TypeOK
  <2>3. CASE Prefill \/ PrefillDone \/ PrefillStalled \/ Interrupt
    BY <1>1, <2>3 DEF PositionInv, ReaderKnows, Prefill, PrefillDone, PrefillStalled, Interrupt,
       position, reader
  <2>4. CASE LoopAbort \/ LoopEof \/ LoopStalled
    <3>1. rpc = "loop" /\ rpc' = "idle" /\ tell' = tell + Len(rbuf)
      BY <2>4 DEF LoopAbort, LoopEof, LoopStalled, Return
    <3>2. QED
      BY <1>1, <3>1 DEF PositionInv, ReaderKnows, position
  <2>5. QED
    BY <2>1, <2>2, <2>3, <2>4
<1>5. QED
  BY <1>2, <1>3, <1>4 DEF PositionInv

\* The snapshot of cache_read is taken inside the window.
LEMMA LoopSnapshotPositions == ASSUME TypeOK, PositionInv, LoopSnapshot PROVE PositionInv'
<1>1. /\ UNCHANGED <<position, eof, source, filler, rbuf, rlen, tell, sought>>
      /\ rp' = Snapshot /\ rpc = "loop" /\ rpc' = "copy"
      /\ min <= read /\ read < max
  BY DEF LoopSnapshot, Available
<1>2. WindowFits' /\ SourceAligned' /\ SeekKnown'
  BY <1>1 DEF PositionInv, WindowFits, SourceAligned, SeekKnown, MustDrop, InWindow, Streaming,
     position, source, filler
<1>3. FillerKnows'
  BY <1>1 DEF PositionInv, FillerKnows, MustDrop, InWindow, Streaming, position, source, filler
<1>4. ReaderKnows'
  BY <1>1, SizeAssumption DEF PositionInv, ReaderKnows, WindowFits, Snapshot, position, TypeOK
<1>5. QED
  BY <1>2, <1>3, <1>4 DEF PositionInv

\* The range cache_read copies lies inside the buffer and inside the window:
\* its "very odd error" test never fires.
LEMMA CopyRange ==
  ASSUME TypeOK, PositionInv, rpc = "copy"
  PROVE  /\ CopyPos \in Int /\ CopyLen \in Int
         /\ CopyPos = (IF read < rp.offset THEN read - rp.offset + BufferSize ELSE read - rp.offset)
         /\ 0 <= CopyPos /\ 0 < CopyLen /\ CopyPos + CopyLen <= BufferSize
         /\ read + CopyLen <= rp.max /\ Len(rbuf) + CopyLen <= SectorSize
<1>1. /\ rp.read = read /\ min <= read /\ read < rp.max /\ rp.max <= max
      /\ rp.max <= read + BufferSize
      /\ rp.offset <= rp.max /\ rp.max < rp.offset + BufferSize
      /\ Len(rbuf) < SectorSize
  BY DEF PositionInv, ReaderKnows
<1>2. rp.max \in Int /\ rp.offset \in Int /\ read \in Int /\ Len(rbuf) \in Nat
  BY DEF TypeOK, Snapshots
<1>3. CopyPos = (IF read < rp.offset THEN read - rp.offset + BufferSize ELSE read - rp.offset)
  BY <1>1, <1>2, SizeAssumption DEF CopyPos
<1>4. CopyPos \in Int /\ 0 <= CopyPos /\ CopyPos < BufferSize
  BY SMTT(30), <1>1, <1>2, <1>3, SizeAssumption
<1>5. \A a, b, c \in Int : /\ Least(Least(a, b), c) \in Int
                           /\ Least(Least(a, b), c) <= a
                           /\ Least(Least(a, b), c) <= b
                           /\ Least(Least(a, b), c) <= c
                           /\ 0 < a /\ 0 < b /\ 0 < c => 0 < Least(Least(a, b), c)
  BY DEF Least
<1>6. /\ rp.max - read \in Int /\ BufferSize - CopyPos \in Int /\ SectorSize - Len(rbuf) \in Int
      /\ 0 < rp.max - read /\ 0 < BufferSize - CopyPos /\ 0 < SectorSize - Len(rbuf)
  BY <1>1, <1>2, <1>4, SizeAssumption
<1>7. CopyLen = Least(Least(rp.max - read, BufferSize - CopyPos), SectorSize - Len(rbuf))
  BY <1>1 DEF CopyLen
<1>8. /\ CopyLen \in Int /\ 0 < CopyLen /\ CopyLen <= rp.max - read
      /\ CopyLen <= BufferSize - CopyPos /\ CopyLen <= SectorSize - Len(rbuf)
  BY <1>5, <1>6, <1>7
<1>9. CopyPos + CopyLen <= BufferSize
  BY <1>4, <1>8, SizeAssumption
<1>10. read + CopyLen <= rp.max /\ Len(rbuf) + CopyLen <= SectorSize
  BY <1>2, <1>8, SizeAssumption
<1>11. QED
  BY <1>3, <1>4, <1>8, <1>9, <1>10

\* What the copy does to the reader's buffer.
LEMMA CopyEffect ==
  ASSUME TypeOK, PositionInv, Copy
  PROVE  /\ rpc = "copy" /\ rpc' = "advance" /\ rlen' = CopyLen /\ sought' = FALSE
         /\ rbuf' = rbuf \o [i \in 1 .. CopyLen |-> ring[CopyPos + i - 1]]
         /\ Len(rbuf') = Len(rbuf) + CopyLen
         /\ \A i \in 1 .. Len(rbuf) : rbuf'[i] = rbuf[i]
         /\ \A i \in 1 .. CopyLen : rbuf'[Len(rbuf) + i] = ring[CopyPos + i - 1]
<1> DEFINE piece == [i \in 1 .. CopyLen |-> ring[CopyPos + i - 1]]
<1>1. /\ rpc = "copy" /\ CopyPos \in Int /\ CopyLen \in Int
      /\ 0 <= CopyPos /\ 0 < CopyLen /\ CopyPos + CopyLen <= BufferSize
  BY CopyRange DEF Copy
<1>2. ~(CopyLen <= 0 \/ CopyPos < 0 \/ CopyPos + CopyLen > BufferSize)
  BY <1>1, SizeAssumption
<1>3. rpc' = "advance" /\ rlen' = CopyLen /\ rbuf' = rbuf \o piece /\ sought' = FALSE
  BY <1>2 DEF Copy
<1>4. piece \in Seq(Int) /\ Len(piece) = CopyLen
  BY <1>1, SizeAssumption DEF TypeOK, Slots
<1>5. rbuf \in Seq(Int)
  BY DEF TypeOK
<1>6. /\ Len(rbuf \o piece) = Len(rbuf) + CopyLen
      /\ \A i \in 1 .. Len(rbuf) : (rbuf \o piece)[i] = rbuf[i]
      /\ \A i \in 1 .. CopyLen : (rbuf \o piece)[Len(rbuf) + i] = piece[i]
  <2> HIDE DEF piece
  <2> QED
    BY <1>1, <1>4, <1>5
<1>7. \A i \in 1 .. CopyLen : piece[i] = ring[CopyPos + i - 1]
  OBVIOUS
<1>8. QED
  BY <1>1, <1>3, <1>6, <1>7

\* The copied range is consumed.
LEMMA AdvancePositions == ASSUME TypeOK, PositionInv, Advance PROVE PositionInv'
<1>0. fpc \in {"sleep", "seek", "read"}
  BY ReaderWaits DEF Advance
<1>1. /\ UNCHANGED <<min, max, offset, eof, source, filler, rbuf>>
      /\ rpc = "advance" /\ read' = read + rlen
      /\ \/ rpc' = "loop" /\ tell' = tell /\ Len(rbuf) < SectorSize
         \/ rpc' = "idle" /\ tell' = tell + Len(rbuf)
  BY DEF Advance, Return
<1>2. /\ 0 < rlen /\ min <= read /\ read + rlen <= max
      /\ read + rlen = tell + Len(rbuf)
  BY <1>1 DEF PositionInv, ReaderKnows
<1>3. read \in Int /\ rlen \in Int /\ min \in Int /\ max \in Int
  BY DEF TypeOK
<1>4. WindowFits' /\ SeekKnown'
  <2>1. sought' = sought
    BY DEF Advance, Return
  <2>2. QED
    BY <1>1, <1>2, <1>3, <2>1 DEF PositionInv, WindowFits, SeekKnown, InWindow, filler
<1>5. SourceAligned' /\ FillerKnows'
  BY <1>0, <1>1 DEF PositionInv, SourceAligned, FillerKnows, Streaming, source, filler
<1>6. ReaderKnows'
  BY <1>1, <1>2 DEF ReaderKnows
<1>7. QED
  BY <1>4, <1>5, <1>6 DEF PositionInv

\* The copy itself moves no position.
LEMMA CopyPositions == ASSUME TypeOK, PositionInv, Copy PROVE PositionInv'
<1>1. /\ CopyLen \in Int /\ 0 < CopyLen
      /\ read + CopyLen <= rp.max /\ Len(rbuf) + CopyLen <= SectorSize
  BY CopyRange DEF Copy
<1>2. UNCHANGED <<position, ring, eof, source, filler, tell>>
  BY DEF Copy
<1>3. /\ rpc = "copy" /\ rpc' = "advance" /\ rlen' = CopyLen
      /\ Len(rbuf') = Len(rbuf) + CopyLen /\ sought' = FALSE
  BY CopyEffect
<1>4. WindowFits' /\ SourceAligned' /\ SeekKnown'
  <2>1. min <= read /\ read <= max
    BY <1>3 DEF PositionInv, ReaderKnows, TypeOK, Snapshots
  <2>2. fpc \in {"sleep", "read"}
    <3>1. fpc \in {"sleep", "seek", "read"}
      BY ReaderWaits DEF Copy
    <3>2. fpc = "seek" => min = max
      BY DEF PositionInv, FillerKnows
    <3>3. fpc # "seek"
      BY <1>3, <3>2 DEF PositionInv, ReaderKnows, TypeOK, Snapshots
    <3>4. QED
      BY <3>1, <3>3
  <2>3. QED
    BY <1>2, <1>3, <2>1, <2>2 DEF PositionInv, WindowFits, SourceAligned, SeekKnown, InWindow,
       Streaming, position, source, filler
<1>5. FillerKnows'
  BY <1>2 DEF PositionInv, FillerKnows, MustDrop, InWindow, Streaming, position, source, filler
<1>6. ReaderKnows'
  <2>1. /\ read = tell + Len(rbuf) /\ min <= read /\ rp.max <= max
        /\ rp.max \in Int /\ max \in Int /\ read \in Int /\ Len(rbuf) \in Nat /\ tell \in Int
    BY <1>3 DEF PositionInv, ReaderKnows, TypeOK, Snapshots
  <2>2. read + CopyLen <= max /\ read + CopyLen = tell + (Len(rbuf) + CopyLen)
    BY <1>1, <2>1
  <2>3. QED
    BY <1>1, <1>2, <1>3, <2>1, <2>2 DEF ReaderKnows, position
<1>7. QED
  BY <1>4, <1>5, <1>6 DEF PositionInv

\* The initial state: an empty window at the start position.
LEMMA InitPositions == Init => PositionInv
  BY SizeAssumption, StreamingAssumption DEF Init, PositionInv, WindowFits, SourceAligned,
     FillerKnows, ReaderKnows, SeekKnown, MustDrop, InWindow, Streaming, NoSnapshot, NoPlan

\* Every step preserves the position invariant.
LEMMA NextPositions == ASSUME TypeOK, PositionInv, [Next]_vars PROVE PositionInv'
<1>1. CASE FillerCPU \/ FillerIO
  BY <1>1, FillQuietPositions, FlushResetPositions, FillSeekPositions, PlanReadPositions,
     ReadOkPositions, ReadFailedPositions, FillCommitPositions DEF FillerCPU, FillerIO
<1>2. CASE ReaderCalls \/ ReaderSteps \/ ReaderGivesUp \/ Interrupt
  BY <1>2, SeekPublishPositions, ReaderQuietPositions, LoopSnapshotPositions, CopyPositions,
     AdvancePositions DEF ReaderCalls, ReaderSteps, ReaderGivesUp
<1>3. CASE UNCHANGED vars
  <2>1. WindowFits' /\ SourceAligned' /\ SeekKnown'
    BY <1>3 DEF PositionInv, WindowFits, SourceAligned, SeekKnown, MustDrop, InWindow, Streaming,
       vars, position, source, filler, reader
  <2>2. FillerKnows' /\ ReaderKnows'
    BY <1>3 DEF PositionInv, FillerKnows, ReaderKnows, MustDrop, InWindow, Streaming,
       vars, position, source, filler, reader
  <2>3. QED
    BY <2>1, <2>2 DEF PositionInv
<1>4. QED
  BY <1>1, <1>2, <1>3 DEF Next

THEOREM Positions == Spec => []PositionInv
<1>1. TypeOK /\ PositionInv /\ [Next]_vars => PositionInv'
  BY NextPositions
<1>2. QED
  BY InitPositions, Typing, <1>1, PTL DEF Spec
=============================================================================
