-------------------------- MODULE DavSourceProofs --------------------------
(***************************************************************************)
(* The WebDAV source for every file size, read size and retry count.  The  *)
(* properties hold together: that a read continues where the last one      *)
(* ended needs the two positions to agree, and that needs the connection   *)
(* to be closed by every seek that moves the position.                     *)
(***************************************************************************)
EXTENDS DavSource, TLAPS

\* The inductive invariant: the types, the four properties and SourceInv.
Inv ==
  /\ TypeOK
  /\ SourceInv
  /\ BodyAtPosition /\ PositionsAgree /\ NeverPastSize /\ EndIsTheEnd

\* The smaller of two numbers is one of them and above neither.
LEMMA LeastFacts ==
  ASSUME NEW a \in Int, NEW b \in Int
  PROVE  Least(a, b) \in {a, b} /\ Least(a, b) <= a /\ Least(a, b) <= b
BY DEF Least

\* Nothing is open at the start.
LEMMA InitInv == Init => Inv
BY SourceAssumption DEF Init, Inv, TypeOK, SourceInv, BodyAtPosition, PositionsAgree,
   NeverPastSize, EndIsTheEnd, Sizes, Flags

\* A fresh or closed connection, whatever the positions are.
LEMMA DisconnectedInv ==
  ASSUME Disconnected
  PROVE  /\ conn' = 0 /\ failed' \in Flags /\ heof' \in Flags /\ chunked' \in Flags
         /\ left' \in -1 .. MaxSize
         /\ next' \in Sizes /\ stop' \in Sizes
         /\ BodyAtPosition' /\ NeverPastSize'
BY SourceAssumption DEF Disconnected, Flags, Sizes, BodyAtPosition, NeverPastSize

\* Opening and closing start from nothing.
LEMMA OpenCloseInv == ASSUME Inv, Open \/ Close PROVE Inv'
<1>1. Disconnected  BY DEF Open, Close
<1>2. TypeOK'
  BY <1>1, DisconnectedInv, SourceAssumption DEF Inv, TypeOK, Open, Close, Sizes, Flags
<1>3. SourceInv' /\ PositionsAgree' /\ EndIsTheEnd'
  BY <1>1, DisconnectedInv
     DEF Inv, TypeOK, SourceInv, PositionsAgree, EndIsTheEnd, Open, Close, Sizes
<1>4. QED  BY <1>1, <1>2, <1>3, DisconnectedInv DEF Inv

\* A seek of the stream layer to q, with stream->pos at p, leaves both
\* positions at q when p is the position or 0, and the response there.
LEMMA StreamSeekInv ==
  ASSUME Inv, NEW q \in Sizes, NEW p \in Sizes, StreamSeek(q, p), size' = size,
         p # position => p = 0 \/ p # q
  PROVE  /\ spos' = q /\ position' = q
         /\ conn' \in Flags /\ failed' \in Flags /\ heof' \in Flags /\ chunked' \in Flags
         /\ left' \in -1 .. MaxSize
         /\ next' \in Sizes /\ stop' \in Sizes
         /\ BodyAtPosition' /\ NeverPastSize'
         /\ (conn' = 1 => conn = 1 /\ left' = left /\ next' = next /\ stop' = stop)
<1>1. position' = q /\ spos' = q
  BY DEF Inv, TypeOK, Sizes, StreamSeek, DavSeek
<1>2. CASE UNCHANGED http
  <2>1. conn = 1 => position' = position
    BY <1>1, <1>2 DEF StreamSeek, DavSeek, Disconnected, http
  <2>2. QED
    BY <1>1, <1>2, <2>1 DEF Inv, TypeOK, Sizes, Flags, http, BodyAtPosition, NeverPastSize
<1>3. CASE Disconnected
  BY <1>1, <1>3, DisconnectedInv DEF Inv, TypeOK, Flags, Disconnected
<1>4. QED  BY <1>2, <1>3 DEF StreamSeek, DavSeek, http

\* The seek of an out-of-window read: stream->pos is 0 after a reset, and the
\* target differs from the position.
LEMMA SeekInv == ASSUME Inv, NEW q \in Sizes, Seek(q) PROVE Inv'
<1> DEFINE p == IF seof = 1 THEN 0 ELSE spos
<1>1. p \in Sizes /\ StreamSeek(q, p) /\ size' = size /\ (p # position => p = 0 \/ p # q)
  BY SourceAssumption DEF Inv, TypeOK, PositionsAgree, Seek, Sizes
<1>2. StreamSeek(q, p) /\ p \in Sizes  BY <1>1
<1> HIDE DEF p
<1>3. /\ spos' = q /\ position' = q
      /\ conn' \in Flags /\ failed' \in Flags /\ heof' \in Flags /\ chunked' \in Flags
      /\ left' \in -1 .. MaxSize
      /\ next' \in Sizes /\ stop' \in Sizes
      /\ BodyAtPosition' /\ NeverPastSize'
      /\ (conn' = 1 => conn = 1 /\ left' = left /\ next' = next /\ stop' = stop)
  BY <1>1, StreamSeekInv
<1>4. TypeOK'  BY <1>3 DEF Inv, TypeOK, Seek, Flags
<1>5. SourceInv' /\ PositionsAgree' /\ EndIsTheEnd'
  BY <1>3 DEF Inv, TypeOK, SourceInv, PositionsAgree, EndIsTheEnd, Seek
<1>6. QED  BY <1>3, <1>4, <1>5 DEF Inv

\* An accepted response starts at the position.
LEMMA AcceptedInv == ASSUME Inv, Accepted PROVE Inv'
<1>1. PICK a \in Answers :
        /\ RangeAccepted(a) /\ SizeMatches(a)
        /\ heof' = IF a.kind = "empty" THEN 1 ELSE 0
        /\ chunked' = a.chunked
        /\ left' = Length(a)
        /\ next' = a.start /\ stop' = a.stop
  BY DEF Accepted
<1>2. /\ a.kind \in {"partial", "whole", "empty"} /\ a.start \in Sizes /\ a.stop \in Sizes
      /\ a.counted \in {0, 1} /\ a.chunked \in {0, 1}
  BY DEF Answers
<1>3. /\ a.kind = "partial" => a.start < a.stop /\ a.stop <= file
      /\ a.kind = "whole" => a.start = 0 /\ a.stop = file
      /\ a.kind = "empty" => a.start = 0 /\ a.stop = 0
  BY DEF Answers
<1>4. pc = "request" /\ position < size /\ position \in Sizes /\ size \in Sizes /\ file \in Sizes
  BY DEF Inv, TypeOK, SourceInv, Accepted
<1>5. a.start = position /\ a.start <= a.stop
  BY <1>1, <1>2, <1>3, <1>4, SourceAssumption DEF RangeAccepted, Sizes
<1>6. Length(a) \in -1 .. MaxSize
  BY <1>2, <1>4, <1>5, SourceAssumption DEF Length, Sizes
<1>7. TypeOK'
  BY <1>1, <1>2, <1>6 DEF Inv, TypeOK, Accepted, dav, stream, Flags
<1>8. SourceInv'
  BY <1>1, <1>2, <1>5, SourceAssumption DEF Inv, SourceInv, Accepted, dav, stream, Length, Sizes
<1>9. BodyAtPosition' /\ PositionsAgree' /\ NeverPastSize' /\ EndIsTheEnd'
  BY <1>1, <1>4, <1>5, SourceAssumption
     DEF Inv, BodyAtPosition, PositionsAgree, NeverPastSize, EndIsTheEnd, Accepted, dav, stream,
         Sizes
<1>10. QED  BY <1>7, <1>8, <1>9 DEF Inv

\* Data moves the three positions together, and not past the size.
LEMMA DataInv == ASSUME Inv, Data PROVE Inv'
<1>1. PICK n \in 1 .. Least(MayReturn, stop - next) :
        /\ position' = position + n /\ spos' = spos + n
        /\ next' = next + n
        /\ left' = IF left >= 0 THEN left - n ELSE left
  BY DEF Data
<1>2. /\ conn = 1 /\ position \in Sizes /\ size \in Sizes /\ next \in Sizes /\ stop \in Sizes
      /\ left \in -1 .. MaxSize /\ spos = position /\ next = position
      /\ (left >= 0 => left = stop - next)
  BY DEF Inv, TypeOK, SourceInv, PositionsAgree, BodyAtPosition, Data
<1>3. MayReturn \in Int /\ MayReturn <= size - position
  BY <1>2, SourceAssumption, LeastFacts DEF MayReturn, Sizes
<1>4. n \in Int /\ n >= 1 /\ n <= size - position /\ n <= stop - next
  <2>1. /\ stop - next \in Int
        /\ Least(MayReturn, stop - next) \in {MayReturn, stop - next}
        /\ Least(MayReturn, stop - next) <= MayReturn
        /\ Least(MayReturn, stop - next) <= stop - next
    BY <1>2, <1>3, SourceAssumption, LeastFacts DEF Sizes
  <2>2. QED  BY <1>1, <1>2, <1>3, <2>1, SourceAssumption DEF Sizes
<1>5. /\ position' \in Sizes /\ spos' \in Sizes /\ next' \in Sizes /\ left' \in -1 .. MaxSize
      /\ position' <= size /\ next' <= stop /\ next' = position' /\ spos' = position'
      /\ (left' >= 0 => left' = stop - next')
      /\ (left' >= 0 => left >= 0)
  BY <1>1, <1>2, <1>4, SourceAssumption DEF Sizes
<1>6. TypeOK'  BY <1>5, SourceAssumption DEF Inv, TypeOK, Data, Flags
<1>7. SourceInv'  BY <1>5 DEF Inv, SourceInv, Data
<1>8. BodyAtPosition' /\ PositionsAgree' /\ NeverPastSize'
  BY <1>5 DEF BodyAtPosition, PositionsAgree, NeverPastSize, Data
<1>9. EndIsTheEnd'  BY DEF Inv, SourceInv, EndIsTheEnd, Data
<1>10. QED  BY <1>6, <1>7, <1>8, <1>9 DEF Inv

\* The end or the failure of a body leaves the positions alone.
LEMMA BodyInv == ASSUME Inv, BodyEnds \/ BodyFails \/ BodyOver PROVE Inv'
BY DEF Inv, TypeOK, SourceInv, BodyAtPosition, PositionsAgree, NeverPastSize,
   EndIsTheEnd, Flags, BodyEnds, BodyFails, BodyOver, EmptyRead, dav, stream, http

\* A request that fails leaves no connection.
LEMMA RefusedInv == ASSUME Inv, Refused PROVE Inv'
<1>1. Disconnected  BY DEF Refused
<1>2. TypeOK'
  BY <1>1, DisconnectedInv DEF Inv, TypeOK, Refused, dav, stream, Flags
<1>3. SourceInv' /\ PositionsAgree' /\ EndIsTheEnd'
  BY <1>1, DisconnectedInv DEF Inv, SourceInv, PositionsAgree, EndIsTheEnd, Refused, dav, stream
<1>4. QED  BY <1>1, <1>2, <1>3, DisconnectedInv DEF Inv

\* The start of a read, the server's change of the file and the reader's
\* clearing of the latch change none of the positions.
LEMMA QuietInv == ASSUME Inv, Fill \/ Replace \/ ClearEof \/ UNCHANGED vars PROVE Inv'
<1>1. CASE Fill
  BY <1>1, SourceAssumption DEF Inv, TypeOK, SourceInv, BodyAtPosition, PositionsAgree,
     NeverPastSize, EndIsTheEnd, Flags, Sizes, Fill, dav, stream, http
<1>2. CASE Replace
  BY <1>2 DEF Inv, TypeOK, SourceInv, BodyAtPosition, PositionsAgree,
     NeverPastSize, EndIsTheEnd, Replace, dav, stream, http
<1>3. CASE ClearEof
  BY <1>3 DEF Inv, TypeOK, SourceInv, BodyAtPosition, PositionsAgree,
     NeverPastSize, EndIsTheEnd, Flags, ClearEof, dav, stream, http
<1>4. CASE UNCHANGED vars
  BY <1>4 DEF Inv, TypeOK, SourceInv, BodyAtPosition, PositionsAgree,
     NeverPastSize, EndIsTheEnd, vars, dav, stream, http
<1>5. QED  BY <1>1, <1>2, <1>3, <1>4

\* A failed read: the first error seeks to the stream's own position, which is
\* the device's; without an error the position is at the end of the file.
LEMMA ReadFailsInv == ASSUME Inv, ReadFails PROVE Inv'
<1>1. PICK eio \in (IF pc = "failed" THEN {1} ELSE {0, 1}), buffered \in {0, 1} :
        LET first == serror = 0 /\ eio = 1
            count == IF first THEN 2
                     ELSE IF serror > 0 THEN serror + 1 ELSE 0
        IN  /\ IF first
                 THEN seof' = 0 /\ StreamSeek(spos, 0)
                 ELSE seof' = 1 /\ UNCHANGED <<spos, position, http>>
            /\ serror' = Least(count, MaxRetries + 1)
            /\ latch' = IF count = 0 \/ count > MaxRetries \/ buffered = 0 THEN 1 ELSE latch
  BY DEF ReadFails
<1> DEFINE first == serror = 0 /\ eio = 1
<1> DEFINE count == IF first THEN 2 ELSE IF serror > 0 THEN serror + 1 ELSE 0
<1>2. /\ serror \in 0 .. MaxRetries + 1 /\ spos \in Sizes /\ position = spos
      /\ size' = size /\ opened' = opened /\ file' = file /\ asked' = asked /\ pc' = "idle"
  BY DEF Inv, TypeOK, PositionsAgree, ReadFails
<1>3. count \in Nat /\ (count = 0 => eio = 0 /\ serror = 0)
  BY <1>1, <1>2, SourceAssumption
<1>4. serror' = Least(count, MaxRetries + 1) /\ latch' \in {1, latch} /\ seof' \in {0, 1}
  BY <1>1
<1>5. serror' \in 0 .. MaxRetries + 1 /\ (serror' = 0 => count = 0)
  BY <1>3, <1>4, SourceAssumption DEF Least
<1>6. /\ spos' = spos /\ position' = position
      /\ conn' \in Flags /\ failed' \in Flags /\ heof' \in Flags /\ chunked' \in Flags
      /\ left' \in -1 .. MaxSize
      /\ next' \in Sizes /\ stop' \in Sizes
      /\ BodyAtPosition' /\ NeverPastSize'
      /\ (conn' = 1 => conn = 1 /\ left' = left /\ next' = next /\ stop' = stop)
  <2>1. CASE first
    <3>1. StreamSeek(spos, 0) /\ 0 \in Sizes
      BY <1>1, <2>1, SourceAssumption DEF Sizes
    <3>2. QED  BY <1>2, <3>1, StreamSeekInv
  <2>2. CASE ~first
    <3>1. UNCHANGED <<spos, position, http>>  BY <1>1, <2>2
    <3>2. QED
      BY <1>2, <3>1 DEF Inv, TypeOK, BodyAtPosition, NeverPastSize, http
  <2>3. QED  BY <2>1, <2>2
<1>7. TypeOK'  BY <1>2, <1>4, <1>5, <1>6 DEF Inv, TypeOK, Flags
<1>8. SourceInv' /\ PositionsAgree'
  BY <1>2, <1>6 DEF Inv, SourceInv, PositionsAgree
<1>9. EndIsTheEnd'
  <2>1. SUFFICES ASSUME serror' = 0 PROVE position >= size
    BY <1>2, <1>6 DEF EndIsTheEnd
  <2>2. eio = 0  BY <1>3, <1>5, <2>1
  <2>3. pc = "end"  BY <1>1, <2>2 DEF ReadFails
  <2>4. QED  BY <2>3 DEF Inv, SourceInv
<1>10. QED  BY <1>6, <1>7, <1>8, <1>9 DEF Inv

\* Every step keeps the invariant.
LEMMA NextInv == Inv /\ [Next]_vars => Inv'
<1>1. SUFFICES ASSUME Inv, [Next]_vars PROVE Inv'
  OBVIOUS
<1>2. CASE \E q \in Sizes : Seek(q)  BY <1>1, <1>2, SeekInv
<1>3. CASE Accepted \/ Refused \/ Data  BY <1>1, <1>3, AcceptedInv, RefusedInv, DataInv
<1>4. CASE BodyEnds \/ BodyFails \/ BodyOver  BY <1>1, <1>4, BodyInv
<1>5. CASE ReadFails  BY <1>1, <1>5, ReadFailsInv
<1>6. CASE Open \/ Close  BY <1>1, <1>6, OpenCloseInv
<1>7. CASE Fill \/ Replace \/ ClearEof \/ UNCHANGED vars  BY <1>1, <1>7, QuietInv
<1>8. QED  BY <1>1, <1>2, <1>3, <1>4, <1>5, <1>6, <1>7 DEF Next

\* The invariant holds in every reachable state.
THEOREM SourceInvariance == Spec => []Inv
BY InitInv, NextInv, PTL DEF Spec

\* The positions, the connection and the size of gc_dav_file keep their types.
THEOREM SourceTypes == Spec => []TypeOK
<1>1. Inv => TypeOK  BY DEF Inv
<1>2. QED  BY <1>1, SourceInvariance, PTL

\* A read of a WebDAV track continues where the last one ended, for every file
\* size and every sequence of seeks, errors and reconnections.
THEOREM ReadsContinue == Spec => []BodyAtPosition
<1>1. Inv => BodyAtPosition  BY DEF Inv
<1>2. QED  BY <1>1, SourceInvariance, PTL

\* stream_seek_internal() and gc_dav_seek() never disagree about the position.
THEOREM PositionsKept == Spec => []PositionsAgree
<1>1. Inv => PositionsAgree  BY DEF Inv
<1>2. QED  BY <1>1, SourceInvariance, PTL

\* No read of gc_dav_read() passes the size the file had at open.
THEOREM SizeKept == Spec => []NeverPastSize
<1>1. Inv => NeverPastSize  BY DEF Inv
<1>2. QED  BY <1>1, SourceInvariance, PTL

\* Without an error a track ends only at the end of the file.
THEOREM EndSound == Spec => []EndIsTheEnd
<1>1. Inv => EndIsTheEnd  BY DEF Inv
<1>2. QED  BY <1>1, SourceInvariance, PTL

-----------------------------------------------------------------------------
(* A WebDAV track is a source as the cache expects it.                     *)

\* Requests, responses and connections do not show.
LEMMA HiddenSteps ==
  ASSUME Replace \/ Fill \/ Accepted \/ Refused \/ BodyEnds \/ BodyFails \/ BodyOver
           \/ UNCHANGED vars
  PROVE  UNCHANGED Source!vars
BY DEF Replace, Fill, Accepted, Refused, BodyEnds, BodyFails, BodyOver, vars, dav, stream,
   Source!vars

\* The calls of the player and of the cache.
LEMMA CallSteps ==
  ASSUME Inv, Open \/ Close \/ ClearEof \/ \E q \in Sizes : Seek(q)
  PROVE  Source!Open \/ Source!Close \/ Source!ClearEof \/ Source!Seek
<1>1. CASE Open
  BY <1>1 DEF Inv, TypeOK, Sizes, Open, Source!Open, Source!Fresh
<1>2. CASE Close
  BY <1>2 DEF Close, Source!Close, Source!Fresh
<1>3. CASE ClearEof
  BY <1>3 DEF ClearEof, dav, stream, Source!ClearEof
<1>4. ASSUME NEW q \in Sizes, Seek(q) PROVE Source!Seek
  <2> DEFINE p == IF seof = 1 THEN 0 ELSE spos
  <2>1. StreamSeek(q, p) /\ p \in Sizes
    BY <1>4, SourceAssumption DEF Inv, TypeOK, Sizes, Seek
  <2>2. p # position => p = 0 \/ p # q
    BY DEF Inv, PositionsAgree
  <2>3. /\ opened = 1 /\ latch' = 0
        /\ size' = size /\ serror' = serror /\ opened' = opened
    BY <1>4 DEF Seek
  <2> HIDE DEF p
  <2>4. position' = q
    BY <2>1, <2>2, <2>3, StreamSeekInv
  <2>5. QED
    BY <2>3, <2>4 DEF Source!Seek, Sizes
<1>5. QED
  BY <1>1, <1>2, <1>3, <1>4

\* Every layer has advanced by what was delivered.
LEMMA DataReads == ASSUME Inv, Data PROVE Source!Read
<1>1. PICK n \in 1 .. Least(MayReturn, stop - next) : position' = position + n
  BY DEF Data
<1>2. position \in Int /\ size \in Int /\ next \in Int /\ stop \in Int /\ MaxRead \in Int
  BY SourceAssumption DEF Inv, TypeOK, Sizes
<1>3. /\ MayReturn \in Int /\ MayReturn <= size - position /\ MayReturn <= MaxRead
  BY <1>2, LeastFacts DEF MayReturn
<1>4. n \in Int /\ 1 <= n /\ n <= MaxRead /\ n <= size - position
  <2>1. /\ stop - next \in Int
        /\ Least(MayReturn, stop - next) \in {MayReturn, stop - next}
        /\ Least(MayReturn, stop - next) <= MayReturn
    BY <1>2, <1>3, LeastFacts
  <2>2. QED  BY <1>2, <1>3, <2>1
<1>5. \E k \in 1 .. MaxRead : position + k <= size /\ position' = position + k
  BY <1>1, <1>2, <1>4
<1>6. opened = 1 /\ latch = 0 /\ serror' = 0 /\ UNCHANGED <<opened, size, latch>>
  BY DEF Inv, SourceInv, Data
<1>7. QED  BY <1>5, <1>6 DEF Source!Read

\* A failed read, its recovery and the retry decision leave the position alone,
\* count an error unless the file is at its end, and give up in time.
LEMMA FailureSteps == ASSUME Inv, ReadFails PROVE Source!Fail \/ Source!End
<1>1. PICK eio \in (IF pc = "failed" THEN {1} ELSE {0, 1}), buffered \in {0, 1} :
        LET first == serror = 0 /\ eio = 1
            count == IF first THEN 2
                     ELSE IF serror > 0 THEN serror + 1 ELSE 0
        IN  /\ IF first
                 THEN seof' = 0 /\ StreamSeek(spos, 0)
                 ELSE seof' = 1 /\ UNCHANGED <<spos, position, http>>
            /\ serror' = Least(count, MaxRetries + 1)
            /\ latch' = IF count = 0 \/ count > MaxRetries \/ buffered = 0 THEN 1 ELSE latch
  BY DEF ReadFails
<1> DEFINE first == serror = 0 /\ eio = 1
<1> DEFINE count == IF first THEN 2 ELSE IF serror > 0 THEN serror + 1 ELSE 0
<1>2. /\ serror \in 0 .. MaxRetries + 1 /\ spos \in Sizes /\ spos = position
      /\ opened = 1 /\ latch = 0 /\ UNCHANGED <<opened, size>>
      /\ pc = "end" => position >= size
      /\ pc \in {"failed", "end"}
  BY DEF Inv, TypeOK, PositionsAgree, SourceInv, ReadFails
<1>3. position' = position
  <2>1. CASE first
    <3>1. StreamSeek(spos, 0) /\ 0 \in Sizes
      BY <1>1, <2>1, SourceAssumption DEF Sizes
    <3>2. QED  BY <1>2, <3>1, StreamSeekInv
  <2>2. CASE ~first
    BY <1>1, <2>2
  <2>3. QED  BY <2>1, <2>2
<1>4. /\ count \in Nat /\ serror' = Least(count, MaxRetries + 1)
      /\ latch' = IF count = 0 \/ count > MaxRetries \/ buffered = 0 THEN 1 ELSE latch
  BY <1>1, <1>2
<1>5. CASE count = 0
  <2>1. serror = 0 /\ eio = 0
    BY <1>2, <1>5
  <2>2. pc = "end"
    BY <1>1, <1>2, <2>1
  <2>3. serror' = serror /\ latch' = 1
    BY <1>4, <1>5, <2>1, SourceAssumption DEF Least
  <2>4. Source!End
    BY <1>2, <1>3, <2>1, <2>2, <2>3 DEF Source!End
  <2>5. QED  BY <2>4
<1>6. CASE count # 0
  <2>1. count > serror
    BY <1>2, <1>6
  <2>2. /\ serror' \in 1 .. MaxRetries + 1
        /\ serror' > serror \/ serror' = MaxRetries + 1
        /\ serror' > MaxRetries => count > MaxRetries
    BY <1>2, <1>4, <1>6, <2>1, SourceAssumption DEF Least
  <2>3. latch' \in {0, 1} /\ (serror' > MaxRetries => latch' = 1)
    BY <1>2, <1>4, <2>2
  <2>4. Source!Fail
    BY <1>2, <1>3, <2>2, <2>3 DEF Source!Fail
  <2>5. QED  BY <2>4
<1>7. QED  BY <1>5, <1>6

\* Whatever the connections and the server do, cache_fill sees a source that
\* stays where it is until it is sought or has delivered something.
THEOREM CacheServed == Spec => ServesCache
<1>1. Init => Source!Init
  BY DEF Init, Source!Init
<1>2. Inv /\ [Next]_vars => [Source!Next]_(Source!vars)
  <2> SUFFICES ASSUME Inv, [Next]_vars PROVE Source!Next \/ UNCHANGED Source!vars
    OBVIOUS
  <2>1. CASE \/ Replace \/ Fill \/ Accepted \/ Refused \/ BodyEnds \/ BodyFails \/ BodyOver
             \/ UNCHANGED vars
    BY <2>1, HiddenSteps
  <2>2. CASE Open \/ Close \/ ClearEof \/ \E q \in Sizes : Seek(q)
    BY <2>2, CallSteps DEF Source!Next
  <2>3. CASE Data
    BY <2>3, DataReads DEF Source!Next
  <2>4. CASE ReadFails
    BY <2>4, FailureSteps DEF Source!Next
  <2>5. QED  BY <2>1, <2>2, <2>3, <2>4 DEF Next
<1>3. QED
  BY <1>1, <1>2, SourceInvariance, PTL DEF Spec, ServesCache, Source!Spec
=============================================================================
