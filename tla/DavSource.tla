----------------------------- MODULE DavSource -----------------------------
(***************************************************************************)
(* The source under the read cache when a WebDAV track plays: the open     *)
(* file and its one HTTP connection (utils/webdav_client.c, http_client.c),*)
(* the stream layer's error recovery (stream.c, stream_file.c) and the     *)
(* cache's retry decision (cache2.c).  All of it runs on the cache worker; *)
(* the server, which may replace the file at any time, and the reader,     *)
(* which clears the end-of-file latch by seeking, are the other actors.    *)
(***************************************************************************)
EXTENDS Integers

CONSTANTS
  MaxSize,     \* bound on file sizes and seek targets
  MaxRead,     \* units one read may return
  MaxRetries   \* read errors in a row before the cache gives up: 500

ASSUME SourceAssumption == MaxSize \in Nat /\ MaxRead \in Nat /\ MaxRetries \in Nat

VARIABLES
  file,            \* size of the file the server has now (external)
  opened,          \* a gc_dav_file is open
  size, position,  \* gc_dav_file: size at open, position of the next read
  conn,            \* http->conn is open
  failed, heof,    \* http->failed, http->eof
  chunked, left,   \* body framing: http->chunked, http->remaining (-1: unknown)
  next, stop,      \* the body: its next unit and the end of its range
  spos, seof, serror, \* stream->pos, stream->eof, stream->error
  latch,           \* the cache's eof
  asked,           \* a request was sent since the last unit arrived
  pc               \* where the cache worker is in a read

http   == <<conn, failed, heof, chunked, left, next, stop>>
dav    == <<size, position>>
stream == <<spos, seof, serror>>
vars   == <<file, opened, dav, http, stream, latch, asked, pc>>

Sizes == 0 .. MaxSize
Least(a, b) == IF a < b THEN a ELSE b

\* No connection: gc_http_open clears every field before it is read again.
Disconnected ==
  /\ conn' = 0 /\ failed' = 0 /\ heof' = 0 /\ chunked' = 0
  /\ left' = -1 /\ next' = 0 /\ stop' = 0

Init ==
  /\ file \in Sizes
  /\ opened = 0 /\ size = 0 /\ position = 0
  /\ conn = 0 /\ failed = 0 /\ heof = 0 /\ chunked = 0
  /\ left = -1 /\ next = 0 /\ stop = 0
  /\ spos = 0 /\ seof = 0 /\ serror = 0
  /\ latch = 0 /\ asked = 0 /\ pc = "idle"

\* The file is replaced on the server; a response under way keeps the old one.
Replace ==
  /\ file' \in Sizes \ {file}
  /\ UNCHANGED <<opened, dav, http, stream, latch, asked, pc>>

-----------------------------------------------------------------------------
(* Opening, closing and seeking.                                           *)

\* gc_dav_open takes the size from a PROPFIND; open_f seeks to the end and
\* back, and the stream and the cache above start afresh.
Open ==
  /\ opened = 0
  /\ opened' = 1
  /\ size' = file /\ position' = 0
  /\ Disconnected
  /\ spos' = 0 /\ seof' = 0 /\ serror' = 0 /\ latch' = 0 /\ asked' = 0
  /\ UNCHANGED <<file, pc>>

Close ==
  /\ opened = 1 /\ pc = "idle"
  /\ opened' = 0
  /\ size' = 0 /\ position' = 0
  /\ Disconnected
  /\ spos' = 0 /\ seof' = 0 /\ serror' = 0 /\ latch' = 0 /\ asked' = 0
  /\ UNCHANGED <<file, pc>>

DavSeekKeeps(q) == position' = q /\ UNCHANGED http   \* mutant: the connection survives

\* gc_dav_seek: a seek away from the position closes the connection.
DavSeek(q) ==
  /\ position' = q
  /\ IF q = position THEN UNCHANGED http ELSE Disconnected

\* stream_seek_internal(q) with stream->pos at p.
StreamSeek(q, p) ==
  IF q = 0 \/ q # p THEN DavSeek(q) /\ spos' = q ELSE spos' = p /\ UNCHANGED <<position, http>>

\* cache_fill finds the reader at q, outside the window whose end is the
\* source's position: it flushes, resets the stream and seeks.
Seek(q) ==
  /\ opened = 1 /\ pc = "idle"
  /\ q # position
  /\ StreamSeek(q, IF seof = 1 THEN 0 ELSE spos)
  /\ seof' = 0 /\ latch' = 0
  /\ UNCHANGED <<file, opened, size, serror, asked, pc>>

\* cache_stream_seek_long, on the reader's thread, clears the latch.
ClearEof ==
  /\ latch = 1
  /\ latch' = 0
  /\ UNCHANGED <<file, opened, dav, http, stream, asked, pc>>

-----------------------------------------------------------------------------
(* One read of the cache.                                                  *)

\* cache_fill reads unless the latch holds; gc_dav_read answers 0 at the end
\* of the file and otherwise uses the open connection or makes a request.
Fill ==
  /\ opened = 1 /\ pc = "idle" /\ latch = 0
  /\ pc' = IF position >= size THEN "end" ELSE IF conn = 1 THEN "body" ELSE "request"
  /\ UNCHANGED <<file, opened, dav, http, stream, latch, asked>>

\* What an HTTP server may answer: a range, the whole file or no content,
\* with a length, in chunks or until it closes.
Answers ==
  {a \in [kind : {"partial", "whole", "empty"}, start : Sizes, stop : Sizes,
          counted : {0, 1}, chunked : {0, 1}] :
     /\ a.counted = 1 => a.chunked = 0
     /\ a.kind = "partial" => a.start < a.stop /\ a.stop <= file
     /\ a.kind = "whole" => a.start = 0 /\ a.stop = file
     /\ a.kind = "empty" => a.start = 0 /\ a.stop = 0}

Length(a) == IF a.counted = 1 THEN a.stop - a.start ELSE -1
Total(a)  == IF a.kind = "partial" THEN file ELSE -1

\* gc_http_open: a range must start where it was asked for, and only a range
\* will do past the start of the file.
RangeAccepted(a) ==
  /\ a.kind = "partial" => a.start = position
  /\ position > 0 => a.kind = "partial"

\* gc_dav_read: what the response says of the file agrees with its open.
SizeMatches(a) ==
  /\ Total(a) >= 0 => Total(a) = size
  /\ Length(a) >= 0 => Length(a) = size - position

Accepted ==
  /\ pc = "request"
  /\ \E a \in Answers :
       /\ RangeAccepted(a) /\ SizeMatches(a)
       /\ heof' = IF a.kind = "empty" THEN 1 ELSE 0
       /\ chunked' = a.chunked
       /\ left' = Length(a)
       /\ next' = a.start /\ stop' = a.stop
  /\ conn' = 1 /\ failed' = 0
  /\ asked' = 1
  /\ pc' = "body"
  /\ UNCHANGED <<file, opened, dav, stream, latch>>

\* No connection, an error status, a bad header, or a response refused above.
Refused ==
  /\ pc = "request"
  /\ Disconnected
  /\ asked' = 1
  /\ pc' = "failed"
  /\ UNCHANGED <<file, opened, dav, stream, latch>>

EmptyIsEnd == "end"      \* mutant: only a negative result is an error

\* gc_dav_read: a body that ends before the file does is an I/O error.
EmptyRead == "failed"

\* The units gc_dav_read asks the body for, at most.
MayReturn == Least(MaxRead, size - position)

\* gc_http_read returns n units, and every layer above advances by them.
Data ==
  /\ pc = "body" /\ failed = 0 /\ heof = 0
  /\ \E n \in 1 .. Least(MayReturn, stop - next) :
       /\ position' = position + n /\ spos' = spos + n
       /\ next' = next + n
       /\ left' = IF left >= 0 THEN left - n ELSE left
  /\ seof' = 0 /\ serror' = 0 /\ asked' = 0
  /\ pc' = "idle"
  /\ UNCHANGED <<file, opened, size, conn, failed, heof, chunked, stop, latch>>

\* The response is over: its length is used up, the last chunk has come, or
\* an uncounted body was closed, which cannot be told from a cut.
BodyEnds ==
  /\ pc = "body" /\ failed = 0 /\ heof = 0
  /\ next = stop \/ (chunked = 0 /\ left = -1)
  /\ heof' = 1
  /\ pc' = EmptyRead
  /\ UNCHANGED <<file, opened, dav, conn, failed, chunked, left, next, stop,
                 stream, latch, asked>>

\* A timeout, a reset, a cancelled transfer or a truncated body.
BodyFails ==
  /\ pc = "body" /\ failed = 0 /\ heof = 0
  /\ failed' = 1
  /\ pc' = "failed"
  /\ UNCHANGED <<file, opened, dav, conn, heof, chunked, left, next, stop,
                 stream, latch, asked>>

\* A body that has failed or ended is not read again: no request is made
\* while its connection is still held.
BodyOver ==
  /\ pc = "body"
  /\ failed = 1 \/ heof = 1
  /\ pc' = IF failed = 1 THEN "failed" ELSE EmptyRead
  /\ UNCHANGED <<file, opened, dav, http, stream, latch, asked>>

\* mutant: the recovery seeks to stream->pos as stream_reset has left it.
ReadFailsForgets ==
  /\ pc \in {"failed", "end"}
  /\ \E eio \in (IF pc = "failed" THEN {1} ELSE {0, 1}), buffered \in {0, 1} :
       LET first == serror = 0 /\ eio = 1
           count == IF first THEN 2
                    ELSE IF serror > 0 THEN serror + 1 ELSE 0
       IN  /\ IF first
                THEN seof' = 0 /\ StreamSeek(0, 0)
                ELSE seof' = 1 /\ UNCHANGED <<spos, position, http>>
           /\ serror' = Least(count, MaxRetries + 1)
           /\ latch' = IF count = 0 \/ count > MaxRetries \/ buffered = 0 THEN 1 ELSE latch
  /\ pc' = "idle"
  /\ UNCHANGED <<file, opened, size, asked>>

\* fill_buffer answered -1.  The first error resets the stream and seeks to
\* its own position; cache_fill then counts errors and retries while at least
\* 5% is buffered, and takes anything else for the end.  At the end of the
\* file errno is whatever an earlier call left there.
ReadFails ==
  /\ pc \in {"failed", "end"}
  /\ \E eio \in (IF pc = "failed" THEN {1} ELSE {0, 1}), buffered \in {0, 1} :
       LET first == serror = 0 /\ eio = 1
           count == IF first THEN 2
                    ELSE IF serror > 0 THEN serror + 1 ELSE 0
       IN  /\ IF first
                THEN seof' = 0 /\ StreamSeek(spos, 0)
                ELSE seof' = 1 /\ UNCHANGED <<spos, position, http>>
           /\ serror' = Least(count, MaxRetries + 1)
           /\ latch' = IF count = 0 \/ count > MaxRetries \/ buffered = 0 THEN 1 ELSE latch
  /\ pc' = "idle"
  /\ UNCHANGED <<file, opened, size, asked>>

Next ==
  \/ Replace \/ Open \/ Close \/ ClearEof
  \/ \E q \in Sizes : Seek(q)
  \/ Fill \/ Accepted \/ Refused
  \/ Data \/ BodyEnds \/ BodyFails \/ BodyOver \/ ReadFails

Spec == Init /\ [][Next]_vars

-----------------------------------------------------------------------------
(* Properties.                                                             *)

Flags == {0, 1}

\* Every position stays inside the file bounds, and the framing counts only
\* what the body has left.
TypeOK ==
  /\ file \in Sizes /\ size \in Sizes /\ position \in Sizes /\ spos \in Sizes
  /\ opened \in Flags /\ conn \in Flags /\ failed \in Flags /\ heof \in Flags
  /\ chunked \in Flags /\ seof \in Flags /\ latch \in Flags /\ asked \in Flags
  /\ left \in -1 .. MaxSize
  /\ next \in Sizes /\ stop \in Sizes
  /\ serror \in 0 .. MaxRetries + 1
  /\ pc \in {"idle", "request", "body", "failed", "end"}

\* The next unit of the open response is the unit at the file's position:
\* whatever seeks and error recoveries came before, a read continues
\* where the last one ended (gc_dav_read, gc_dav_seek).
BodyAtPosition == conn = 1 => next = position

\* stream->pos is the device's position whenever no read or seek is under
\* way, so the recovery's seek comes back to the right place although
\* stream_reset sets stream->pos to 0 (stream.c:379, stream.c:545).
PositionsAgree == spos = position

\* Reading stops at the size at open, also when the body is longer
\* (webdav_client.c:297).
NeverPastSize == conn = 1 => position <= size

\* A track ends without an error only where the file ends: a response cut
\* short, refused or empty is never taken for the end (webdav_client.c:299).
EndIsTheEnd == latch = 1 /\ serror = 0 => position >= size

\* cache2.c:467, "retry if we have cache": when the retries are used up before
\* the end of the file, at least one of them has reached the server.
RetriesReachServer ==
  latch = 1 /\ serror > MaxRetries /\ position < size => asked = 1

\* The source the cache fills itself from, as the cache sees it.
Source == INSTANCE TrackSource WITH open <- opened, len <- size, pos <- position, error <- serror

\* A WebDAV track is such a source: connections, responses and the recovery
\* that seeks the stream back (stream.c:378) are invisible to cache_fill.
ServesCache == Source!Spec

\* Why the above hold: what each point of a read knows, and that a counted
\* body has as many units left as its range.
SourceInv ==
  /\ pc = "request" => conn = 0
  /\ pc = "body" => conn = 1
  /\ pc \in {"request", "body"} => position < size
  /\ pc = "end" => position >= size
  /\ pc # "idle" => opened = 1 /\ latch = 0
  /\ conn = 1 => next <= stop
  /\ conn = 1 /\ left >= 0 => left = stop - next
=============================================================================
