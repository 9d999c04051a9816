--------------------------- MODULE SeekableStream ---------------------------
(***************************************************************************)
(* What the cached stream promises its reader (stream_read and             *)
(* cache_stream_seek_long), whatever the filler does behind it: a read     *)
(* returns the file's own units, consecutively from the current position;  *)
(* it comes back short only at the end of the file, or when the player has *)
(* an excuse (the user interrupts, the source fails or stalls).  A reader  *)
(* may be led astray only by a seek, before anything is given to it from   *)
(* there, and only if the source failed or is live; a later seek may lead  *)
(* it back.                                                                *)
(***************************************************************************)
EXTENDS Integers, Sequences

CONSTANTS FileLen, SectorSize, SeekTargets

VARIABLES
  pos,    \* stream->pos at the start of the call
  buf,    \* the units delivered by the current, or the last, call
  busy,   \* a call is in progress
  excuse, \* interrupted, or the source failed or stalled, at some time
  live,   \* the source cannot seek
  sought, \* nothing has been delivered since the last seek
  lost    \* the source did not follow that seek: the units are not the file's

vars == <<pos, buf, busy, excuse, live, sought, lost>>

Init ==
  /\ pos \in {0} \cup SeekTargets
  /\ buf = <<>>
  /\ busy = FALSE
  /\ excuse \in BOOLEAN /\ live \in BOOLEAN
  /\ sought = FALSE /\ lost = FALSE

Seek ==
  /\ ~busy
  /\ \E q \in SeekTargets : pos' = (q \div SectorSize) * SectorSize
  /\ buf' = <<>>
  /\ busy' = TRUE
  /\ sought' = TRUE
  /\ UNCHANGED <<excuse, live, lost>>

Read ==
  /\ ~busy
  /\ buf' = <<>>
  /\ busy' = TRUE
  /\ UNCHANGED <<pos, excuse, live, sought, lost>>

Deliver ==
  /\ busy
  /\ \E n \in 1 .. SectorSize - Len(buf) :
       \/ /\ ~lost
          /\ pos + Len(buf) + n <= FileLen
          /\ buf' = buf \o [i \in 1 .. n |-> pos + Len(buf) + i - 1]
       \/ /\ lost
          /\ Len(buf') = Len(buf) + n
  /\ sought' = FALSE
  /\ UNCHANGED <<pos, busy, excuse, live, lost>>

Return ==
  /\ busy
  /\ excuse' \/ lost \/ Len(buf) = SectorSize \/ pos + Len(buf) >= FileLen
  /\ excuse => excuse'
  /\ busy' = FALSE
  /\ pos' = pos + Len(buf)
  /\ UNCHANGED <<buf, live, sought, lost>>

\* The source is repositioned for the last seek, or fails to be.
Reposition ==
  /\ sought
  /\ lost' => excuse' \/ live
  /\ excuse => excuse'
  /\ UNCHANGED <<pos, buf, busy, live, sought>>

Excuse ==
  /\ excuse' = TRUE
  /\ UNCHANGED <<pos, buf, busy, live, sought, lost>>

Next == Seek \/ Read \/ Deliver \/ Return \/ Reposition \/ Excuse

Spec == Init /\ [][Next]_vars
=============================================================================
