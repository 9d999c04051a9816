---------------------------- MODULE TrackSource ----------------------------
(***************************************************************************)
(* What the read cache relies on when it fills itself from a track: the    *)
(* source stands at one position, which only a seek and the units it has   *)
(* delivered move; a failed read, and whatever recovery follows it, leaves *)
(* it there.  Nothing past the length at open is delivered.  Without an    *)
(* error the end is reported only at the end, and errors in a row end the  *)
(* track once the retries are used up.                                     *)
(***************************************************************************)
EXTENDS Integers

CONSTANTS MaxSize, MaxRead, MaxRetries

VARIABLES
  open,   \* a track is open
  len,    \* its length when it was opened
  pos,    \* position of the next unit
  error,  \* errors since the last unit
  latch   \* the cache has seen the end

vars == <<open, len, pos, error, latch>>

Fresh == pos' = 0 /\ error' = 0 /\ latch' = 0

Init == open = 0 /\ len = 0 /\ pos = 0 /\ error = 0 /\ latch = 0

Open  == open = 0 /\ open' = 1 /\ len' \in 0 .. MaxSize /\ Fresh
Close == open = 1 /\ open' = 0 /\ len' = 0 /\ Fresh

Seek ==
  /\ open = 1
  /\ pos' \in 0 .. MaxSize /\ latch' = 0
  /\ UNCHANGED <<open, len, error>>

Read ==
  /\ open = 1 /\ latch = 0
  /\ \E n \in 1 .. MaxRead : pos + n <= len /\ pos' = pos + n
  /\ error' = 0
  /\ UNCHANGED <<open, len, latch>>

Fail ==
  /\ open = 1 /\ latch = 0
  /\ error' \in 1 .. MaxRetries + 1
  /\ error' > error \/ error' = MaxRetries + 1
  /\ latch' \in {0, 1}
  /\ error' > MaxRetries => latch' = 1
  /\ UNCHANGED <<open, len, pos>>

End ==
  /\ open = 1 /\ latch = 0
  /\ pos >= len /\ error = 0
  /\ latch' = 1
  /\ UNCHANGED <<open, len, pos, error>>

ClearEof == latch = 1 /\ latch' = 0 /\ UNCHANGED <<open, len, pos, error>>

Next == Open \/ Close \/ Seek \/ Read \/ Fail \/ End \/ ClearEof

Spec == Init /\ [][Next]_vars
=============================================================================
