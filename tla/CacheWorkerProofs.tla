-------------------------- MODULE CacheWorkerProofs --------------------------
(***************************************************************************)
(* Proofs for CacheWorker, for any number of caches: the worker never      *)
(* serves a cache that was freed, and a stream played from a cache has the *)
(* worker behind it.                                                       *)
(***************************************************************************)
EXTENDS CacheWorker, TLAPS

\* The bounds on playback_files are kept by the thread that loads it: MPlayer
\* takes a count above zero down to zero at most.
TypeInv ==
  /\ TypeOK
  /\ tpc = "opening" => tload < MaxFiles
  /\ tpc = "counted" => playback_files >= 0
  /\ tpc = "closing" => tload >= 0

\* Every step keeps the types.
LEMMA TypesNext ==
  TypeInv /\ [Next]_vars => TypeInv'
<1> SUFFICES ASSUME TypeInv, [Next]_vars PROVE TypeInv'
  OBVIOUS
<1>1. CASE Wake
  BY <1>1, BoundAssumption DEF TypeInv, TypeOK, Caches, Kinds, Wake, worker, caches, stream, gate,
     others
<1>2. CASE FillReads
  BY <1>2, BoundAssumption DEF TypeInv, TypeOK, Caches, Kinds, FillReads, worker, caches, stream,
     gate, others
<1>3. CASE FillIdles
  BY <1>3, BoundAssumption DEF TypeInv, TypeOK, Caches, Kinds, FillIdles, worker, caches, stream,
     gate, others
<1>4. CASE ReadReturns
  BY <1>4, BoundAssumption DEF TypeInv, TypeOK, Caches, Kinds, ReadReturns, worker, caches,
     stream, gate, others
<1>5. CASE ReadIsCancelled
  BY <1>5, BoundAssumption DEF TypeInv, TypeOK, Caches, Kinds, ReadIsCancelled, worker, caches,
     stream, gate, others
<1>6. CASE Control
  BY <1>6, BoundAssumption DEF TypeInv, TypeOK, Caches, Kinds, Control, worker, caches, stream,
     gate, others
<1>7. CASE Suspend
  BY <1>7, BoundAssumption DEF TypeInv, TypeOK, Caches, Kinds, Suspend, worker, caches, stream,
     gate, others
<1>8. CASE EnableStart
  BY <1>8, BoundAssumption DEF TypeInv, TypeOK, Caches, Kinds, EnableStart, worker, caches,
     stream, gate, others, Resumed, CacheThreadSuspended
<1>9. CASE Paused
  BY <1>9, BoundAssumption DEF TypeInv, TypeOK, Caches, Kinds, Paused, worker, caches, stream,
     gate, others, CacheThreadSuspended
<1>10. CASE PauseEnds
  BY <1>10, BoundAssumption DEF TypeInv, TypeOK, Caches, Kinds, PauseEnds, worker, caches, stream,
     gate, others
<1>11. CASE FreeStream
  BY <1>11, BoundAssumption DEF TypeInv, TypeOK, Caches, Kinds, FreeStream, worker, caches,
     stream, gate, others
<1>12. CASE Uninit
  BY <1>12, BoundAssumption DEF TypeInv, TypeOK, Caches, Kinds, Uninit, worker, caches, stream,
     gate, others
<1>13. CASE UninitWaited
  BY <1>13, BoundAssumption DEF TypeInv, TypeOK, Caches, Kinds, UninitWaited, worker, caches,
     stream, gate, others, CacheThreadSuspended
<1>14. CASE UninitFree
  BY <1>14, BoundAssumption DEF TypeInv, TypeOK, Caches, Kinds, UninitFree, worker, caches,
     stream, gate, others, Freed
<1>15. CASE CloseStream
  BY <1>15, BoundAssumption DEF TypeInv, TypeOK, Caches, Kinds, CloseStream, worker, caches,
     stream, gate, others
<1>16. CASE Open
  BY <1>16, BoundAssumption DEF TypeInv, TypeOK, Caches, Kinds, Open, worker, caches, stream,
     gate, others
<1>17. CASE EnableFails
  BY <1>17, BoundAssumption DEF TypeInv, TypeOK, Caches, Kinds, EnableFails, worker, caches,
     stream, gate, others
<1>18. CASE EnableAlloc
  BY <1>18, BoundAssumption DEF TypeInv, TypeOK, Caches, Kinds, EnableAlloc, worker, caches,
     stream, gate, others
<1>19. CASE EnableHalf
  BY <1>19, BoundAssumption DEF TypeInv, TypeOK, Caches, Kinds, EnableHalf, worker, caches,
     stream, gate, others
<1>20. CASE Prefilled
  BY <1>20, BoundAssumption DEF TypeInv, TypeOK, Caches, Kinds, Prefilled, worker, caches, stream,
     gate, others
<1>21. CASE PrefillFails
  BY <1>21, BoundAssumption DEF TypeInv, TypeOK, Caches, Kinds, PrefillFails, worker, caches,
     stream, gate, others
<1>22. CASE WebDAVPlaybackCacheReady
  BY <1>22, BoundAssumption DEF TypeInv, TypeOK, Caches, Kinds, WebDAVPlaybackCacheReady, worker,
     caches, stream, gate, others
<1>23. CASE EndFile
  BY <1>23, BoundAssumption DEF TypeInv, TypeOK, Caches, Kinds, EndFile, worker, caches, stream,
     gate, others
<1>24. CASE RequestEnd
  BY <1>24, BoundAssumption DEF TypeInv, TypeOK, Caches, Kinds, RequestEnd, worker, caches,
     stream, gate, others
<1>25. CASE Pause
  BY <1>25, BoundAssumption DEF TypeInv, TypeOK, Caches, Kinds, Pause, worker, caches, stream,
     gate, others
<1>26. CASE Resume
  BY <1>26, BoundAssumption DEF TypeInv, TypeOK, Caches, Kinds, Resume, worker, caches, stream,
     gate, others, Resumed, CacheThreadSuspended
<1>27. CASE ListStart
  BY <1>27, BoundAssumption DEF TypeInv, TypeOK, Caches, Kinds, ListStart, worker, caches, stream,
     gate, others
<1>28. CASE ListPass
  BY <1>28, BoundAssumption DEF TypeInv, TypeOK, Caches, Kinds, ListPass, worker, caches, stream,
     gate, others
<1>29. CASE ListRead
  BY <1>29, BoundAssumption DEF TypeInv, TypeOK, Caches, Kinds, ListRead, worker, caches, stream,
     gate, others
<1>30. CASE ListIsCancelled
  BY <1>30, BoundAssumption DEF TypeInv, TypeOK, Caches, Kinds, ListIsCancelled, worker, caches,
     stream, gate, others
<1>31. CASE ListReport
  BY <1>31, BoundAssumption DEF TypeInv, TypeOK, Caches, Kinds, ListReport, worker, caches,
     stream, gate, others
<1>32. CASE ThumbOpenLoad
  BY <1>32, BoundAssumption DEF TypeInv, TypeOK, Caches, Kinds, ThumbOpenLoad, worker, caches,
     stream, gate, others
<1>33. CASE ThumbOpenStore
  BY <1>33, BoundAssumption DEF TypeInv, TypeOK, Caches, Kinds, ThumbOpenStore, worker, caches,
     stream, gate, others
<1>34. CASE ThumbCloseLoad
  BY <1>34, BoundAssumption DEF TypeInv, TypeOK, Caches, Kinds, ThumbCloseLoad, worker, caches,
     stream, gate, others
<1>35. CASE ThumbCloseStore
  BY <1>35, BoundAssumption DEF TypeInv, TypeOK, Caches, Kinds, ThumbCloseStore, worker, caches,
     stream, gate, others
<1>36. CASE ThumbCloseTest
  BY <1>36, BoundAssumption DEF TypeInv, TypeOK, Caches, Kinds, ThumbCloseTest, worker, caches,
     stream, gate, others
<1>37. CASE ThumbClosed
  BY <1>37, BoundAssumption DEF TypeInv, TypeOK, Caches, Kinds, ThumbClosed, worker, caches,
     stream, gate, others
<1>38. CASE ThumbNotReady
  BY <1>38, BoundAssumption DEF TypeInv, TypeOK, Caches, Kinds, ThumbNotReady, worker, caches,
     stream, gate, others
<1>39. CASE UNCHANGED vars
  BY <1>39 DEF TypeInv, TypeOK, Caches, Kinds, worker, caches, stream, gate, others, vars
<1> QED
  BY <1>1, <1>2, <1>3, <1>4, <1>5, <1>6, <1>7, <1>8, <1>9, <1>10, <1>11, <1>12, <1>13, <1>14,
     <1>15, <1>16, <1>17, <1>18, <1>19, <1>20, <1>21, <1>22, <1>23, <1>24, <1>25, <1>26, <1>27,
     <1>28, <1>29, <1>30, <1>31, <1>32, <1>33, <1>34, <1>35, <1>36, <1>37, <1>38, <1>39
     DEF Next, WorkerStep, MPlayerStep

\* Every step keeps the invariant.
LEMMA CacheNext ==
  TypeInv /\ CacheInv /\ [Next]_vars => CacheInv'
<1> SUFFICES ASSUME TypeInv, CacheInv, [Next]_vars PROVE CacheInv'
  OBVIOUS
<1>1. CASE Wake
  <2>1. Agreement'
    BY <1>1, BoundAssumption DEF CacheInv, Agreement, MPlayerKnows, PlayingIsServed, Serving,
       Wake, worker, caches, stream, gate, others, TypeInv, TypeOK, Kinds
  <2>2. MPlayerKnows'
    BY <1>1, BoundAssumption DEF CacheInv, Agreement, MPlayerKnows, PlayingIsServed, Serving,
       Wake, worker, caches, stream, gate, others, TypeInv, TypeOK, Kinds
  <2>3. PlayingIsServed'
    BY <1>1, BoundAssumption DEF CacheInv, Agreement, MPlayerKnows, PlayingIsServed, Serving,
       Wake, worker, caches, stream, gate, others, TypeInv, TypeOK, Kinds
  <2> QED
    BY <2>1, <2>2, <2>3 DEF CacheInv
<1>2. CASE FillReads
  <2>1. Agreement'
    BY <1>2, BoundAssumption DEF CacheInv, Agreement, MPlayerKnows, PlayingIsServed, Serving,
       FillReads, worker, caches, stream, gate, others, TypeInv, TypeOK, Kinds
  <2>2. MPlayerKnows'
    BY <1>2, BoundAssumption DEF CacheInv, Agreement, MPlayerKnows, PlayingIsServed, Serving,
       FillReads, worker, caches, stream, gate, others, TypeInv, TypeOK, Kinds
  <2>3. PlayingIsServed'
    BY <1>2, BoundAssumption DEF CacheInv, Agreement, MPlayerKnows, PlayingIsServed, Serving,
       FillReads, worker, caches, stream, gate, others, TypeInv, TypeOK, Kinds
  <2> QED
    BY <2>1, <2>2, <2>3 DEF CacheInv
<1>3. CASE FillIdles
  <2>1. Agreement'
    BY <1>3, BoundAssumption DEF CacheInv, Agreement, MPlayerKnows, PlayingIsServed, Serving,
       FillIdles, worker, caches, stream, gate, others, TypeInv, TypeOK, Kinds
  <2>2. MPlayerKnows'
    BY <1>3, BoundAssumption DEF CacheInv, Agreement, MPlayerKnows, PlayingIsServed, Serving,
       FillIdles, worker, caches, stream, gate, others, TypeInv, TypeOK, Kinds
  <2>3. PlayingIsServed'
    BY <1>3, BoundAssumption DEF CacheInv, Agreement, MPlayerKnows, PlayingIsServed, Serving,
       FillIdles, worker, caches, stream, gate, others, TypeInv, TypeOK, Kinds
  <2> QED
    BY <2>1, <2>2, <2>3 DEF CacheInv
<1>4. CASE ReadReturns
  <2>1. Agreement'
    BY <1>4, BoundAssumption DEF CacheInv, Agreement, MPlayerKnows, PlayingIsServed, Serving,
       ReadReturns, worker, caches, stream, gate, others, TypeInv, TypeOK, Kinds
  <2>2. MPlayerKnows'
    BY <1>4, BoundAssumption DEF CacheInv, Agreement, MPlayerKnows, PlayingIsServed, Serving,
       ReadReturns, worker, caches, stream, gate, others, TypeInv, TypeOK, Kinds
  <2>3. PlayingIsServed'
    BY <1>4, BoundAssumption DEF CacheInv, Agreement, MPlayerKnows, PlayingIsServed, Serving,
       ReadReturns, worker, caches, stream, gate, others, TypeInv, TypeOK, Kinds
  <2> QED
    BY <2>1, <2>2, <2>3 DEF CacheInv
<1>5. CASE ReadIsCancelled
  <2>1. Agreement'
    BY <1>5, BoundAssumption DEF CacheInv, Agreement, MPlayerKnows, PlayingIsServed, Serving,
       ReadIsCancelled, worker, caches, stream, gate, others, TypeInv, TypeOK, Kinds
  <2>2. MPlayerKnows'
    BY <1>5, BoundAssumption DEF CacheInv, Agreement, MPlayerKnows, PlayingIsServed, Serving,
       ReadIsCancelled, worker, caches, stream, gate, others, TypeInv, TypeOK, Kinds
  <2>3. PlayingIsServed'
    BY <1>5, BoundAssumption DEF CacheInv, Agreement, MPlayerKnows, PlayingIsServed, Serving,
       ReadIsCancelled, worker, caches, stream, gate, others, TypeInv, TypeOK, Kinds
  <2> QED
    BY <2>1, <2>2, <2>3 DEF CacheInv
<1>6. CASE Control
  <2>1. Agreement'
    BY <1>6, BoundAssumption DEF CacheInv, Agreement, MPlayerKnows, PlayingIsServed, Serving,
       Control, worker, caches, stream, gate, others, TypeInv, TypeOK, Kinds
  <2>2. MPlayerKnows'
    BY <1>6, BoundAssumption DEF CacheInv, Agreement, MPlayerKnows, PlayingIsServed, Serving,
       Control, worker, caches, stream, gate, others, TypeInv, TypeOK, Kinds
  <2>3. PlayingIsServed'
    BY <1>6, BoundAssumption DEF CacheInv, Agreement, MPlayerKnows, PlayingIsServed, Serving,
       Control, worker, caches, stream, gate, others, TypeInv, TypeOK, Kinds
  <2> QED
    BY <2>1, <2>2, <2>3 DEF CacheInv
<1>7. CASE Suspend
  <2>1. Agreement'
    BY <1>7, BoundAssumption DEF CacheInv, Agreement, MPlayerKnows, PlayingIsServed, Serving,
       Suspend, worker, caches, stream, gate, others, TypeInv, TypeOK, Kinds
  <2>2. MPlayerKnows'
    BY <1>7, BoundAssumption DEF CacheInv, Agreement, MPlayerKnows, PlayingIsServed, Serving,
       Suspend, worker, caches, stream, gate, others, TypeInv, TypeOK, Kinds
  <2>3. PlayingIsServed'
    BY <1>7, BoundAssumption DEF CacheInv, Agreement, MPlayerKnows, PlayingIsServed, Serving,
       Suspend, worker, caches, stream, gate, others, TypeInv, TypeOK, Kinds
  <2> QED
    BY <2>1, <2>2, <2>3 DEF CacheInv
<1>8. CASE EnableStart
  <2>1. Agreement'
    BY <1>8, BoundAssumption DEF CacheInv, Agreement, MPlayerKnows, PlayingIsServed, Serving,
       EnableStart, worker, caches, stream, gate, others, Resumed, CacheThreadSuspended,
       TypeInv, TypeOK, Kinds
  <2>2. MPlayerKnows'
    BY <1>8, BoundAssumption DEF CacheInv, Agreement, MPlayerKnows, PlayingIsServed, Serving,
       EnableStart, worker, caches, stream, gate, others, Resumed, CacheThreadSuspended,
       TypeInv, TypeOK, Kinds
  <2>3. PlayingIsServed'
    BY <1>8, BoundAssumption DEF CacheInv, Agreement, MPlayerKnows, PlayingIsServed, Serving,
       EnableStart, worker, caches, stream, gate, others, Resumed, CacheThreadSuspended,
       TypeInv, TypeOK, Kinds
  <2> QED
    BY <2>1, <2>2, <2>3 DEF CacheInv
<1>9. CASE Paused
  <2>1. Agreement'
    BY <1>9, BoundAssumption DEF CacheInv, Agreement, MPlayerKnows, PlayingIsServed, Serving,
       Paused, worker, caches, stream, gate, others, CacheThreadSuspended, TypeInv, TypeOK,
       Kinds
  <2>2. MPlayerKnows'
    BY <1>9, BoundAssumption DEF CacheInv, Agreement, MPlayerKnows, PlayingIsServed, Serving,
       Paused, worker, caches, stream, gate, others, CacheThreadSuspended, TypeInv, TypeOK,
       Kinds
  <2>3. PlayingIsServed'
    BY <1>9, BoundAssumption DEF CacheInv, Agreement, MPlayerKnows, PlayingIsServed, Serving,
       Paused, worker, caches, stream, gate, others, CacheThreadSuspended, TypeInv, TypeOK,
       Kinds
  <2> QED
    BY <2>1, <2>2, <2>3 DEF CacheInv
<1>10. CASE PauseEnds
  <2>1. Agreement'
    BY <1>10, BoundAssumption DEF CacheInv, Agreement, MPlayerKnows, PlayingIsServed, Serving,
       PauseEnds, worker, caches, stream, gate, others, TypeInv, TypeOK, Kinds
  <2>2. MPlayerKnows'
    BY <1>10, BoundAssumption DEF CacheInv, Agreement, MPlayerKnows, PlayingIsServed, Serving,
       PauseEnds, worker, caches, stream, gate, others, TypeInv, TypeOK, Kinds
  <2>3. PlayingIsServed'
    BY <1>10, BoundAssumption DEF CacheInv, Agreement, MPlayerKnows, PlayingIsServed, Serving,
       PauseEnds, worker, caches, stream, gate, others, TypeInv, TypeOK, Kinds
  <2> QED
    BY <2>1, <2>2, <2>3 DEF CacheInv
<1>11. CASE FreeStream
  <2>1. Agreement'
    BY <1>11, BoundAssumption DEF CacheInv, Agreement, MPlayerKnows, PlayingIsServed, Serving,
       FreeStream, worker, caches, stream, gate, others, TypeInv, TypeOK, Kinds
  <2>2. MPlayerKnows'
    BY <1>11, BoundAssumption DEF CacheInv, Agreement, MPlayerKnows, PlayingIsServed, Serving,
       FreeStream, worker, caches, stream, gate, others, TypeInv, TypeOK, Kinds
  <2>3. PlayingIsServed'
    BY <1>11, BoundAssumption DEF CacheInv, Agreement, MPlayerKnows, PlayingIsServed, Serving,
       FreeStream, worker, caches, stream, gate, others, TypeInv, TypeOK, Kinds
  <2> QED
    BY <2>1, <2>2, <2>3 DEF CacheInv
<1>12. CASE Uninit
  <2>1. Agreement'
    BY <1>12, BoundAssumption DEF CacheInv, Agreement, MPlayerKnows, PlayingIsServed, Serving,
       Uninit, worker, caches, stream, gate, others, TypeInv, TypeOK, Kinds
  <2>2. MPlayerKnows'
    BY <1>12, BoundAssumption DEF CacheInv, Agreement, MPlayerKnows, PlayingIsServed, Serving,
       Uninit, worker, caches, stream, gate, others, TypeInv, TypeOK, Kinds
  <2>3. PlayingIsServed'
    BY <1>12, BoundAssumption DEF CacheInv, Agreement, MPlayerKnows, PlayingIsServed, Serving,
       Uninit, worker, caches, stream, gate, others, TypeInv, TypeOK, Kinds
  <2> QED
    BY <2>1, <2>2, <2>3 DEF CacheInv
<1>13. CASE UninitWaited
  <2>1. Agreement'
    BY <1>13, BoundAssumption DEF CacheInv, Agreement, MPlayerKnows, PlayingIsServed, Serving,
       UninitWaited, worker, caches, stream, gate, others, CacheThreadSuspended, TypeInv,
       TypeOK, Kinds
  <2>2. MPlayerKnows'
    BY <1>13, BoundAssumption DEF CacheInv, Agreement, MPlayerKnows, PlayingIsServed, Serving,
       UninitWaited, worker, caches, stream, gate, others, CacheThreadSuspended, TypeInv,
       TypeOK, Kinds
  <2>3. PlayingIsServed'
    BY <1>13, BoundAssumption DEF CacheInv, Agreement, MPlayerKnows, PlayingIsServed, Serving,
       UninitWaited, worker, caches, stream, gate, others, CacheThreadSuspended, TypeInv,
       TypeOK, Kinds
  <2> QED
    BY <2>1, <2>2, <2>3 DEF CacheInv
<1>14. CASE UninitFree
  <2>1. Agreement'
    BY <1>14, BoundAssumption DEF CacheInv, Agreement, MPlayerKnows, PlayingIsServed, Serving,
       UninitFree, worker, caches, stream, gate, others, Freed, TypeInv, TypeOK, Kinds
  <2>2. MPlayerKnows'
    BY <1>14, BoundAssumption DEF CacheInv, Agreement, MPlayerKnows, PlayingIsServed, Serving,
       UninitFree, worker, caches, stream, gate, others, Freed, TypeInv, TypeOK, Kinds
  <2>3. PlayingIsServed'
    BY <1>14, BoundAssumption DEF CacheInv, Agreement, MPlayerKnows, PlayingIsServed, Serving,
       UninitFree, worker, caches, stream, gate, others, Freed, TypeInv, TypeOK, Kinds
  <2> QED
    BY <2>1, <2>2, <2>3 DEF CacheInv
<1>15. CASE CloseStream
  <2>1. Agreement'
    BY <1>15, BoundAssumption DEF CacheInv, Agreement, MPlayerKnows, PlayingIsServed, Serving,
       CloseStream, worker, caches, stream, gate, others, TypeInv, TypeOK, Kinds
  <2>2. MPlayerKnows'
    BY <1>15, BoundAssumption DEF CacheInv, Agreement, MPlayerKnows, PlayingIsServed, Serving,
       CloseStream, worker, caches, stream, gate, others, TypeInv, TypeOK, Kinds
  <2>3. PlayingIsServed'
    BY <1>15, BoundAssumption DEF CacheInv, Agreement, MPlayerKnows, PlayingIsServed, Serving,
       CloseStream, worker, caches, stream, gate, others, TypeInv, TypeOK, Kinds
  <2> QED
    BY <2>1, <2>2, <2>3 DEF CacheInv
<1>16. CASE Open
  <2>1. Agreement'
    BY <1>16, BoundAssumption DEF CacheInv, Agreement, MPlayerKnows, PlayingIsServed, Serving,
       Open, worker, caches, stream, gate, others, TypeInv, TypeOK, Kinds
  <2>2. MPlayerKnows'
    BY <1>16, BoundAssumption DEF CacheInv, Agreement, MPlayerKnows, PlayingIsServed, Serving,
       Open, worker, caches, stream, gate, others, TypeInv, TypeOK, Kinds
  <2>3. PlayingIsServed'
    BY <1>16, BoundAssumption DEF CacheInv, Agreement, MPlayerKnows, PlayingIsServed, Serving,
       Open, worker, caches, stream, gate, others, TypeInv, TypeOK, Kinds
  <2> QED
    BY <2>1, <2>2, <2>3 DEF CacheInv
<1>17. CASE EnableFails
  <2>1. Agreement'
    BY <1>17, BoundAssumption DEF CacheInv, Agreement, MPlayerKnows, PlayingIsServed, Serving,
       EnableFails, worker, caches, stream, gate, others, TypeInv, TypeOK, Kinds
  <2>2. MPlayerKnows'
    BY <1>17, BoundAssumption DEF CacheInv, Agreement, MPlayerKnows, PlayingIsServed, Serving,
       EnableFails, worker, caches, stream, gate, others, TypeInv, TypeOK, Kinds
  <2>3. PlayingIsServed'
    BY <1>17, BoundAssumption DEF CacheInv, Agreement, MPlayerKnows, PlayingIsServed, Serving,
       EnableFails, worker, caches, stream, gate, others, TypeInv, TypeOK, Kinds
  <2> QED
    BY <2>1, <2>2, <2>3 DEF CacheInv
<1>18. CASE EnableAlloc
  <2>1. Agreement'
    BY <1>18, BoundAssumption DEF CacheInv, Agreement, MPlayerKnows, PlayingIsServed, Serving,
       EnableAlloc, worker, caches, stream, gate, others, TypeInv, TypeOK, Kinds
  <2>2. MPlayerKnows'
    BY <1>18, BoundAssumption DEF CacheInv, Agreement, MPlayerKnows, PlayingIsServed, Serving,
       EnableAlloc, worker, caches, stream, gate, others, TypeInv, TypeOK, Kinds
  <2>3. PlayingIsServed'
    BY <1>18, BoundAssumption DEF CacheInv, Agreement, MPlayerKnows, PlayingIsServed, Serving,
       EnableAlloc, worker, caches, stream, gate, others, TypeInv, TypeOK, Kinds
  <2> QED
    BY <2>1, <2>2, <2>3 DEF CacheInv
<1>19. CASE EnableHalf
  <2>1. Agreement'
    BY <1>19, BoundAssumption DEF CacheInv, Agreement, MPlayerKnows, PlayingIsServed, Serving,
       EnableHalf, worker, caches, stream, gate, others, TypeInv, TypeOK, Kinds
  <2>2. MPlayerKnows'
    BY <1>19, BoundAssumption DEF CacheInv, Agreement, MPlayerKnows, PlayingIsServed, Serving,
       EnableHalf, worker, caches, stream, gate, others, TypeInv, TypeOK, Kinds
  <2>3. PlayingIsServed'
    BY <1>19, BoundAssumption DEF CacheInv, Agreement, MPlayerKnows, PlayingIsServed, Serving,
       EnableHalf, worker, caches, stream, gate, others, TypeInv, TypeOK, Kinds
  <2> QED
    BY <2>1, <2>2, <2>3 DEF CacheInv
<1>20. CASE Prefilled
  <2>1. Agreement'
    BY <1>20, BoundAssumption DEF CacheInv, Agreement, MPlayerKnows, PlayingIsServed, Serving,
       Prefilled, worker, caches, stream, gate, others, TypeInv, TypeOK, Kinds
  <2>2. MPlayerKnows'
    BY <1>20, BoundAssumption DEF CacheInv, Agreement, MPlayerKnows, PlayingIsServed, Serving,
       Prefilled, worker, caches, stream, gate, others, TypeInv, TypeOK, Kinds
  <2>3. PlayingIsServed'
    BY <1>20, BoundAssumption DEF CacheInv, Agreement, MPlayerKnows, PlayingIsServed, Serving,
       Prefilled, worker, caches, stream, gate, others, TypeInv, TypeOK, Kinds
  <2> QED
    BY <2>1, <2>2, <2>3 DEF CacheInv
<1>21. CASE PrefillFails
  <2>1. Agreement'
    BY <1>21, BoundAssumption DEF CacheInv, Agreement, MPlayerKnows, PlayingIsServed, Serving,
       PrefillFails, worker, caches, stream, gate, others, TypeInv, TypeOK, Kinds
  <2>2. MPlayerKnows'
    BY <1>21, BoundAssumption DEF CacheInv, Agreement, MPlayerKnows, PlayingIsServed, Serving,
       PrefillFails, worker, caches, stream, gate, others, TypeInv, TypeOK, Kinds
  <2>3. PlayingIsServed'
    BY <1>21, BoundAssumption DEF CacheInv, Agreement, MPlayerKnows, PlayingIsServed, Serving,
       PrefillFails, worker, caches, stream, gate, others, TypeInv, TypeOK, Kinds
  <2> QED
    BY <2>1, <2>2, <2>3 DEF CacheInv
<1>22. CASE WebDAVPlaybackCacheReady
  <2>1. Agreement'
    BY <1>22, BoundAssumption DEF CacheInv, Agreement, MPlayerKnows, PlayingIsServed, Serving,
       WebDAVPlaybackCacheReady, worker, caches, stream, gate, others, TypeInv, TypeOK, Kinds
  <2>2. MPlayerKnows'
    BY <1>22, BoundAssumption DEF CacheInv, Agreement, MPlayerKnows, PlayingIsServed, Serving,
       WebDAVPlaybackCacheReady, worker, caches, stream, gate, others, TypeInv, TypeOK, Kinds
  <2>3. PlayingIsServed'
    BY <1>22, BoundAssumption DEF CacheInv, Agreement, MPlayerKnows, PlayingIsServed, Serving,
       WebDAVPlaybackCacheReady, worker, caches, stream, gate, others, TypeInv, TypeOK, Kinds
  <2> QED
    BY <2>1, <2>2, <2>3 DEF CacheInv
<1>23. CASE EndFile
  <2>1. Agreement'
    BY <1>23, BoundAssumption DEF CacheInv, Agreement, MPlayerKnows, PlayingIsServed, Serving,
       EndFile, worker, caches, stream, gate, others, TypeInv, TypeOK, Kinds
  <2>2. MPlayerKnows'
    BY <1>23, BoundAssumption DEF CacheInv, Agreement, MPlayerKnows, PlayingIsServed, Serving,
       EndFile, worker, caches, stream, gate, others, TypeInv, TypeOK, Kinds
  <2>3. PlayingIsServed'
    BY <1>23, BoundAssumption DEF CacheInv, Agreement, MPlayerKnows, PlayingIsServed, Serving,
       EndFile, worker, caches, stream, gate, others, TypeInv, TypeOK, Kinds
  <2> QED
    BY <2>1, <2>2, <2>3 DEF CacheInv
<1>24. CASE RequestEnd
  <2>1. Agreement'
    BY <1>24, BoundAssumption DEF CacheInv, Agreement, MPlayerKnows, PlayingIsServed, Serving,
       RequestEnd, worker, caches, stream, gate, others, TypeInv, TypeOK, Kinds
  <2>2. MPlayerKnows'
    BY <1>24, BoundAssumption DEF CacheInv, Agreement, MPlayerKnows, PlayingIsServed, Serving,
       RequestEnd, worker, caches, stream, gate, others, TypeInv, TypeOK, Kinds
  <2>3. PlayingIsServed'
    BY <1>24, BoundAssumption DEF CacheInv, Agreement, MPlayerKnows, PlayingIsServed, Serving,
       RequestEnd, worker, caches, stream, gate, others, TypeInv, TypeOK, Kinds
  <2> QED
    BY <2>1, <2>2, <2>3 DEF CacheInv
<1>25. CASE Pause
  <2>1. Agreement'
    BY <1>25, BoundAssumption DEF CacheInv, Agreement, MPlayerKnows, PlayingIsServed, Serving,
       Pause, worker, caches, stream, gate, others, TypeInv, TypeOK, Kinds
  <2>2. MPlayerKnows'
    BY <1>25, BoundAssumption DEF CacheInv, Agreement, MPlayerKnows, PlayingIsServed, Serving,
       Pause, worker, caches, stream, gate, others, TypeInv, TypeOK, Kinds
  <2>3. PlayingIsServed'
    BY <1>25, BoundAssumption DEF CacheInv, Agreement, MPlayerKnows, PlayingIsServed, Serving,
       Pause, worker, caches, stream, gate, others, TypeInv, TypeOK, Kinds
  <2> QED
    BY <2>1, <2>2, <2>3 DEF CacheInv
<1>26. CASE Resume
  <2>1. Agreement'
    BY <1>26, BoundAssumption DEF CacheInv, Agreement, MPlayerKnows, PlayingIsServed, Serving,
       Resume, worker, caches, stream, gate, others, Resumed, CacheThreadSuspended, TypeInv,
       TypeOK, Kinds
  <2>2. MPlayerKnows'
    BY <1>26, BoundAssumption DEF CacheInv, Agreement, MPlayerKnows, PlayingIsServed, Serving,
       Resume, worker, caches, stream, gate, others, Resumed, CacheThreadSuspended, TypeInv,
       TypeOK, Kinds
  <2>3. PlayingIsServed'
    BY <1>26, BoundAssumption DEF CacheInv, Agreement, MPlayerKnows, PlayingIsServed, Serving,
       Resume, worker, caches, stream, gate, others, Resumed, CacheThreadSuspended, TypeInv,
       TypeOK, Kinds
  <2> QED
    BY <2>1, <2>2, <2>3 DEF CacheInv
<1>27. CASE ListStart
  <2>1. Agreement'
    BY <1>27, BoundAssumption DEF CacheInv, Agreement, MPlayerKnows, PlayingIsServed, Serving,
       ListStart, worker, caches, stream, gate, others, TypeInv, TypeOK, Kinds
  <2>2. MPlayerKnows'
    BY <1>27, BoundAssumption DEF CacheInv, Agreement, MPlayerKnows, PlayingIsServed, Serving,
       ListStart, worker, caches, stream, gate, others, TypeInv, TypeOK, Kinds
  <2>3. PlayingIsServed'
    BY <1>27, BoundAssumption DEF CacheInv, Agreement, MPlayerKnows, PlayingIsServed, Serving,
       ListStart, worker, caches, stream, gate, others, TypeInv, TypeOK, Kinds
  <2> QED
    BY <2>1, <2>2, <2>3 DEF CacheInv
<1>28. CASE ListPass
  <2>1. Agreement'
    BY <1>28, BoundAssumption DEF CacheInv, Agreement, MPlayerKnows, PlayingIsServed, Serving,
       ListPass, worker, caches, stream, gate, others, TypeInv, TypeOK, Kinds
  <2>2. MPlayerKnows'
    BY <1>28, BoundAssumption DEF CacheInv, Agreement, MPlayerKnows, PlayingIsServed, Serving,
       ListPass, worker, caches, stream, gate, others, TypeInv, TypeOK, Kinds
  <2>3. PlayingIsServed'
    BY <1>28, BoundAssumption DEF CacheInv, Agreement, MPlayerKnows, PlayingIsServed, Serving,
       ListPass, worker, caches, stream, gate, others, TypeInv, TypeOK, Kinds
  <2> QED
    BY <2>1, <2>2, <2>3 DEF CacheInv
<1>29. CASE ListRead
  <2>1. Agreement'
    BY <1>29, BoundAssumption DEF CacheInv, Agreement, MPlayerKnows, PlayingIsServed, Serving,
       ListRead, worker, caches, stream, gate, others, TypeInv, TypeOK, Kinds
  <2>2. MPlayerKnows'
    BY <1>29, BoundAssumption DEF CacheInv, Agreement, MPlayerKnows, PlayingIsServed, Serving,
       ListRead, worker, caches, stream, gate, others, TypeInv, TypeOK, Kinds
  <2>3. PlayingIsServed'
    BY <1>29, BoundAssumption DEF CacheInv, Agreement, MPlayerKnows, PlayingIsServed, Serving,
       ListRead, worker, caches, stream, gate, others, TypeInv, TypeOK, Kinds
  <2> QED
    BY <2>1, <2>2, <2>3 DEF CacheInv
<1>30. CASE ListIsCancelled
  <2>1. Agreement'
    BY <1>30, BoundAssumption DEF CacheInv, Agreement, MPlayerKnows, PlayingIsServed, Serving,
       ListIsCancelled, worker, caches, stream, gate, others, TypeInv, TypeOK, Kinds
  <2>2. MPlayerKnows'
    BY <1>30, BoundAssumption DEF CacheInv, Agreement, MPlayerKnows, PlayingIsServed, Serving,
       ListIsCancelled, worker, caches, stream, gate, others, TypeInv, TypeOK, Kinds
  <2>3. PlayingIsServed'
    BY <1>30, BoundAssumption DEF CacheInv, Agreement, MPlayerKnows, PlayingIsServed, Serving,
       ListIsCancelled, worker, caches, stream, gate, others, TypeInv, TypeOK, Kinds
  <2> QED
    BY <2>1, <2>2, <2>3 DEF CacheInv
<1>31. CASE ListReport
  <2>1. Agreement'
    BY <1>31, BoundAssumption DEF CacheInv, Agreement, MPlayerKnows, PlayingIsServed, Serving,
       ListReport, worker, caches, stream, gate, others, TypeInv, TypeOK, Kinds
  <2>2. MPlayerKnows'
    BY <1>31, BoundAssumption DEF CacheInv, Agreement, MPlayerKnows, PlayingIsServed, Serving,
       ListReport, worker, caches, stream, gate, others, TypeInv, TypeOK, Kinds
  <2>3. PlayingIsServed'
    BY <1>31, BoundAssumption DEF CacheInv, Agreement, MPlayerKnows, PlayingIsServed, Serving,
       ListReport, worker, caches, stream, gate, others, TypeInv, TypeOK, Kinds
  <2> QED
    BY <2>1, <2>2, <2>3 DEF CacheInv
<1>32. CASE ThumbOpenLoad
  <2>1. Agreement'
    BY <1>32, BoundAssumption DEF CacheInv, Agreement, MPlayerKnows, PlayingIsServed, Serving,
       ThumbOpenLoad, worker, caches, stream, gate, others, TypeInv, TypeOK, Kinds
  <2>2. MPlayerKnows'
    BY <1>32, BoundAssumption DEF CacheInv, Agreement, MPlayerKnows, PlayingIsServed, Serving,
       ThumbOpenLoad, worker, caches, stream, gate, others, TypeInv, TypeOK, Kinds
  <2>3. PlayingIsServed'
    BY <1>32, BoundAssumption DEF CacheInv, Agreement, MPlayerKnows, PlayingIsServed, Serving,
       ThumbOpenLoad, worker, caches, stream, gate, others, TypeInv, TypeOK, Kinds
  <2> QED
    BY <2>1, <2>2, <2>3 DEF CacheInv
<1>33. CASE ThumbOpenStore
  <2>1. Agreement'
    BY <1>33, BoundAssumption DEF CacheInv, Agreement, MPlayerKnows, PlayingIsServed, Serving,
       ThumbOpenStore, worker, caches, stream, gate, others, TypeInv, TypeOK, Kinds
  <2>2. MPlayerKnows'
    BY <1>33, BoundAssumption DEF CacheInv, Agreement, MPlayerKnows, PlayingIsServed, Serving,
       ThumbOpenStore, worker, caches, stream, gate, others, TypeInv, TypeOK, Kinds
  <2>3. PlayingIsServed'
    BY <1>33, BoundAssumption DEF CacheInv, Agreement, MPlayerKnows, PlayingIsServed, Serving,
       ThumbOpenStore, worker, caches, stream, gate, others, TypeInv, TypeOK, Kinds
  <2> QED
    BY <2>1, <2>2, <2>3 DEF CacheInv
<1>34. CASE ThumbCloseLoad
  <2>1. Agreement'
    BY <1>34, BoundAssumption DEF CacheInv, Agreement, MPlayerKnows, PlayingIsServed, Serving,
       ThumbCloseLoad, worker, caches, stream, gate, others, TypeInv, TypeOK, Kinds
  <2>2. MPlayerKnows'
    BY <1>34, BoundAssumption DEF CacheInv, Agreement, MPlayerKnows, PlayingIsServed, Serving,
       ThumbCloseLoad, worker, caches, stream, gate, others, TypeInv, TypeOK, Kinds
  <2>3. PlayingIsServed'
    BY <1>34, BoundAssumption DEF CacheInv, Agreement, MPlayerKnows, PlayingIsServed, Serving,
       ThumbCloseLoad, worker, caches, stream, gate, others, TypeInv, TypeOK, Kinds
  <2> QED
    BY <2>1, <2>2, <2>3 DEF CacheInv
<1>35. CASE ThumbCloseStore
  <2>1. Agreement'
    BY <1>35, BoundAssumption DEF CacheInv, Agreement, MPlayerKnows, PlayingIsServed, Serving,
       ThumbCloseStore, worker, caches, stream, gate, others, TypeInv, TypeOK, Kinds
  <2>2. MPlayerKnows'
    BY <1>35, BoundAssumption DEF CacheInv, Agreement, MPlayerKnows, PlayingIsServed, Serving,
       ThumbCloseStore, worker, caches, stream, gate, others, TypeInv, TypeOK, Kinds
  <2>3. PlayingIsServed'
    BY <1>35, BoundAssumption DEF CacheInv, Agreement, MPlayerKnows, PlayingIsServed, Serving,
       ThumbCloseStore, worker, caches, stream, gate, others, TypeInv, TypeOK, Kinds
  <2> QED
    BY <2>1, <2>2, <2>3 DEF CacheInv
<1>36. CASE ThumbCloseTest
  <2>1. Agreement'
    BY <1>36, BoundAssumption DEF CacheInv, Agreement, MPlayerKnows, PlayingIsServed, Serving,
       ThumbCloseTest, worker, caches, stream, gate, others, TypeInv, TypeOK, Kinds
  <2>2. MPlayerKnows'
    BY <1>36, BoundAssumption DEF CacheInv, Agreement, MPlayerKnows, PlayingIsServed, Serving,
       ThumbCloseTest, worker, caches, stream, gate, others, TypeInv, TypeOK, Kinds
  <2>3. PlayingIsServed'
    BY <1>36, BoundAssumption DEF CacheInv, Agreement, MPlayerKnows, PlayingIsServed, Serving,
       ThumbCloseTest, worker, caches, stream, gate, others, TypeInv, TypeOK, Kinds
  <2> QED
    BY <2>1, <2>2, <2>3 DEF CacheInv
<1>37. CASE ThumbClosed
  <2>1. Agreement'
    BY <1>37, BoundAssumption DEF CacheInv, Agreement, MPlayerKnows, PlayingIsServed, Serving,
       ThumbClosed, worker, caches, stream, gate, others, TypeInv, TypeOK, Kinds
  <2>2. MPlayerKnows'
    BY <1>37, BoundAssumption DEF CacheInv, Agreement, MPlayerKnows, PlayingIsServed, Serving,
       ThumbClosed, worker, caches, stream, gate, others, TypeInv, TypeOK, Kinds
  <2>3. PlayingIsServed'
    BY <1>37, BoundAssumption DEF CacheInv, Agreement, MPlayerKnows, PlayingIsServed, Serving,
       ThumbClosed, worker, caches, stream, gate, others, TypeInv, TypeOK, Kinds
  <2> QED
    BY <2>1, <2>2, <2>3 DEF CacheInv
<1>38. CASE ThumbNotReady
  <2>1. Agreement'
    BY <1>38, BoundAssumption DEF CacheInv, Agreement, MPlayerKnows, PlayingIsServed, Serving,
       ThumbNotReady, worker, caches, stream, gate, others, TypeInv, TypeOK, Kinds
  <2>2. MPlayerKnows'
    BY <1>38, BoundAssumption DEF CacheInv, Agreement, MPlayerKnows, PlayingIsServed, Serving,
       ThumbNotReady, worker, caches, stream, gate, others, TypeInv, TypeOK, Kinds
  <2>3. PlayingIsServed'
    BY <1>38, BoundAssumption DEF CacheInv, Agreement, MPlayerKnows, PlayingIsServed, Serving,
       ThumbNotReady, worker, caches, stream, gate, others, TypeInv, TypeOK, Kinds
  <2> QED
    BY <2>1, <2>2, <2>3 DEF CacheInv
<1>39. CASE UNCHANGED vars
  BY <1>39 DEF CacheInv, Agreement, MPlayerKnows, PlayingIsServed, Serving, worker, caches,
     stream, gate, others, vars
<1> QED
  BY <1>1, <1>2, <1>3, <1>4, <1>5, <1>6, <1>7, <1>8, <1>9, <1>10, <1>11, <1>12, <1>13, <1>14,
     <1>15, <1>16, <1>17, <1>18, <1>19, <1>20, <1>21, <1>22, <1>23, <1>24, <1>25, <1>26, <1>27,
     <1>28, <1>29, <1>30, <1>31, <1>32, <1>33, <1>34, <1>35, <1>36, <1>37, <1>38, <1>39
     DEF Next, WorkerStep, MPlayerStep

\* The cache's owner and its worker agree at every moment.
THEOREM CacheInvariance == Spec => [](TypeInv /\ CacheInv)
<1>1. Init => TypeInv
  BY BoundAssumption DEF Init, TypeInv, TypeOK, Caches, Kinds
<1>2. Init => CacheInv
  BY DEF Init, CacheInv, Agreement, MPlayerKnows, PlayingIsServed, Serving
<1> QED
  BY <1>1, <1>2, TypesNext, CacheNext, PTL DEF Spec

\* cache_uninit() never frees what ThreadProc is working on.
THEOREM Safe == Spec => []NoUseAfterFree
<1>1. TypeInv /\ CacheInv => NoUseAfterFree
  BY DEF TypeInv, TypeOK, CacheInv, Agreement, MPlayerKnows, NoUseAfterFree, Serving
<1> QED
  BY <1>1, CacheInvariance, PTL

\* Whoever plays from a cache is served, through pauses and failed prefills.
THEOREM Served == Spec => []PlayingIsServed
  BY CacheInvariance, PTL DEF CacheInv

\* The shared variables and both threads' states keep their types.
THEOREM CacheTypes == Spec => []TypeOK
  BY CacheInvariance, PTL DEF TypeInv

\* A fill status, and a worker that may park, belong to what the owner did.
LEMMA FillNext ==
  TypeInv /\ CacheInv /\ FillInv /\ [Next]_vars => FillInv'
<1> SUFFICES ASSUME TypeInv, CacheInv, FillInv, [Next]_vars PROVE FillInv'
  OBVIOUS
<1> USE DEF FillInv
<1>1. CASE WorkerStep
  <2>1. cachearg # 0 <=> cache_pid = 1
    BY DEF CacheInv, Agreement
  <2>2. Serving => cache_pid = 1
    BY DEF CacheInv, Agreement
  <2>3. CASE Wake
    BY <2>1, <2>3 DEF Wake, stream
  <2>4. CASE FillReads \/ FillIdles \/ ReadReturns \/ ReadIsCancelled
    BY <2>2, <2>4 DEF FillReads, FillIdles, ReadReturns, ReadIsCancelled, Serving, stream
  <2>5. CASE Control \/ Suspend
    BY <2>5 DEF Control, Suspend, TypeInv, TypeOK, stream
  <2> QED
    BY <1>1, <2>3, <2>4, <2>5 DEF WorkerStep
<1>2. CASE EnableStart
  BY <1>2 DEF EnableStart, Resumed, CacheThreadSuspended
<1>3. CASE Resume
  BY <1>3 DEF Resume, Resumed, CacheThreadSuspended, CacheInv, MPlayerKnows, stream
<1>4. CASE Open \/ EnableFails \/ EnableAlloc \/ EnableHalf \/ Prefilled \/ PrefillFails
  BY <1>4 DEF Open, EnableFails, EnableAlloc, EnableHalf, Prefilled, PrefillFails, stream, worker
<1>5. CASE WebDAVPlaybackCacheReady \/ EndFile \/ RequestEnd \/ Pause \/ Paused \/ PauseEnds
  BY <1>5 DEF WebDAVPlaybackCacheReady, EndFile, RequestEnd, Pause, Paused, PauseEnds, stream,
     worker
<1>6. CASE FreeStream \/ Uninit \/ UninitWaited \/ UninitFree \/ CloseStream
  BY <1>6 DEF FreeStream, Uninit, UninitWaited, UninitFree, Freed, CloseStream, stream, worker
<1>7. CASE ListStart \/ ListPass \/ ListRead \/ ListIsCancelled \/ ListReport
  BY <1>7 DEF ListStart, ListPass, ListRead, ListIsCancelled, ListReport, stream, worker
<1>8. CASE \/ ThumbOpenLoad \/ ThumbOpenStore \/ ThumbCloseTest \/ ThumbCloseLoad
           \/ ThumbCloseStore \/ ThumbClosed \/ ThumbNotReady
  BY <1>8 DEF ThumbOpenLoad, ThumbOpenStore, ThumbCloseTest, ThumbCloseLoad, ThumbCloseStore,
     ThumbClosed, ThumbNotReady, stream, worker
<1>9. CASE UNCHANGED vars
  BY <1>9 DEF vars, stream, worker
<1> QED
  BY <1>1, <1>2, <1>3, <1>4, <1>5, <1>6, <1>7, <1>8, <1>9 DEF Next, MPlayerStep

\* wait_for_audio_priority() never waits for a worker that is gone.
THEOREM GateServed == Spec => []GateHasFiller
<1>1. Init => FillInv
  BY DEF Init, FillInv
<1>2. FillInv => GateHasFiller
  BY DEF FillInv, GateHasFiller, AudioFirst
<1> QED
  BY <1>1, <1>2, FillNext, CacheInvariance, PTL DEF Spec
=============================================================================
