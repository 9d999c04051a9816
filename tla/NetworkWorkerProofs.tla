------------------------- MODULE NetworkWorkerProofs -------------------------
(***************************************************************************)
(* Proofs for NetworkWorker, for any number of threads and leases.  First  *)
(* the types, with the count of attempts that keeps retry natural; then    *)
(* WorkerInv, one action at a time.                                        *)
(***************************************************************************)
EXTENDS NetworkWorker, TLAPS

\* An attempt is made only while there are attempts left.
Attempts == \A t \in Threads : wpc[t] = "config" => retry[t] > 0

TypeInv == TypeOK /\ Attempts

\* Every action keeps the types, and retry above zero inside if_config().
LEMMA TypesInit ==
  Init => TypeInv
<1>1. Init => FlagsOK
  BY Zenon DEF Init, FlagsOK
<1> QED
  BY <1>1, BoundAssumption DEF Init, TypeInv, TypeOK, Attempts, Threads, Retries, WorkerStates,
     MenuStates

\* Every step keeps the types.
LEMMA TypesNext ==
  TypeInv /\ [Next]_vars => TypeInv'
<1> SUFFICES ASSUME TypeInv, [Next]_vars PROVE TypeInv'
  OBVIOUS
<1>1. ASSUME NEW t \in Threads, Outer(t) PROVE TypeInv'
  <2>1. FlagsOK'
    BY <1>1, Zenon DEF TypeInv, TypeOK, FlagsOK, flags, result, worker, menu, Outer
  <2>2. TypeOK'
    BY <1>1, <2>1, BoundAssumption DEF TypeInv, TypeOK, Attempts, Threads, Retries,
       WorkerStates, MenuStates, flags, result, worker, menu, Outer, Go
  <2>3. Attempts'
    BY <1>1, BoundAssumption DEF TypeInv, TypeOK, Attempts, Threads, Retries, WorkerStates,
       MenuStates, flags, result, worker, menu, Outer, Go
  <2> QED
    BY <2>2, <2>3 DEF TypeInv
<1>2. ASSUME NEW t \in Threads, Inner(t) PROVE TypeInv'
  <2>1. FlagsOK'
    BY <1>2, Zenon DEF TypeInv, TypeOK, FlagsOK, flags, result, worker, menu, Inner
  <2>2. TypeOK'
    BY <1>2, <2>1, BoundAssumption DEF TypeInv, TypeOK, Attempts, Threads, Retries,
       WorkerStates, MenuStates, flags, result, worker, menu, Inner, Go
  <2>3. Attempts'
    BY <1>2, BoundAssumption DEF TypeInv, TypeOK, Attempts, Threads, Retries, WorkerStates,
       MenuStates, flags, result, worker, menu, Inner, Go
  <2> QED
    BY <2>2, <2>3 DEF TypeInv
<1>3. ASSUME NEW t \in Threads, ConfigReturns(t) PROVE TypeInv'
  <2>1. FlagsOK'
    BY <1>3, Zenon DEF TypeInv, TypeOK, FlagsOK, flags, result, worker, menu, ConfigReturns,
       UsableAddress
  <2>2. TypeOK'
    BY SMTT(30), <1>3, <2>1, BoundAssumption DEF TypeInv, TypeOK, Attempts, Threads, Retries,
       WorkerStates, MenuStates, flags, result, worker, menu, ConfigReturns, Go, UsableAddress
  <2>3. Attempts'
    BY <1>3, BoundAssumption DEF TypeInv, TypeOK, Attempts, Threads, Retries, WorkerStates,
       MenuStates, flags, result, worker, menu, ConfigReturns, Go, UsableAddress
  <2> QED
    BY <2>2, <2>3 DEF TypeInv
<1>4. ASSUME NEW t \in Threads, ConfigFails(t) PROVE TypeInv'
  <2>1. FlagsOK'
    BY <1>4, Zenon DEF TypeInv, TypeOK, FlagsOK, flags, result, worker, menu, ConfigFails
  <2>2. TypeOK'
    BY <1>4, <2>1, BoundAssumption DEF TypeInv, TypeOK, Attempts, Threads, Retries,
       WorkerStates, MenuStates, flags, result, worker, menu, ConfigFails, Go
  <2>3. Attempts'
    BY <1>4, BoundAssumption DEF TypeInv, TypeOK, Attempts, Threads, Retries, WorkerStates,
       MenuStates, flags, result, worker, menu, ConfigFails, Go
  <2> QED
    BY <2>2, <2>3 DEF TypeInv
<1>5. ASSUME NEW t \in Threads, Sleep(t) PROVE TypeInv'
  <2>1. FlagsOK'
    BY <1>5, Zenon DEF TypeInv, TypeOK, FlagsOK, flags, result, worker, menu, Sleep
  <2>2. TypeOK'
    BY <1>5, <2>1, BoundAssumption DEF TypeInv, TypeOK, Attempts, Threads, Retries,
       WorkerStates, MenuStates, flags, result, worker, menu, Sleep, Go
  <2>3. Attempts'
    BY <1>5, BoundAssumption DEF TypeInv, TypeOK, Attempts, Threads, Retries, WorkerStates,
       MenuStates, flags, result, worker, menu, Sleep, Go
  <2> QED
    BY <2>2, <2>3 DEF TypeInv
<1>6. ASSUME NEW t \in Threads, PublishAddress(t) PROVE TypeInv'
  <2>1. FlagsOK'
    BY <1>6, Zenon DEF TypeInv, TypeOK, FlagsOK, flags, result, worker, menu, PublishAddress
  <2>2. TypeOK'
    BY <1>6, <2>1, BoundAssumption DEF TypeInv, TypeOK, Attempts, Threads, Retries,
       WorkerStates, MenuStates, flags, result, worker, menu, PublishAddress, Go
  <2>3. Attempts'
    BY <1>6, BoundAssumption DEF TypeInv, TypeOK, Attempts, Threads, Retries, WorkerStates,
       MenuStates, flags, result, worker, menu, PublishAddress, Go
  <2> QED
    BY <2>2, <2>3 DEF TypeInv
<1>7. ASSUME NEW t \in Threads, PublishResolver(t) PROVE TypeInv'
  <2>1. FlagsOK'
    BY <1>7, Zenon DEF TypeInv, TypeOK, FlagsOK, flags, result, worker, menu, PublishResolver
  <2>2. TypeOK'
    BY <1>7, <2>1, BoundAssumption DEF TypeInv, TypeOK, Attempts, Threads, Retries,
       WorkerStates, MenuStates, flags, result, worker, menu, PublishResolver, Go
  <2>3. Attempts'
    BY <1>7, BoundAssumption DEF TypeInv, TypeOK, Attempts, Threads, Retries, WorkerStates,
       MenuStates, flags, result, worker, menu, PublishResolver, Go
  <2> QED
    BY <2>2, <2>3 DEF TypeInv
<1>8. ASSUME NEW t \in Threads, PublishInit(t) PROVE TypeInv'
  <2>1. FlagsOK'
    BY <1>8, Zenon DEF TypeInv, TypeOK, FlagsOK, flags, result, worker, menu, PublishInit
  <2>2. TypeOK'
    BY <1>8, <2>1, BoundAssumption DEF TypeInv, TypeOK, Attempts, Threads, Retries,
       WorkerStates, MenuStates, flags, result, worker, menu, PublishInit, Go
  <2>3. Attempts'
    BY <1>8, BoundAssumption DEF TypeInv, TypeOK, Attempts, Threads, Retries, WorkerStates,
       MenuStates, flags, result, worker, menu, PublishInit, Go
  <2> QED
    BY <2>2, <2>3 DEF TypeInv
<1>9. ASSUME NEW t \in Threads, Park(t) PROVE TypeInv'
  <2>1. FlagsOK'
    BY <1>9, Zenon DEF TypeInv, TypeOK, FlagsOK, flags, result, worker, menu, Park
  <2>2. TypeOK'
    BY <1>9, <2>1, BoundAssumption DEF TypeInv, TypeOK, Attempts, Threads, Retries,
       WorkerStates, MenuStates, flags, result, worker, menu, Park, Go
  <2>3. Attempts'
    BY <1>9, BoundAssumption DEF TypeInv, TypeOK, Attempts, Threads, Retries, WorkerStates,
       MenuStates, flags, result, worker, menu, Park, Go
  <2> QED
    BY <2>2, <2>3 DEF TypeInv
<1>10. ASSUME NEW t \in Threads, Suspend(t) PROVE TypeInv'
  <2>1. FlagsOK'
    BY <1>10, Zenon DEF TypeInv, TypeOK, FlagsOK, flags, result, worker, menu, Suspend
  <2>2. TypeOK'
    BY <1>10, <2>1, BoundAssumption DEF TypeInv, TypeOK, Attempts, Threads, Retries,
       WorkerStates, MenuStates, flags, result, worker, menu, Suspend
  <2>3. Attempts'
    BY <1>10, BoundAssumption DEF TypeInv, TypeOK, Attempts, Threads, Retries, WorkerStates,
       MenuStates, flags, result, worker, menu, Suspend
  <2> QED
    BY <2>2, <2>3 DEF TypeInv
<1>11. ASSUME NEW t \in Threads, Exit(t) PROVE TypeInv'
  <2>1. FlagsOK'
    BY <1>11, Zenon DEF TypeInv, TypeOK, FlagsOK, flags, result, worker, menu, Exit
  <2>2. TypeOK'
    BY <1>11, <2>1, BoundAssumption DEF TypeInv, TypeOK, Attempts, Threads, Retries,
       WorkerStates, MenuStates, flags, result, worker, menu, Exit, Go
  <2>3. Attempts'
    BY <1>11, BoundAssumption DEF TypeInv, TypeOK, Attempts, Threads, Retries, WorkerStates,
       MenuStates, flags, result, worker, menu, Exit, Go
  <2> QED
    BY <2>2, <2>3 DEF TypeInv
<1>12. CASE StopExited
  <2>1. FlagsOK'
    BY <1>12, Zenon DEF TypeInv, TypeOK, FlagsOK, flags, result, worker, menu, StopExited
  <2>2. TypeOK'
    BY <1>12, <2>1, BoundAssumption DEF TypeInv, TypeOK, Attempts, Threads, Retries,
       WorkerStates, MenuStates, flags, result, worker, menu, StopExited
  <2>3. Attempts'
    BY <1>12, BoundAssumption DEF TypeInv, TypeOK, Attempts, Threads, Retries, WorkerStates,
       MenuStates, flags, result, worker, menu, StopExited
  <2> QED
    BY <2>2, <2>3 DEF TypeInv
<1>13. CASE StopTimeout
  <2>1. FlagsOK'
    BY <1>13, Zenon DEF TypeInv, TypeOK, FlagsOK, flags, result, worker, menu, StopTimeout
  <2>2. TypeOK'
    BY <1>13, <2>1, BoundAssumption DEF TypeInv, TypeOK, Attempts, Threads, Retries,
       WorkerStates, MenuStates, flags, result, worker, menu, StopTimeout, Unresponsive
  <2>3. Attempts'
    BY <1>13, BoundAssumption DEF TypeInv, TypeOK, Attempts, Threads, Retries, WorkerStates,
       MenuStates, flags, result, worker, menu, StopTimeout, Unresponsive
  <2> QED
    BY <2>2, <2>3 DEF TypeInv
<1>14. CASE BootEnter
  <2>1. FlagsOK'
    BY <1>14, Zenon DEF TypeInv, TypeOK, FlagsOK, flags, result, worker, menu, BootEnter
  <2>2. TypeOK'
    BY <1>14, <2>1, BoundAssumption DEF TypeInv, TypeOK, Attempts, Threads, Retries,
       WorkerStates, MenuStates, flags, result, worker, menu, BootEnter
  <2>3. Attempts'
    BY <1>14, BoundAssumption DEF TypeInv, TypeOK, Attempts, Threads, Retries, WorkerStates,
       MenuStates, flags, result, worker, menu, BootEnter
  <2> QED
    BY <2>2, <2>3 DEF TypeInv
<1>15. CASE BootStart
  <2>1. FlagsOK'
    BY <1>15, Zenon DEF TypeInv, TypeOK, FlagsOK, flags, result, worker, menu, BootStart,
       StartNetworkThread, CreateThread, MustRefuse
  <2>2. TypeOK'
    BY <1>15, <2>1, BoundAssumption DEF TypeInv, TypeOK, Attempts, Threads, Retries,
       WorkerStates, MenuStates, flags, result, worker, menu, BootStart, StartNetworkThread,
       CreateThread, MustRefuse, Resumed, Suspended
  <2>3. Attempts'
    BY <1>15, BoundAssumption DEF TypeInv, TypeOK, Attempts, Threads, Retries, WorkerStates,
       MenuStates, flags, result, worker, menu, BootStart, StartNetworkThread, CreateThread,
       MustRefuse, Resumed, Suspended
  <2> QED
    BY <2>2, <2>3 DEF TypeInv
<1>16. CASE BootWake
  <2>1. FlagsOK'
    BY <1>16, Zenon DEF TypeInv, TypeOK, FlagsOK, flags, result, worker, menu, BootWake
  <2>2. TypeOK'
    BY <1>16, <2>1, BoundAssumption DEF TypeInv, TypeOK, Attempts, Threads, Retries,
       WorkerStates, MenuStates, flags, result, worker, menu, BootWake
  <2>3. Attempts'
    BY <1>16, BoundAssumption DEF TypeInv, TypeOK, Attempts, Threads, Retries, WorkerStates,
       MenuStates, flags, result, worker, menu, BootWake
  <2> QED
    BY <2>2, <2>3 DEF TypeInv
<1>17. CASE BootTimeout
  <2>1. FlagsOK'
    BY <1>17, Zenon DEF TypeInv, TypeOK, FlagsOK, flags, result, worker, menu, BootTimeout
  <2>2. TypeOK'
    BY <1>17, <2>1, BoundAssumption DEF TypeInv, TypeOK, Attempts, Threads, Retries,
       WorkerStates, MenuStates, flags, result, worker, menu, BootTimeout
  <2>3. Attempts'
    BY <1>17, BoundAssumption DEF TypeInv, TypeOK, Attempts, Threads, Retries, WorkerStates,
       MenuStates, flags, result, worker, menu, BootTimeout
  <2> QED
    BY <2>2, <2>3 DEF TypeInv
<1>18. CASE BootCheck
  <2>1. FlagsOK'
    BY <1>18, Zenon DEF TypeInv, TypeOK, FlagsOK, flags, result, worker, menu, BootCheck,
       StopNetworkThread
  <2>2. TypeOK'
    BY <1>18, <2>1, BoundAssumption DEF TypeInv, TypeOK, Attempts, Threads, Retries,
       WorkerStates, MenuStates, flags, result, worker, menu, BootCheck, StopNetworkThread,
       Resumed, Suspended
  <2>3. Attempts'
    BY <1>18, BoundAssumption DEF TypeInv, TypeOK, Attempts, Threads, Retries, WorkerStates,
       MenuStates, flags, result, worker, menu, BootCheck, StopNetworkThread, Resumed, Suspended
  <2> QED
    BY <2>2, <2>3 DEF TypeInv
<1>19. CASE BootPrompt
  <2>1. FlagsOK'
    BY <1>19, Zenon DEF TypeInv, TypeOK, FlagsOK, flags, result, worker, menu, BootPrompt
  <2>2. TypeOK'
    BY <1>19, <2>1, BoundAssumption DEF TypeInv, TypeOK, Attempts, Threads, Retries,
       WorkerStates, MenuStates, flags, result, worker, menu, BootPrompt
  <2>3. Attempts'
    BY <1>19, BoundAssumption DEF TypeInv, TypeOK, Attempts, Threads, Retries, WorkerStates,
       MenuStates, flags, result, worker, menu, BootPrompt
  <2> QED
    BY <2>2, <2>3 DEF TypeInv
<1>20. CASE BootEnd
  <2>1. FlagsOK'
    BY <1>20, Zenon DEF TypeInv, TypeOK, FlagsOK, flags, result, worker, menu, BootEnd,
       StopNetworkThread
  <2>2. TypeOK'
    BY <1>20, <2>1, BoundAssumption DEF TypeInv, TypeOK, Attempts, Threads, Retries,
       WorkerStates, MenuStates, flags, result, worker, menu, BootEnd, StopNetworkThread,
       Resumed, Suspended
  <2>3. Attempts'
    BY <1>20, BoundAssumption DEF TypeInv, TypeOK, Attempts, Threads, Retries, WorkerStates,
       MenuStates, flags, result, worker, menu, BootEnd, StopNetworkThread, Resumed, Suspended
  <2> QED
    BY <2>2, <2>3 DEF TypeInv
<1>21. CASE InitEnter
  <2>1. FlagsOK'
    BY <1>21, Zenon DEF TypeInv, TypeOK, FlagsOK, flags, result, worker, menu, InitEnter,
       StartNetworkThread, CreateThread, MustRefuse
  <2>2. TypeOK'
    BY <1>21, <2>1, BoundAssumption DEF TypeInv, TypeOK, Attempts, Threads, Retries,
       WorkerStates, MenuStates, flags, result, worker, menu, InitEnter, StartNetworkThread,
       CreateThread, MustRefuse, Resumed, Suspended
  <2>3. Attempts'
    BY <1>21, BoundAssumption DEF TypeInv, TypeOK, Attempts, Threads, Retries, WorkerStates,
       MenuStates, flags, result, worker, menu, InitEnter, StartNetworkThread, CreateThread,
       MustRefuse, Resumed, Suspended
  <2> QED
    BY <2>2, <2>3 DEF TypeInv
<1>22. CASE InitWake
  <2>1. FlagsOK'
    BY <1>22, Zenon DEF TypeInv, TypeOK, FlagsOK, flags, result, worker, menu, InitWake,
       StopNetworkThread
  <2>2. TypeOK'
    BY <1>22, <2>1, BoundAssumption DEF TypeInv, TypeOK, Attempts, Threads, Retries,
       WorkerStates, MenuStates, flags, result, worker, menu, InitWake, StopNetworkThread,
       Resumed, Suspended
  <2>3. Attempts'
    BY <1>22, BoundAssumption DEF TypeInv, TypeOK, Attempts, Threads, Retries, WorkerStates,
       MenuStates, flags, result, worker, menu, InitWake, StopNetworkThread, Resumed, Suspended
  <2> QED
    BY <2>2, <2>3 DEF TypeInv
<1>23. CASE Cancel
  <2>1. FlagsOK'
    BY <1>23, Zenon DEF TypeInv, TypeOK, FlagsOK, flags, result, worker, menu, Cancel
  <2>2. TypeOK'
    BY <1>23, <2>1, BoundAssumption DEF TypeInv, TypeOK, Attempts, Threads, Retries,
       WorkerStates, MenuStates, flags, result, worker, menu, Cancel
  <2>3. Attempts'
    BY <1>23, BoundAssumption DEF TypeInv, TypeOK, Attempts, Threads, Retries, WorkerStates,
       MenuStates, flags, result, worker, menu, Cancel
  <2> QED
    BY <2>2, <2>3 DEF TypeInv
<1>24. CASE CheckMplayerNetwork
  <2>1. FlagsOK'
    BY <1>24, Zenon DEF TypeInv, TypeOK, FlagsOK, flags, result, worker, menu, CheckMplayerNetwork
  <2>2. TypeOK'
    BY <1>24, <2>1, BoundAssumption DEF TypeInv, TypeOK, Attempts, Threads, Retries,
       WorkerStates, MenuStates, flags, result, worker, menu, CheckMplayerNetwork
  <2>3. Attempts'
    BY <1>24, BoundAssumption DEF TypeInv, TypeOK, Attempts, Threads, Retries, WorkerStates,
       MenuStates, flags, result, worker, menu, CheckMplayerNetwork
  <2> QED
    BY <2>2, <2>3 DEF TypeInv
<1>25. CASE RequestExit
  <2>1. FlagsOK'
    BY <1>25, Zenon DEF TypeInv, TypeOK, FlagsOK, flags, result, worker, menu, RequestExit
  <2>2. TypeOK'
    BY <1>25, <2>1, BoundAssumption DEF TypeInv, TypeOK, Attempts, Threads, Retries,
       WorkerStates, MenuStates, flags, result, worker, menu, RequestExit
  <2>3. Attempts'
    BY <1>25, BoundAssumption DEF TypeInv, TypeOK, Attempts, Threads, Retries, WorkerStates,
       MenuStates, flags, result, worker, menu, RequestExit
  <2> QED
    BY <2>2, <2>3 DEF TypeInv
<1>26. CASE Shutdown
  <2>1. FlagsOK'
    BY <1>26, Zenon DEF TypeInv, TypeOK, FlagsOK, flags, result, worker, menu, Shutdown
  <2>2. TypeOK'
    BY <1>26, <2>1, BoundAssumption DEF TypeInv, TypeOK, Attempts, Threads, Retries,
       WorkerStates, MenuStates, flags, result, worker, menu, Shutdown
  <2>3. Attempts'
    BY <1>26, BoundAssumption DEF TypeInv, TypeOK, Attempts, Threads, Retries, WorkerStates,
       MenuStates, flags, result, worker, menu, Shutdown
  <2> QED
    BY <2>2, <2>3 DEF TypeInv
<1>27. CASE Off
  <2>1. FlagsOK'
    BY <1>27, Zenon DEF TypeInv, TypeOK, FlagsOK, flags, result, worker, menu, Off, vars
  <2>2. TypeOK'
    BY <1>27, <2>1, BoundAssumption DEF TypeInv, TypeOK, Attempts, Threads, Retries,
       WorkerStates, MenuStates, flags, result, worker, menu, Off, vars
  <2>3. Attempts'
    BY <1>27, BoundAssumption DEF TypeInv, TypeOK, Attempts, Threads, Retries, WorkerStates,
       MenuStates, flags, result, worker, menu, Off, vars
  <2> QED
    BY <2>2, <2>3 DEF TypeInv
<1>28. CASE UNCHANGED vars
  BY <1>28 DEF FlagsOK, TypeInv, TypeOK, Attempts, Threads, Retries, WorkerStates, MenuStates,
     vars, flags, result, worker, menu
<1> QED
  BY <1>1, <1>2, <1>3, <1>4, <1>5, <1>6, <1>7, <1>8, <1>9, <1>10, <1>11, <1>12, <1>13, <1>14,
     <1>15, <1>16, <1>17, <1>18, <1>19, <1>20, <1>21, <1>22, <1>23, <1>24, <1>25, <1>26, <1>27,
     <1>28 DEF Next, WorkerStep, MenuStep

\* A start leaves netThreadExited set only when no thread runs.
LEMMA StartExited ==
  ASSUME WorkerIsTheHandle, ExitedIsGone, MaxWorkers \in Nat, networkthread \in 0 .. MaxWorkers,
         wpc \in [Threads -> WorkerStates], StartNetworkThread
  PROVE  ExitedIsGone'
<1>1. CASE MustRefuse
  BY <1>1 DEF StartNetworkThread, flags, ExitedIsGone, Alive
<1>2. CASE ~MustRefuse /\ (netThreadAbandoned \/ networkthread = 0)
  <2>1. \A t \in Threads : ~Alive(t)
    BY <1>2 DEF MustRefuse, ExitedIsGone, WorkerIsTheHandle, Threads
  <2>2. CreateThread
    BY <1>2 DEF StartNetworkThread
  <2>3. ASSUME netThreadExited' = FALSE PROVE ExitedIsGone'
    BY <2>3 DEF ExitedIsGone
  <2>4. ASSUME wpc' = wpc PROVE ExitedIsGone'
    BY <2>1, <2>4 DEF ExitedIsGone, Alive
  <2> QED
    BY <2>2, <2>3, <2>4 DEF CreateThread
<1>3. CASE ~MustRefuse /\ ~(netThreadAbandoned \/ networkthread = 0)
  <2>1. wpc' = Resumed /\ netThreadExited' = netThreadExited
    BY <1>3 DEF StartNetworkThread
  <2>2. ASSUME netThreadExited PROVE wpc' = wpc
    <3>1. networkthread \in Threads
      BY <1>3 DEF Threads
    <3>2. ~Suspended
      BY <2>2, <3>1 DEF ExitedIsGone, Alive, Suspended
    <3> QED
      BY <2>1, <3>2 DEF Resumed
  <2> QED
    BY <2>1, <2>2 DEF ExitedIsGone, Alive
<1> QED
  BY <1>1, <1>2, <1>3

\* Every step keeps the invariant of the worker and its callers.
LEMMA WorkerNext ==
  TypeInv /\ WorkerInv /\ [Next]_vars => WorkerInv'
<1> SUFFICES ASSUME TypeInv, WorkerInv, [Next]_vars PROVE WorkerInv'
  OBVIOUS
<1>t. /\ wpc \in [Threads -> WorkerStates] /\ created \in Nat /\ networkthread \in 0 .. MaxWorkers
      /\ lease \in [Threads -> Leases \cup {None, Nonsense}]
      /\ networkInit \in BOOLEAN /\ ExitRequested \in BOOLEAN /\ MaxWorkers \in Nat
      /\ WorkerIsTheHandle /\ ExitedIsGone /\ Publishing /\ AnnouncedIsComplete /\ MenuKnows
  BY BoundAssumption DEF TypeInv, TypeOK, FlagsOK, WorkerInv
<1>1. ASSUME NEW t \in Threads, Outer(t) PROVE WorkerInv'
  <2>1. WorkerIsTheHandle'
    BY <1>1, <1>t DEF Alive, ExitedIsGone, Go, Outer, Threads, WorkerIsTheHandle, flags, menu,
       result, worker
  <2>2. ExitedIsGone'
    BY <1>1, <1>t DEF Alive, ExitedIsGone, Go, Outer, Threads, WorkerIsTheHandle, flags, menu,
       result, worker
  <2>3. Publishing'
    BY <1>1, <1>t DEF Alive, Go, Outer, Publishing, Threads, UsableAddress, WorkerIsTheHandle,
       flags, menu, result, worker
  <2>4. AnnouncedIsComplete'
    BY <1>1, <1>t DEF AnnouncedIsComplete, Go, Outer, Publishing, Threads, UsableAddress, flags,
       menu, result, worker
  <2>5. MenuKnows'
    BY <1>1, <1>t DEF Alive, ExitedIsGone, Go, MenuKnows, Outer, Threads, Told,
       WorkerIsTheHandle, flags, menu, result, worker
  <2> QED
    BY <2>1, <2>2, <2>3, <2>4, <2>5 DEF WorkerInv
<1>2. ASSUME NEW t \in Threads, Inner(t) PROVE WorkerInv'
  <2>1. WorkerIsTheHandle'
    BY <1>2, <1>t DEF Alive, ExitedIsGone, Go, Inner, Threads, WorkerIsTheHandle, flags, menu,
       result, worker
  <2>2. ExitedIsGone'
    BY <1>2, <1>t DEF Alive, ExitedIsGone, Go, Inner, Threads, WorkerIsTheHandle, flags, menu,
       result, worker
  <2>3. Publishing'
    BY <1>2, <1>t DEF Alive, Go, Inner, Publishing, Threads, UsableAddress, WorkerIsTheHandle,
       flags, menu, result, worker
  <2>4. AnnouncedIsComplete'
    BY <1>2, <1>t DEF AnnouncedIsComplete, Go, Inner, Publishing, Threads, UsableAddress, flags,
       menu, result, worker
  <2>5. MenuKnows'
    BY <1>2, <1>t DEF Alive, ExitedIsGone, Go, Inner, MenuKnows, Threads, Told,
       WorkerIsTheHandle, flags, menu, result, worker
  <2> QED
    BY <2>1, <2>2, <2>3, <2>4, <2>5 DEF WorkerInv
<1>3. ASSUME NEW t \in Threads, ConfigReturns(t) PROVE WorkerInv'
  <2>1. WorkerIsTheHandle'
    BY <1>3, <1>t DEF Alive, ConfigReturns, ExitedIsGone, Go, Threads, UsableAddress,
       WorkerIsTheHandle, flags, menu, result, worker
  <2>2. ExitedIsGone'
    BY <1>3, <1>t DEF Alive, ConfigReturns, ExitedIsGone, Go, Threads, UsableAddress,
       WorkerIsTheHandle, flags, menu, result, worker
  <2>3. Publishing'
    BY <1>3, <1>t DEF Alive, ConfigReturns, Go, Publishing, Threads, UsableAddress,
       WorkerIsTheHandle, flags, menu, result, worker
  <2>4. AnnouncedIsComplete'
    BY <1>3, <1>t DEF AnnouncedIsComplete, ConfigReturns, Go, Publishing, Threads,
       UsableAddress, flags, menu, result, worker
  <2>5. MenuKnows'
    BY <1>3, <1>t DEF Alive, ConfigReturns, ExitedIsGone, Go, MenuKnows, Threads, Told,
       UsableAddress, WorkerIsTheHandle, flags, menu, result, worker
  <2> QED
    BY <2>1, <2>2, <2>3, <2>4, <2>5 DEF WorkerInv
<1>4. ASSUME NEW t \in Threads, ConfigFails(t) PROVE WorkerInv'
  <2>1. WorkerIsTheHandle'
    BY <1>4, <1>t DEF Alive, ConfigFails, ExitedIsGone, Go, Threads, WorkerIsTheHandle, flags,
       menu, result, worker
  <2>2. ExitedIsGone'
    BY <1>4, <1>t DEF Alive, ConfigFails, ExitedIsGone, Go, Threads, WorkerIsTheHandle, flags,
       menu, result, worker
  <2>3. Publishing'
    BY <1>4, <1>t DEF Alive, ConfigFails, Go, Publishing, Threads, UsableAddress,
       WorkerIsTheHandle, flags, menu, result, worker
  <2>4. AnnouncedIsComplete'
    BY <1>4, <1>t DEF AnnouncedIsComplete, ConfigFails, Go, Publishing, Threads, UsableAddress,
       flags, menu, result, worker
  <2>5. MenuKnows'
    BY <1>4, <1>t DEF Alive, ConfigFails, ExitedIsGone, Go, MenuKnows, Threads, Told,
       WorkerIsTheHandle, flags, menu, result, worker
  <2> QED
    BY <2>1, <2>2, <2>3, <2>4, <2>5 DEF WorkerInv
<1>5. ASSUME NEW t \in Threads, Sleep(t) PROVE WorkerInv'
  <2>1. WorkerIsTheHandle'
    BY <1>5, <1>t DEF Alive, ExitedIsGone, Go, Sleep, Threads, WorkerIsTheHandle, flags, menu,
       result, worker
  <2>2. ExitedIsGone'
    BY <1>5, <1>t DEF Alive, ExitedIsGone, Go, Sleep, Threads, WorkerIsTheHandle, flags, menu,
       result, worker
  <2>3. Publishing'
    BY <1>5, <1>t DEF Alive, Go, Publishing, Sleep, Threads, UsableAddress, WorkerIsTheHandle,
       flags, menu, result, worker
  <2>4. AnnouncedIsComplete'
    BY <1>5, <1>t DEF AnnouncedIsComplete, Go, Publishing, Sleep, Threads, UsableAddress, flags,
       menu, result, worker
  <2>5. MenuKnows'
    BY <1>5, <1>t DEF Alive, ExitedIsGone, Go, MenuKnows, Sleep, Threads, Told,
       WorkerIsTheHandle, flags, menu, result, worker
  <2> QED
    BY <2>1, <2>2, <2>3, <2>4, <2>5 DEF WorkerInv
<1>6. ASSUME NEW t \in Threads, PublishAddress(t) PROVE WorkerInv'
  <2>1. WorkerIsTheHandle'
    BY <1>6, <1>t DEF Alive, ExitedIsGone, Go, PublishAddress, Threads, WorkerIsTheHandle,
       flags, menu, result, worker
  <2>2. ExitedIsGone'
    BY <1>6, <1>t DEF Alive, ExitedIsGone, Go, PublishAddress, Threads, WorkerIsTheHandle,
       flags, menu, result, worker
  <2>3. Publishing'
    BY <1>6, <1>t DEF Alive, Go, PublishAddress, Publishing, Threads, UsableAddress,
       WorkerIsTheHandle, flags, menu, result, worker
  <2>4. AnnouncedIsComplete'
    BY <1>6, <1>t DEF AnnouncedIsComplete, Go, PublishAddress, Publishing, Threads,
       UsableAddress, flags, menu, result, worker
  <2>5. MenuKnows'
    BY <1>6, <1>t DEF Alive, ExitedIsGone, Go, MenuKnows, PublishAddress, Threads, Told,
       WorkerIsTheHandle, flags, menu, result, worker
  <2> QED
    BY <2>1, <2>2, <2>3, <2>4, <2>5 DEF WorkerInv
<1>7. ASSUME NEW t \in Threads, PublishResolver(t) PROVE WorkerInv'
  <2>1. WorkerIsTheHandle'
    BY <1>7, <1>t DEF Alive, ExitedIsGone, Go, PublishResolver, Threads, WorkerIsTheHandle,
       flags, menu, result, worker
  <2>2. ExitedIsGone'
    BY <1>7, <1>t DEF Alive, ExitedIsGone, Go, PublishResolver, Threads, WorkerIsTheHandle,
       flags, menu, result, worker
  <2>3. Publishing'
    BY <1>7, <1>t DEF Alive, Go, PublishResolver, Publishing, Threads, UsableAddress,
       WorkerIsTheHandle, flags, menu, result, worker
  <2>4. AnnouncedIsComplete'
    BY <1>7, <1>t DEF AnnouncedIsComplete, Go, PublishResolver, Publishing, Threads,
       UsableAddress, flags, menu, result, worker
  <2>5. MenuKnows'
    BY <1>7, <1>t DEF Alive, ExitedIsGone, Go, MenuKnows, PublishResolver, Threads, Told,
       WorkerIsTheHandle, flags, menu, result, worker
  <2> QED
    BY <2>1, <2>2, <2>3, <2>4, <2>5 DEF WorkerInv
<1>8. ASSUME NEW t \in Threads, PublishInit(t) PROVE WorkerInv'
  <2>1. WorkerIsTheHandle'
    BY <1>8, <1>t DEF Alive, ExitedIsGone, Go, PublishInit, Threads, WorkerIsTheHandle, flags,
       menu, result, worker
  <2>2. ExitedIsGone'
    BY <1>8, <1>t DEF Alive, ExitedIsGone, Go, PublishInit, Threads, WorkerIsTheHandle, flags,
       menu, result, worker
  <2>3. Publishing'
    BY <1>8, <1>t DEF Alive, Go, PublishInit, Publishing, Threads, UsableAddress,
       WorkerIsTheHandle, flags, menu, result, worker
  <2>4. AnnouncedIsComplete'
    BY <1>8, <1>t DEF AnnouncedIsComplete, Go, PublishInit, Publishing, Threads, UsableAddress,
       flags, menu, result, worker
  <2>5. MenuKnows'
    BY <1>8, <1>t DEF Alive, ExitedIsGone, Go, MenuKnows, PublishInit, Threads, Told,
       WorkerIsTheHandle, flags, menu, result, worker
  <2> QED
    BY <2>1, <2>2, <2>3, <2>4, <2>5 DEF WorkerInv
<1>9. ASSUME NEW t \in Threads, Park(t) PROVE WorkerInv'
  <2>1. WorkerIsTheHandle'
    BY <1>9, <1>t DEF Alive, ExitedIsGone, Go, Park, Threads, WorkerIsTheHandle, flags, menu,
       result, worker
  <2>2. ExitedIsGone'
    BY <1>9, <1>t DEF Alive, ExitedIsGone, Go, Park, Threads, WorkerIsTheHandle, flags, menu,
       result, worker
  <2>3. Publishing'
    BY <1>9, <1>t DEF Alive, Go, Park, Publishing, Threads, UsableAddress, WorkerIsTheHandle,
       flags, menu, result, worker
  <2>4. AnnouncedIsComplete'
    BY <1>9, <1>t DEF AnnouncedIsComplete, Go, Park, Publishing, Threads, UsableAddress, flags,
       menu, result, worker
  <2>5. MenuKnows'
    BY <1>9, <1>t DEF Alive, ExitedIsGone, Go, MenuKnows, Park, Threads, Told,
       WorkerIsTheHandle, flags, menu, result, worker
  <2> QED
    BY <2>1, <2>2, <2>3, <2>4, <2>5 DEF WorkerInv
<1>10. ASSUME NEW t \in Threads, Suspend(t) PROVE WorkerInv'
  <2>1. WorkerIsTheHandle'
    BY <1>10, <1>t DEF Alive, ExitedIsGone, Suspend, Threads, WorkerIsTheHandle, flags, menu,
       result, worker
  <2>2. ExitedIsGone'
    BY <1>10, <1>t DEF Alive, ExitedIsGone, Suspend, Threads, WorkerIsTheHandle, flags, menu,
       result, worker
  <2>3. Publishing'
    BY <1>10, <1>t DEF Alive, Publishing, Suspend, Threads, UsableAddress, WorkerIsTheHandle,
       flags, menu, result, worker
  <2>4. AnnouncedIsComplete'
    BY <1>10, <1>t DEF AnnouncedIsComplete, Publishing, Suspend, Threads, UsableAddress, flags,
       menu, result, worker
  <2>5. MenuKnows'
    BY <1>10, <1>t DEF Alive, ExitedIsGone, MenuKnows, Suspend, Threads, Told,
       WorkerIsTheHandle, flags, menu, result, worker
  <2> QED
    BY <2>1, <2>2, <2>3, <2>4, <2>5 DEF WorkerInv
<1>11. ASSUME NEW t \in Threads, Exit(t) PROVE WorkerInv'
  <2>1. WorkerIsTheHandle'
    BY <1>11, <1>t DEF Alive, Exit, ExitedIsGone, Go, Threads, WorkerIsTheHandle, flags, menu,
       result, worker
  <2>2. ExitedIsGone'
    BY <1>11, <1>t DEF Alive, Exit, ExitedIsGone, Go, Threads, WorkerIsTheHandle, flags, menu,
       result, worker
  <2>3. Publishing'
    BY <1>11, <1>t DEF Alive, Exit, Go, Publishing, Threads, UsableAddress, WorkerIsTheHandle,
       flags, menu, result, worker
  <2>4. AnnouncedIsComplete'
    BY <1>11, <1>t DEF AnnouncedIsComplete, Exit, Go, Publishing, Threads, UsableAddress, flags,
       menu, result, worker
  <2>5. MenuKnows'
    BY <1>11, <1>t DEF Alive, Exit, ExitedIsGone, Go, MenuKnows, Threads, Told,
       WorkerIsTheHandle, flags, menu, result, worker
  <2> QED
    BY <2>1, <2>2, <2>3, <2>4, <2>5 DEF WorkerInv
<1>12. CASE StopExited
  <2>1. WorkerIsTheHandle'
    BY <1>12, <1>t DEF Alive, ExitedIsGone, StopExited, Threads, WorkerIsTheHandle, flags, menu,
       result, worker
  <2>2. ExitedIsGone'
    BY <1>12, <1>t DEF Alive, ExitedIsGone, StopExited, Threads, WorkerIsTheHandle, flags, menu,
       result, worker
  <2>3. Publishing'
    BY <1>12, <1>t DEF Alive, Publishing, StopExited, Threads, UsableAddress, WorkerIsTheHandle,
       flags, menu, result, worker
  <2>4. AnnouncedIsComplete'
    BY <1>12, <1>t DEF AnnouncedIsComplete, Publishing, StopExited, Threads, UsableAddress,
       flags, menu, result, worker
  <2>5. MenuKnows'
    BY <1>12, <1>t DEF Alive, ExitedIsGone, MenuKnows, StopExited, Threads, Told,
       WorkerIsTheHandle, flags, menu, result, worker
  <2> QED
    BY <2>1, <2>2, <2>3, <2>4, <2>5 DEF WorkerInv
<1>13. CASE StopTimeout
  <2>1. WorkerIsTheHandle'
    BY <1>13, <1>t DEF Alive, ExitedIsGone, StopTimeout, Threads, Unresponsive,
       WorkerIsTheHandle, flags, menu, result, worker
  <2>2. ExitedIsGone'
    BY <1>13, <1>t DEF Alive, ExitedIsGone, StopTimeout, Threads, Unresponsive,
       WorkerIsTheHandle, flags, menu, result, worker
  <2>3. Publishing'
    BY <1>13, <1>t DEF Alive, Publishing, StopTimeout, Threads, Unresponsive, UsableAddress,
       WorkerIsTheHandle, flags, menu, result, worker
  <2>4. AnnouncedIsComplete'
    BY <1>13, <1>t DEF AnnouncedIsComplete, Publishing, StopTimeout, Threads, Unresponsive,
       UsableAddress, flags, menu, result, worker
  <2>5. MenuKnows'
    BY <1>13, <1>t DEF Alive, ExitedIsGone, MenuKnows, StopTimeout, Threads, Told, Unresponsive,
       WorkerIsTheHandle, flags, menu, result, worker
  <2> QED
    BY <2>1, <2>2, <2>3, <2>4, <2>5 DEF WorkerInv
<1>14. CASE BootEnter
  <2>1. WorkerIsTheHandle'
    BY <1>14, <1>t DEF Alive, BootEnter, ExitedIsGone, Threads, WorkerIsTheHandle, flags, menu,
       result, worker
  <2>2. ExitedIsGone'
    BY <1>14, <1>t DEF Alive, BootEnter, ExitedIsGone, Threads, WorkerIsTheHandle, flags, menu,
       result, worker
  <2>3. Publishing'
    BY <1>14, <1>t DEF Alive, BootEnter, Publishing, Threads, UsableAddress, WorkerIsTheHandle,
       flags, menu, result, worker
  <2>4. AnnouncedIsComplete'
    BY <1>14, <1>t DEF AnnouncedIsComplete, BootEnter, Publishing, Threads, UsableAddress,
       flags, menu, result, worker
  <2>5. MenuKnows'
    BY <1>14, <1>t DEF Alive, BootEnter, ExitedIsGone, MenuKnows, Threads, Told,
       WorkerIsTheHandle, flags, menu, result, worker
  <2> QED
    BY <2>1, <2>2, <2>3, <2>4, <2>5 DEF WorkerInv
<1>15. CASE BootStart
  <2>1. WorkerIsTheHandle'
    BY <1>15, <1>t DEF Alive, BootStart, CreateThread, ExitedIsGone, MustRefuse, Resumed,
       StartNetworkThread, Suspended, Threads, WorkerIsTheHandle, flags, menu, result, worker
  <2>2. ExitedIsGone'
    BY <1>15, <1>t, StartExited DEF BootStart, ExitedIsGone, Alive, flags
  <2>3. Publishing'
    BY <1>15, <1>t DEF Alive, BootStart, CreateThread, MustRefuse, Publishing, Resumed,
       StartNetworkThread, Suspended, Threads, UsableAddress, WorkerIsTheHandle, flags, menu,
       result, worker
  <2>4. AnnouncedIsComplete'
    BY <1>15, <1>t DEF AnnouncedIsComplete, BootStart, CreateThread, MustRefuse, Publishing,
       Resumed, StartNetworkThread, Suspended, Threads, UsableAddress, flags, menu, result,
       worker
  <2>5. MenuKnows'
    BY <1>15, <1>t DEF Alive, BootStart, CreateThread, ExitedIsGone, MenuKnows, MustRefuse,
       Resumed, StartNetworkThread, Suspended, Threads, Told, WorkerIsTheHandle, flags, menu,
       result, worker
  <2> QED
    BY <2>1, <2>2, <2>3, <2>4, <2>5 DEF WorkerInv
<1>16. CASE BootWake
  <2>1. WorkerIsTheHandle'
    BY <1>16, <1>t DEF Alive, BootWake, ExitedIsGone, Threads, WorkerIsTheHandle, flags, menu,
       result, worker
  <2>2. ExitedIsGone'
    BY <1>16, <1>t DEF Alive, BootWake, ExitedIsGone, Threads, WorkerIsTheHandle, flags, menu,
       result, worker
  <2>3. Publishing'
    BY <1>16, <1>t DEF Alive, BootWake, Publishing, Threads, UsableAddress, WorkerIsTheHandle,
       flags, menu, result, worker
  <2>4. AnnouncedIsComplete'
    BY <1>16, <1>t DEF AnnouncedIsComplete, BootWake, Publishing, Threads, UsableAddress, flags,
       menu, result, worker
  <2>5. MenuKnows'
    BY <1>16, <1>t DEF Alive, BootWake, ExitedIsGone, MenuKnows, Threads, Told,
       WorkerIsTheHandle, flags, menu, result, worker
  <2> QED
    BY <2>1, <2>2, <2>3, <2>4, <2>5 DEF WorkerInv
<1>17. CASE BootTimeout
  <2>1. WorkerIsTheHandle'
    BY <1>17, <1>t DEF Alive, BootTimeout, ExitedIsGone, Threads, WorkerIsTheHandle, flags,
       menu, result, worker
  <2>2. ExitedIsGone'
    BY <1>17, <1>t DEF Alive, BootTimeout, ExitedIsGone, Threads, WorkerIsTheHandle, flags,
       menu, result, worker
  <2>3. Publishing'
    BY <1>17, <1>t DEF Alive, BootTimeout, Publishing, Threads, UsableAddress,
       WorkerIsTheHandle, flags, menu, result, worker
  <2>4. AnnouncedIsComplete'
    BY <1>17, <1>t DEF AnnouncedIsComplete, BootTimeout, Publishing, Threads, UsableAddress,
       flags, menu, result, worker
  <2>5. MenuKnows'
    BY <1>17, <1>t DEF Alive, BootTimeout, ExitedIsGone, MenuKnows, Threads, Told,
       WorkerIsTheHandle, flags, menu, result, worker
  <2> QED
    BY <2>1, <2>2, <2>3, <2>4, <2>5 DEF WorkerInv
<1>18. CASE BootCheck
  <2>1. WorkerIsTheHandle'
    BY <1>18, <1>t DEF Alive, BootCheck, ExitedIsGone, Resumed, StopNetworkThread, Suspended,
       Threads, WorkerIsTheHandle, flags, menu, result, worker
  <2>2. ExitedIsGone'
    BY <1>18, <1>t DEF Alive, BootCheck, ExitedIsGone, Resumed, StopNetworkThread, Suspended,
       Threads, WorkerIsTheHandle, flags, menu, result, worker
  <2>3. Publishing'
    BY <1>18, <1>t DEF Alive, BootCheck, Publishing, Resumed, StopNetworkThread, Suspended,
       Threads, UsableAddress, WorkerIsTheHandle, flags, menu, result, worker
  <2>4. AnnouncedIsComplete'
    BY <1>18, <1>t DEF AnnouncedIsComplete, BootCheck, Publishing, Resumed, StopNetworkThread,
       Suspended, Threads, UsableAddress, flags, menu, result, worker
  <2>5. MenuKnows'
    BY <1>18, <1>t DEF Alive, BootCheck, ExitedIsGone, MenuKnows, Resumed, StopNetworkThread,
       Suspended, Threads, Told, WorkerIsTheHandle, flags, menu, result, worker
  <2> QED
    BY <2>1, <2>2, <2>3, <2>4, <2>5 DEF WorkerInv
<1>19. CASE BootPrompt
  <2>1. WorkerIsTheHandle'
    BY <1>19, <1>t DEF Alive, BootPrompt, ExitedIsGone, Threads, WorkerIsTheHandle, flags, menu,
       result, worker
  <2>2. ExitedIsGone'
    BY <1>19, <1>t DEF Alive, BootPrompt, ExitedIsGone, Threads, WorkerIsTheHandle, flags, menu,
       result, worker
  <2>3. Publishing'
    BY <1>19, <1>t DEF Alive, BootPrompt, Publishing, Threads, UsableAddress, WorkerIsTheHandle,
       flags, menu, result, worker
  <2>4. AnnouncedIsComplete'
    BY <1>19, <1>t DEF AnnouncedIsComplete, BootPrompt, Publishing, Threads, UsableAddress,
       flags, menu, result, worker
  <2>5. MenuKnows'
    BY <1>19, <1>t DEF Alive, BootPrompt, ExitedIsGone, MenuKnows, Threads, Told,
       WorkerIsTheHandle, flags, menu, result, worker
  <2> QED
    BY <2>1, <2>2, <2>3, <2>4, <2>5 DEF WorkerInv
<1>20. CASE BootEnd
  <2>1. WorkerIsTheHandle'
    BY <1>20, <1>t DEF Alive, BootEnd, ExitedIsGone, Resumed, StopNetworkThread, Suspended,
       Threads, WorkerIsTheHandle, flags, menu, result, worker
  <2>2. ExitedIsGone'
    BY <1>20, <1>t DEF Alive, BootEnd, ExitedIsGone, Resumed, StopNetworkThread, Suspended,
       Threads, WorkerIsTheHandle, flags, menu, result, worker
  <2>3. Publishing'
    BY <1>20, <1>t DEF Alive, BootEnd, Publishing, Resumed, StopNetworkThread, Suspended,
       Threads, UsableAddress, WorkerIsTheHandle, flags, menu, result, worker
  <2>4. AnnouncedIsComplete'
    BY <1>20, <1>t DEF AnnouncedIsComplete, BootEnd, Publishing, Resumed, StopNetworkThread,
       Suspended, Threads, UsableAddress, flags, menu, result, worker
  <2>5. MenuKnows'
    BY <1>20, <1>t DEF Alive, BootEnd, ExitedIsGone, MenuKnows, Resumed, StopNetworkThread,
       Suspended, Threads, Told, WorkerIsTheHandle, flags, menu, result, worker
  <2> QED
    BY <2>1, <2>2, <2>3, <2>4, <2>5 DEF WorkerInv
<1>21. CASE InitEnter
  <2>1. WorkerIsTheHandle'
    BY <1>21, <1>t DEF Alive, CreateThread, ExitedIsGone, InitEnter, MustRefuse, Resumed,
       StartNetworkThread, Suspended, Threads, WorkerIsTheHandle, flags, menu, result, worker
  <2>2. ExitedIsGone'
    BY <1>21, <1>t, StartExited DEF InitEnter, ExitedIsGone, Alive, flags
  <2>3. Publishing'
    BY <1>21, <1>t DEF Alive, CreateThread, InitEnter, MustRefuse, Publishing, Resumed,
       StartNetworkThread, Suspended, Threads, UsableAddress, WorkerIsTheHandle, flags, menu,
       result, worker
  <2>4. AnnouncedIsComplete'
    BY <1>21, <1>t DEF AnnouncedIsComplete, CreateThread, InitEnter, MustRefuse, Publishing,
       Resumed, StartNetworkThread, Suspended, Threads, UsableAddress, flags, menu, result,
       worker
  <2>5. MenuKnows'
    BY <1>21, <1>t DEF Alive, CreateThread, ExitedIsGone, InitEnter, MenuKnows, MustRefuse,
       Resumed, StartNetworkThread, Suspended, Threads, Told, WorkerIsTheHandle, flags, menu,
       result, worker
  <2> QED
    BY <2>1, <2>2, <2>3, <2>4, <2>5 DEF WorkerInv
<1>22. CASE InitWake
  <2>1. WorkerIsTheHandle'
    BY <1>22, <1>t DEF Alive, ExitedIsGone, InitWake, Resumed, StopNetworkThread, Suspended,
       Threads, WorkerIsTheHandle, flags, menu, result, worker
  <2>2. ExitedIsGone'
    BY <1>22, <1>t DEF Alive, ExitedIsGone, InitWake, Resumed, StopNetworkThread, Suspended,
       Threads, WorkerIsTheHandle, flags, menu, result, worker
  <2>3. Publishing'
    BY <1>22, <1>t DEF Alive, InitWake, Publishing, Resumed, StopNetworkThread, Suspended,
       Threads, UsableAddress, WorkerIsTheHandle, flags, menu, result, worker
  <2>4. AnnouncedIsComplete'
    BY <1>22, <1>t DEF AnnouncedIsComplete, InitWake, Publishing, Resumed, StopNetworkThread,
       Suspended, Threads, UsableAddress, flags, menu, result, worker
  <2>5. MenuKnows'
    BY <1>22, <1>t DEF Alive, ExitedIsGone, InitWake, MenuKnows, Resumed, StopNetworkThread,
       Suspended, Threads, Told, WorkerIsTheHandle, flags, menu, result, worker
  <2> QED
    BY <2>1, <2>2, <2>3, <2>4, <2>5 DEF WorkerInv
<1>23. CASE Cancel
  <2>1. WorkerIsTheHandle'
    BY <1>23, <1>t DEF Alive, Cancel, ExitedIsGone, Threads, WorkerIsTheHandle, flags, menu,
       result, worker
  <2>2. ExitedIsGone'
    BY <1>23, <1>t DEF Alive, Cancel, ExitedIsGone, Threads, WorkerIsTheHandle, flags, menu,
       result, worker
  <2>3. Publishing'
    BY <1>23, <1>t DEF Alive, Cancel, Publishing, Threads, UsableAddress, WorkerIsTheHandle,
       flags, menu, result, worker
  <2>4. AnnouncedIsComplete'
    BY <1>23, <1>t DEF AnnouncedIsComplete, Cancel, Publishing, Threads, UsableAddress, flags,
       menu, result, worker
  <2>5. MenuKnows'
    BY <1>23, <1>t DEF Alive, Cancel, ExitedIsGone, MenuKnows, Threads, Told, WorkerIsTheHandle,
       flags, menu, result, worker
  <2> QED
    BY <2>1, <2>2, <2>3, <2>4, <2>5 DEF WorkerInv
<1>24. CASE CheckMplayerNetwork
  <2>1. WorkerIsTheHandle'
    BY <1>24, <1>t DEF Alive, CheckMplayerNetwork, ExitedIsGone, Threads, WorkerIsTheHandle,
       flags, menu, result, worker
  <2>2. ExitedIsGone'
    BY <1>24, <1>t DEF Alive, CheckMplayerNetwork, ExitedIsGone, Threads, WorkerIsTheHandle,
       flags, menu, result, worker
  <2>3. Publishing'
    BY <1>24, <1>t DEF Alive, CheckMplayerNetwork, Publishing, Threads, UsableAddress,
       WorkerIsTheHandle, flags, menu, result, worker
  <2>4. AnnouncedIsComplete'
    BY <1>24, <1>t DEF AnnouncedIsComplete, CheckMplayerNetwork, Publishing, Threads,
       UsableAddress, flags, menu, result, worker
  <2>5. MenuKnows'
    BY <1>24, <1>t DEF Alive, CheckMplayerNetwork, ExitedIsGone, MenuKnows, Threads, Told,
       WorkerIsTheHandle, flags, menu, result, worker
  <2> QED
    BY <2>1, <2>2, <2>3, <2>4, <2>5 DEF WorkerInv
<1>25. CASE RequestExit
  <2>1. WorkerIsTheHandle'
    BY <1>25, <1>t DEF Alive, ExitedIsGone, RequestExit, Threads, WorkerIsTheHandle, flags,
       menu, result, worker
  <2>2. ExitedIsGone'
    BY <1>25, <1>t DEF Alive, ExitedIsGone, RequestExit, Threads, WorkerIsTheHandle, flags,
       menu, result, worker
  <2>3. Publishing'
    BY <1>25, <1>t DEF Alive, Publishing, RequestExit, Threads, UsableAddress,
       WorkerIsTheHandle, flags, menu, result, worker
  <2>4. AnnouncedIsComplete'
    BY <1>25, <1>t DEF AnnouncedIsComplete, Publishing, RequestExit, Threads, UsableAddress,
       flags, menu, result, worker
  <2>5. MenuKnows'
    BY <1>25, <1>t DEF Alive, ExitedIsGone, MenuKnows, RequestExit, Threads, Told,
       WorkerIsTheHandle, flags, menu, result, worker
  <2> QED
    BY <2>1, <2>2, <2>3, <2>4, <2>5 DEF WorkerInv
<1>26. CASE Shutdown
  <2>1. WorkerIsTheHandle'
    BY <1>26, <1>t DEF Alive, ExitedIsGone, Shutdown, Threads, WorkerIsTheHandle, flags, menu,
       result, worker
  <2>2. ExitedIsGone'
    BY <1>26, <1>t DEF Alive, ExitedIsGone, Shutdown, Threads, WorkerIsTheHandle, flags, menu,
       result, worker
  <2>3. Publishing'
    BY <1>26, <1>t DEF Alive, Publishing, Shutdown, Threads, UsableAddress, WorkerIsTheHandle,
       flags, menu, result, worker
  <2>4. AnnouncedIsComplete'
    BY <1>26, <1>t DEF AnnouncedIsComplete, Publishing, Shutdown, Threads, UsableAddress, flags,
       menu, result, worker
  <2>5. MenuKnows'
    BY <1>26, <1>t DEF Alive, ExitedIsGone, MenuKnows, Shutdown, Threads, Told,
       WorkerIsTheHandle, flags, menu, result, worker
  <2> QED
    BY <2>1, <2>2, <2>3, <2>4, <2>5 DEF WorkerInv
<1>27. CASE Off
  <2>1. WorkerIsTheHandle'
    BY <1>27, <1>t DEF Alive, ExitedIsGone, Off, Threads, WorkerIsTheHandle, flags, menu,
       result, vars, worker
  <2>2. ExitedIsGone'
    BY <1>27, <1>t DEF Alive, ExitedIsGone, Off, Threads, WorkerIsTheHandle, flags, menu,
       result, vars, worker
  <2>3. Publishing'
    BY <1>27, <1>t DEF Alive, Off, Publishing, Threads, UsableAddress, WorkerIsTheHandle, flags,
       menu, result, vars, worker
  <2>4. AnnouncedIsComplete'
    BY <1>27, <1>t DEF AnnouncedIsComplete, Off, Publishing, Threads, UsableAddress, flags,
       menu, result, vars, worker
  <2>5. MenuKnows'
    BY <1>27, <1>t DEF Alive, ExitedIsGone, MenuKnows, Off, Threads, Told, WorkerIsTheHandle,
       flags, menu, result, vars, worker
  <2> QED
    BY <2>1, <2>2, <2>3, <2>4, <2>5 DEF WorkerInv
<1>28. CASE UNCHANGED vars
  BY <1>28 DEF WorkerInv, WorkerIsTheHandle, ExitedIsGone, Publishing, AnnouncedIsComplete,
     MenuKnows, Told, Alive, UsableAddress, Threads, vars, flags, result, worker, menu
<1> QED
  BY <1>1, <1>2, <1>3, <1>4, <1>5, <1>6, <1>7, <1>8, <1>9, <1>10, <1>11, <1>12, <1>13, <1>14,
     <1>15, <1>16, <1>17, <1>18, <1>19, <1>20, <1>21, <1>22, <1>23, <1>24, <1>25, <1>26, <1>27,
     <1>28 DEF Next, WorkerStep, MenuStep

\* The invariant of the worker and of the menu thread that drives it.
THEOREM WorkerInvariance == Spec => [](TypeInv /\ WorkerInv)
<1>1. Init => WorkerInv
  BY BoundAssumption DEF Init, WorkerInv, WorkerIsTheHandle, ExitedIsGone, Publishing,
     AnnouncedIsComplete,
     MenuKnows, Told, Alive, Threads
<1> QED
  BY TypesInit, TypesNext, <1>1, WorkerNext, PTL DEF Spec

\* The flags, the leases and the count of attempts of netcb() keep their types.
THEOREM WorkerTypes == Spec => []TypeOK
  BY WorkerInvariance, PTL DEF TypeInv

\* StartNetworkThread() never runs two workers on one stack.
THEOREM OneWorker == Spec => []WorkerIsTheHandle
  BY WorkerInvariance, PTL DEF WorkerInv

\* Whoever sees networkInit may use the address and the resolver.
THEOREM Announced == Spec => []AnnouncedIsComplete
  BY WorkerInvariance, PTL DEF WorkerInv

\* No call returns with an unknown worker running behind the menu's back.
THEOREM Stragglers == Spec => []StragglersAreKnown
<1>1. WorkerInv => StragglersAreKnown
  BY DEF WorkerInv, MenuKnows, Told, StragglersAreKnown
<1> QED
  BY <1>1, WorkerInvariance, PTL
=============================================================================
