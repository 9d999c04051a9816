--------------------------- MODULE NetworkWorker ---------------------------
(***************************************************************************)
(* The network worker of source/networkop.cpp: netcb() brings the adapter  *)
(* up inside if_config(), which may take minutes or never return; the menu *)
(* thread starts, awaits, stops and, when it must, abandons it, from the   *)
(* boot gate and from InitializeNetwork().                                 *)
(*                                                                         *)
(* The worker (LWP priority 40) runs only while the menu thread (64)       *)
(* sleeps, and is preempted anywhere.  What the menu thread does between   *)
(* two sleeps is therefore one action; each test and each assignment of    *)
(* the worker is one of its own.                                           *)
(***************************************************************************)
EXTENDS Integers

CONSTANTS
  Leases,      \* addresses, each with its gateway, that if_config() may hand back
  MaxWorkers,  \* bound on the threads created in a behaviour
  MaxForgets   \* bound on CheckMplayerNetwork() finding the address gone

ASSUME BoundAssumption == MaxWorkers \in Nat /\ MaxForgets \in Nat

None     == "none"      \* no address yet
Nonsense == "nonsense"  \* 0.0.0.0 or 255.255.255.255, with a result >= 0
Threads  == 1 .. MaxWorkers
Retries  == 3

VARIABLES
  netHalt,             \* 0, or 2: the worker must leave
  networkInit,         \* the network may be used
  netThreadExited, netThreadAbandoned,
  networkthread,       \* the worker's handle, 0 for LWP_THREAD_NULL
  wiiIP,               \* the address shown and used
  dns,                 \* the lease whose gateway the resolver queries
  wpc, retry, lease,   \* per thread: where netcb() is, and its locals
  created,             \* threads created so far
  pc,                  \* where the menu thread is
  ret,                 \* where StopNetworkThread() returns to
  cancelNetworkInit, ExitRequested,
  booted,              \* the boot gate has returned (firstboot is false)
  forgets

flags  == <<netHalt, netThreadExited, netThreadAbandoned, networkthread>>
result == <<networkInit, wiiIP, dns>>
worker == <<wpc, retry, lease>>
menu   == <<pc, ret, cancelNetworkInit, ExitRequested, booted>>
vars   == <<flags, result, worker, created, menu, forgets>>

WorkerStates == {"new", "outer", "inner", "config", "address", "resolver", "publish", "sleep",
                 "park", "suspend", "suspended", "exit", "gone"}
MenuStates   == {"idle", "bootstart", "bootwait", "bootcheck", "bootprompt", "bootend",
                 "initwait", "stopwait", "off"}

Init ==
  /\ netHalt = 0 /\ networkInit = FALSE
  /\ netThreadExited = FALSE /\ netThreadAbandoned = FALSE /\ networkthread = 0
  /\ wiiIP = None /\ dns = None
  /\ wpc = [t \in Threads |-> "new"]
  /\ retry = [t \in Threads |-> 0]
  /\ lease = [t \in Threads |-> None]
  /\ created = 0
  /\ pc = "idle" /\ ret = "idle"
  /\ cancelNetworkInit = FALSE /\ ExitRequested = FALSE /\ booted = FALSE
  /\ forgets = 0

-----------------------------------------------------------------------------
(* The worker: netcb().                                                    *)

Go(t, there) == wpc' = [wpc EXCEPT ![t] = there]

UsableAddress(a) == a \in Leases

\* while(netHalt != 2)
Outer(t) ==
  /\ wpc[t] = "outer"
  /\ IF netHalt # 2
       THEN Go(t, "inner") /\ retry' = [retry EXCEPT ![t] = Retries]
       ELSE Go(t, "exit") /\ UNCHANGED retry
  /\ UNCHANGED <<flags, result, lease, created, menu, forgets>>

\* while(retry > 0 && netHalt != 2 && !networkInit)
Inner(t) ==
  /\ wpc[t] = "inner"
  /\ Go(t, IF retry[t] > 0 /\ netHalt # 2 /\ ~networkInit THEN "config" ELSE "park")
  /\ UNCHANGED <<flags, result, retry, lease, created, menu, forgets>>

\* mutant: a result >= 0 is believed, whatever the address.
ConfigReturnsAnything(t) ==
  /\ wpc[t] = "config"
  /\ \E a \in Leases \cup {Nonsense} :
       Go(t, "address") /\ lease' = [lease EXCEPT ![t] = a]
  /\ UNCHANGED <<flags, result, retry, created, menu, forgets>>

\* if_config() returns >= 0; with a nonsense address the attempts are over.
ConfigReturns(t) ==
  /\ wpc[t] = "config"
  /\ \E a \in Leases \cup {Nonsense} :
       IF UsableAddress(a)
         THEN Go(t, "address") /\ lease' = [lease EXCEPT ![t] = a]
         ELSE Go(t, "park") /\ UNCHANGED lease
  /\ UNCHANGED <<flags, result, retry, created, menu, forgets>>

\* if_config() returns an error: one attempt less, after a second's pause.
ConfigFails(t) ==
  /\ wpc[t] = "config"
  /\ retry' = [retry EXCEPT ![t] = @ - 1]
  /\ Go(t, IF retry[t] > 1 /\ netHalt # 2 THEN "sleep" ELSE "inner")
  /\ UNCHANGED <<flags, result, lease, created, menu, forgets>>

Sleep(t) ==
  /\ wpc[t] = "sleep"
  /\ Go(t, "inner")
  /\ UNCHANGED <<flags, result, retry, lease, created, menu, forgets>>

\* wiiIP and the adapter's name are written,
PublishAddress(t) ==
  /\ wpc[t] = "address"
  /\ wiiIP' = lease[t]
  /\ Go(t, "resolver")
  /\ UNCHANGED <<flags, networkInit, dns, retry, lease, created, menu, forgets>>

\* the resolver is pointed at the lease's gateway and its cache emptied,
PublishResolver(t) ==
  /\ wpc[t] = "resolver"
  /\ dns' = lease[t]
  /\ Go(t, "publish")
  /\ UNCHANGED <<flags, networkInit, wiiIP, retry, lease, created, menu, forgets>>

\* and only then is the network announced.
PublishInit(t) ==
  /\ wpc[t] = "publish"
  /\ networkInit' = TRUE
  /\ Go(t, "park")
  /\ UNCHANGED <<flags, wiiIP, dns, retry, lease, created, menu, forgets>>

\* if(netHalt != 2): tested here, acted upon in Suspend.
Park(t) ==
  /\ wpc[t] = "park"
  /\ Go(t, IF netHalt # 2 THEN "suspend" ELSE "outer")
  /\ UNCHANGED <<flags, result, retry, lease, created, menu, forgets>>

\* LWP_SuspendThread(networkthread): the handle, whoever's it is by now.
Suspend(t) ==
  /\ wpc[t] = "suspend"
  /\ wpc' = [u \in Threads |-> IF u = networkthread THEN "suspended"
                               ELSE IF u = t THEN "outer" ELSE wpc[u]]
  /\ UNCHANGED <<flags, result, retry, lease, created, menu, forgets>>

Exit(t) ==
  /\ wpc[t] = "exit"
  /\ netThreadExited' = TRUE
  /\ Go(t, "gone")
  /\ UNCHANGED <<netHalt, netThreadAbandoned, networkthread, result, retry, lease, created, menu,
                 forgets>>

\* What the worker does on its own; if_config() returns when it likes.
WorkerStep(t) ==
  \/ Outer(t) \/ Inner(t) \/ Sleep(t) \/ PublishAddress(t) \/ PublishResolver(t)
  \/ PublishInit(t) \/ Park(t) \/ Suspend(t) \/ Exit(t)

-----------------------------------------------------------------------------
(* StartNetworkThread() and StopNetworkThread().                           *)

Suspended == networkthread # 0 /\ wpc[networkthread] = "suspended"

\* LWP_ResumeThread(): netcb() goes on after its usleep(100).
Resumed == IF Suspended THEN [wpc EXCEPT ![networkthread] = "outer"] ELSE wpc

\* A worker that was abandoned and has not left is not replaced.
MustRefuse == netThreadAbandoned /\ ~netThreadExited

\* LWP_CreateThread() succeeds, or it does not.
CreateThread ==
  \/ /\ created < MaxWorkers
     /\ created' = created + 1
     /\ networkthread' = created + 1
     /\ wpc' = [wpc EXCEPT ![created + 1] = "outer"]
     /\ netThreadExited' = FALSE
  \/ /\ networkthread' = 0 /\ netThreadExited' = TRUE
     /\ UNCHANGED <<created, wpc>>

\* StartNetworkThread(): refuses, reclaims and restarts, starts, or resumes.
StartNetworkThread ==
  IF MustRefuse
    THEN UNCHANGED <<flags, wpc, created>>
    ELSE /\ netHalt' = 0
         /\ netThreadAbandoned' = FALSE
         /\ IF netThreadAbandoned \/ networkthread = 0
              THEN CreateThread
              ELSE wpc' = Resumed /\ UNCHANGED <<networkthread, netThreadExited, created>>

\* The first half of StopNetworkThread(): nothing to stop, or ask and wait.
StopNetworkThread(there) ==
  IF networkthread = 0
    THEN pc' = there /\ UNCHANGED <<netHalt, wpc, ret>>
    ELSE pc' = "stopwait" /\ ret' = there /\ netHalt' = 2 /\ wpc' = Resumed

\* The worker has left: it is joined.
StopExited ==
  /\ pc = "stopwait"
  /\ netThreadExited
  /\ networkthread' = 0
  /\ netThreadAbandoned' = FALSE
  /\ pc' = ret
  /\ UNCHANGED <<netHalt, netThreadExited, result, worker, created, ret, cancelNetworkInit,
                 ExitRequested, booted, forgets>>

\* Two seconds are enough for every step of the worker but these three:
\* if_config(), the wait for the resolver's mutex, and LWP_SuspendThread().
Unresponsive ==
  networkthread # 0 /\ wpc[networkthread] \in {"config", "resolver", "suspended"}

\* mutant: the wedged worker is forgotten instead of abandoned.
StopTimeoutForgets ==
  /\ pc = "stopwait"
  /\ ~netThreadExited
  /\ Unresponsive
  /\ networkthread' = 0
  /\ pc' = ret
  /\ UNCHANGED <<netHalt, netThreadExited, netThreadAbandoned, result, worker, created, ret,
                 cancelNetworkInit, ExitRequested, booted, forgets>>

\* mutant: it is joined whether it has left or not, which waits with if_config().
StopTimeoutJoins ==
  /\ pc = "stopwait"
  /\ ~netThreadExited
  /\ Unresponsive
  /\ UNCHANGED vars

\* The worker has not left in NET_STOP_TIMEOUT_SECS.
StopTimeout ==
  /\ pc = "stopwait"
  /\ ~netThreadExited
  /\ Unresponsive
  /\ netThreadAbandoned' = TRUE
  /\ pc' = ret
  /\ UNCHANGED <<netHalt, netThreadExited, networkthread, result, worker, created, ret,
                 cancelNetworkInit, ExitRequested, booted, forgets>>

-----------------------------------------------------------------------------
(* WaitForNetworkAtBoot(), called once, before the first menu.             *)

BootEnter ==
  /\ pc = "idle" /\ ~booted
  /\ pc' = "bootstart"
  /\ UNCHANGED <<flags, result, worker, created, ret, cancelNetworkInit, ExitRequested, booted,
                 forgets>>

\* while(!networkInit && !ExitRequested): start the worker and wait.
BootStart ==
  /\ pc = "bootstart"
  /\ IF ~networkInit /\ ~ExitRequested
       THEN StartNetworkThread /\ pc' = "bootwait"
       ELSE pc' = "bootend" /\ UNCHANGED <<flags, wpc, created>>
  /\ UNCHANGED <<result, retry, lease, ret, cancelNetworkInit, ExitRequested, booted, forgets>>

\* The wait sees an address, the exit request, or that nothing is running.
BootWake ==
  /\ pc = "bootwait"
  /\ networkInit \/ ExitRequested \/ networkthread = 0 \/ Suspended
  /\ pc' = "bootcheck"
  /\ UNCHANGED <<flags, result, worker, created, ret, cancelNetworkInit, ExitRequested, booted,
                 forgets>>

\* mutant: the wait has no limit, as it had none once.
BootTimeoutNever == FALSE /\ UNCHANGED vars

\* NET_BOOT_TIMEOUT_SECS have passed.
BootTimeout ==
  /\ pc = "bootwait"
  /\ pc' = "bootcheck"
  /\ UNCHANGED <<flags, result, worker, created, ret, cancelNetworkInit, ExitRequested, booted,
                 forgets>>

BootCheck ==
  /\ pc = "bootcheck"
  /\ IF networkInit \/ ExitRequested
       THEN pc' = "bootend" /\ UNCHANGED <<netHalt, wpc, ret>>
       ELSE StopNetworkThread("bootprompt")
  /\ UNCHANGED <<netThreadExited, netThreadAbandoned, networkthread, result, retry, lease,
                 created, cancelNetworkInit, ExitRequested, booted, forgets>>

\* "Retry" or "Continue offline".
BootPrompt ==
  /\ pc = "bootprompt"
  /\ pc' \in {"bootstart", "bootend"}
  /\ UNCHANGED <<flags, result, worker, created, ret, cancelNetworkInit, ExitRequested, booted,
                 forgets>>

\* mutant: the worker that found the address is left where it is.
BootEndNoStop ==
  /\ pc = "bootend"
  /\ booted' = TRUE
  /\ pc' = "idle"
  /\ UNCHANGED <<flags, result, worker, created, ret, cancelNetworkInit, ExitRequested, forgets>>

\* With an address the worker is no longer needed.
BootEnd ==
  /\ pc = "bootend"
  /\ booted' = TRUE
  /\ IF networkInit THEN StopNetworkThread("idle")
                    ELSE pc' = "idle" /\ UNCHANGED <<netHalt, wpc, ret>>
  /\ UNCHANGED <<netThreadExited, netThreadAbandoned, networkthread, result, retry, lease,
                 created, cancelNetworkInit, ExitRequested, forgets>>

-----------------------------------------------------------------------------
(* InitializeNetwork(), whenever an online source is opened.               *)

InitEnter ==
  /\ pc = "idle" /\ booted /\ ~ExitRequested
  /\ ~networkInit
  /\ cancelNetworkInit' = FALSE
  /\ StartNetworkThread
  /\ pc' = "initwait"
  /\ UNCHANGED <<result, retry, lease, ret, ExitRequested, booted, forgets>>

\* The wait looks at the thread and at the Cancel button, and at nothing else.
InitWake ==
  /\ pc = "initwait"
  /\ networkthread = 0 \/ Suspended \/ cancelNetworkInit
  /\ StopNetworkThread("idle")
  /\ UNCHANGED <<netThreadExited, netThreadAbandoned, networkthread, result, retry, lease,
                 created, cancelNetworkInit, ExitRequested, booted, forgets>>

\* networkInitCallback(): the user presses Cancel.
Cancel ==
  /\ pc = "initwait"
  /\ ~cancelNetworkInit
  /\ cancelNetworkInit' = TRUE
  /\ UNCHANGED <<flags, result, worker, created, pc, ret, ExitRequested, booted, forgets>>

\* CheckMplayerNetwork(), on the cache thread: the interface lost its address.
CheckMplayerNetwork ==
  /\ booted
  /\ forgets < MaxForgets
  /\ forgets' = forgets + 1
  /\ networkInit' = FALSE
  /\ UNCHANGED <<flags, wiiIP, dns, worker, created, menu>>

\* ResetCB(), the sleep timer or the menu asks the application to end ...
RequestExit ==
  /\ ~ExitRequested
  /\ ExitRequested' = TRUE
  /\ UNCHANGED <<flags, result, worker, created, pc, ret, cancelNetworkInit, booted, forgets>>

\* ... and main() ends it once the menu has returned, or exitthread() does
\* wherever the others are: exit() takes every thread with it.
Shutdown ==
  /\ pc # "off" /\ ExitRequested
  /\ pc' = "off"
  /\ wpc' = [t \in Threads |-> "gone"]
  /\ UNCHANGED <<flags, result, retry, lease, created, ret, cancelNetworkInit, ExitRequested,
                 booted, forgets>>

Off == pc = "off" /\ UNCHANGED vars

MenuStep ==
  \/ StopExited \/ StopTimeout
  \/ BootEnter \/ BootStart \/ BootWake \/ BootTimeout \/ BootCheck \/ BootEnd
  \/ InitWake

Next ==
  \/ \E t \in Threads : WorkerStep(t) \/ ConfigReturns(t) \/ ConfigFails(t)
  \/ MenuStep
  \/ BootPrompt \/ InitEnter \/ Cancel \/ CheckMplayerNetwork \/ RequestExit \/ Shutdown \/ Off

Spec == Init /\ [][Next]_vars

\* Threads that can run do run, and sleeps end.  Nothing is assumed of
\* if_config(), of the user, or of the adapter.
FairSpec == Spec /\ WF_vars(MenuStep) /\ \A t \in Threads : WF_vars(WorkerStep(t))

-----------------------------------------------------------------------------
(* Properties.                                                             *)

Alive(t) == wpc[t] \notin {"new", "gone"}

FlagsOK ==
  /\ networkInit \in BOOLEAN /\ netThreadExited \in BOOLEAN /\ netThreadAbandoned \in BOOLEAN
  /\ cancelNetworkInit \in BOOLEAN /\ ExitRequested \in BOOLEAN /\ booted \in BOOLEAN

\* Types; in particular netcb() never counts its attempts below zero.
TypeOK ==
  /\ FlagsOK
  /\ netHalt \in {0, 2}
  /\ networkthread \in 0 .. MaxWorkers
  /\ wiiIP \in Leases \cup {None, Nonsense} /\ dns \in Leases \cup {None, Nonsense}
  /\ wpc \in [Threads -> WorkerStates] /\ retry \in [Threads -> 0 .. Retries]
  /\ lease \in [Threads -> Leases \cup {None, Nonsense}]
  /\ created \in 0 .. MaxWorkers
  /\ pc \in MenuStates /\ ret \in MenuStates
  /\ forgets \in 0 .. MaxForgets

\* "no second one may start" (netThreadAbandoned): every live worker is the one
\* the handle names, so that two never share netstack and the adapter, and a
\* worker that suspends "networkthread" suspends itself.
WorkerIsTheHandle == \A t \in Threads : Alive(t) => networkthread = t

\* When the network is announced, the address is usable and the resolver
\* queries that same lease's gateway, also after an earlier lease was lost.
AnnouncedIsComplete == networkInit => UsableAddress(wiiIP) /\ dns = wiiIP

\* Between calls no worker is left free to write wiiIP and networkInit "behind
\* the GUI's back": one that still runs is known to be abandoned, and has been
\* told to leave.
StragglersAreKnown ==
  pc = "idle" /\ ~ExitRequested =>
    \A t \in Threads : Alive(t) => netThreadAbandoned /\ netHalt = 2

\* "no longer waits for ever": the boot gate comes to its prompt or to its end,
\* also when if_config() never returns.
BootGateReturns == pc \in {"bootstart", "bootwait", "bootcheck"} ~>
                     pc \in {"bootprompt", "idle", "off"}

\* Cancel works while the probe hangs: InitializeNetwork() returns.
CancelReturns == pc = "initwait" /\ cancelNetworkInit ~> pc \in {"idle", "off"}

-----------------------------------------------------------------------------
(* The inductive invariant.                                                *)

\* netThreadExited is set last, so a thread that may be joined is gone.
ExitedIsGone == netThreadExited => \A t \in Threads : ~Alive(t)

\* What the worker has written when it announces the network.  It alone sets
\* networkInit, and it looked before it called if_config().
Publishing ==
  \A t \in Threads :
    /\ wpc[t] \in {"config", "address", "resolver", "publish"} => ~networkInit
    /\ wpc[t] \in {"address", "resolver", "publish"} => UsableAddress(lease[t])
    /\ wpc[t] \in {"resolver", "publish"} => wiiIP = lease[t]
    /\ wpc[t] = "publish" => dns = lease[t]

\* Where a worker may still run, the menu thread has told it to leave.
Told == \A t \in Threads : Alive(t) => netThreadAbandoned /\ netHalt = 2

MenuKnows ==
  /\ pc = "stopwait" => netHalt = 2 /\ networkthread # 0 /\ ret \in {"bootprompt", "idle"}
  /\ pc = "stopwait" /\ ret = "bootprompt" => ~booted
  /\ pc \in {"bootprompt", "idle"} /\ ~ExitRequested => Told
  /\ pc = "bootstart" /\ ~networkInit /\ ~ExitRequested => Told
  /\ pc = "bootend" /\ ~networkInit /\ ~ExitRequested => Told
  /\ pc \notin {"idle", "stopwait", "initwait", "off"} => ~booted

WorkerInv == WorkerIsTheHandle /\ ExitedIsGone /\ Publishing /\ AnnouncedIsComplete /\ MenuKnows
=============================================================================
