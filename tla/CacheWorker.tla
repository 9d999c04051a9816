----------------------------- MODULE CacheWorker -----------------------------
(***************************************************************************)
(* The life of the one cache thread: who starts it, parks it, and frees    *)
(* what it works on (cache2.c: stream_enable_cache, cache_uninit,          *)
(* ThreadProc, mplayercachethread; mplayer.c: PauseAndGotoGUI), and what   *)
(* hangs on stop_cache_thread besides: the cancel tokens of the radio and  *)
(* WebDAV transports and the gate that keeps WebDAV directory listings     *)
(* behind the audio (webdav_device.c).                                     *)
(*                                                                         *)
(* Threads: the cache worker (LWP priority 70), MPlayer (68), and below    *)
(* them the browser that lists directories and the thumbnail thread that   *)
(* opens WebDAV files of its own.  The bytes are RingCache's business:     *)
(* here a read returns, fails or is cancelled.                             *)
(***************************************************************************)
EXTENDS Integers

CONSTANTS
  MaxCaches,   \* bound on the caches allocated in a behaviour
  MaxFiles,    \* bound on playback_files, which drifts when an update is lost
  Background   \* which of "list" (the browser) and "thumb" (thumbnails) run

ASSUME BoundAssumption == MaxCaches \in Nat /\ MaxFiles \in Nat

VARIABLES
  stop,           \* stop_cache_thread
  cachearg,       \* the cache the worker is to serve, 0 for NULL
  live,           \* the caches allocated and not freed
  allocated,      \* caches allocated so far
  wpc, warg,      \* where the worker is, and ThreadProc's argument
  cache_fill,     \* cache_fill_status: "none" (-1), "low", or "high" (60% or more)
  pc,             \* where MPlayer's thread is
  kind,           \* its stream: "card", "dav", "radio", or "closed"
  cache_data, cache_pid,  \* of its stream
  after,          \* what follows cache_uninit(): "play" or "close"
  controlledbygui,
  playback_files, playback_cache_ready,
  lpc,            \* where the directory listing is
  tpc, tload      \* where the thumbnail thread is, and the count it has loaded

worker  == <<wpc, warg>>
caches  == <<cachearg, live, allocated>>
stream  == <<kind, cache_data, cache_pid, after>>
gate    == <<playback_files, playback_cache_ready>>
others  == <<lpc, tpc, tload>>
vars    == <<stop, caches, worker, cache_fill, pc, stream, controlledbygui, gate, others>>

Caches  == 1 .. MaxCaches
Kinds   == {"card", "dav", "radio"}

Init ==
  /\ stop = 1 /\ cachearg = 0 /\ live = {} /\ allocated = 0
  /\ wpc = "suspended" /\ warg = 0
  /\ cache_fill = "none"
  /\ pc = "idle" /\ kind = "closed" /\ cache_data = 0 /\ cache_pid = 0 /\ after = "close"
  /\ controlledbygui = 0
  /\ playback_files = 0 /\ playback_cache_ready = 0
  /\ lpc = "idle" /\ tpc = "idle" /\ tload = 0

-----------------------------------------------------------------------------
(* The cancel tokens.                                                      *)

\* webdav_device.c: the token of every WebDAV request, listings included.
playback_cancelled == playback_cache_ready = 1 /\ stop = 1

\* stream_gc_http.c: the token of the radio stream.
radio_cancelled == controlledbygui = 2 \/ (cache_pid = 1 /\ stop = 1)

\* Does the worker's read, under way in the transport, see a cancellation?
ReadCancelled == \/ kind = "dav" /\ playback_cancelled
                 \/ kind = "radio" /\ radio_cancelled

-----------------------------------------------------------------------------
(* The worker.                                                             *)

\* mplayercachethread: resumed, it serves cachearg or suspends itself again.
Wake ==
  /\ wpc = "awake"
  /\ IF cachearg # 0 THEN wpc' = "fill" /\ warg' = cachearg
                     ELSE wpc' = "suspended" /\ UNCHANGED warg
  /\ UNCHANGED <<stop, caches, cache_fill, pc, stream, controlledbygui, gate, others>>

\* cache_fill() reads from the stream ...
FillReads ==
  /\ wpc = "fill"
  /\ wpc' = "read"
  /\ UNCHANGED <<stop, caches, warg, cache_fill, pc, stream, controlledbygui, gate, others>>

\* ... or has no room, or is at the end of the file.
FillIdles ==
  /\ wpc = "fill"
  /\ wpc' = "control"
  /\ cache_fill' \in {"none", cache_fill}
  /\ UNCHANGED <<stop, caches, warg, pc, stream, controlledbygui, gate, others>>

\* The read returns or times out, and the fill status is computed again.
ReadReturns ==
  /\ wpc = "read"
  /\ wpc' = "control"
  /\ cache_fill' \in {"none", "low", "high"}
  /\ UNCHANGED <<stop, caches, warg, pc, stream, controlledbygui, gate, others>>

\* The transport's next look at the token ends the read.
ReadIsCancelled ==
  /\ wpc = "read"
  /\ ReadCancelled
  /\ wpc' = "control"
  /\ cache_fill' \in {"none", cache_fill}
  /\ UNCHANGED <<stop, caches, warg, pc, stream, controlledbygui, gate, others>>

\* while (cache_execute_control(s) && !stop_cache_thread)
Control ==
  /\ wpc = "control"
  /\ IF stop = 0 THEN wpc' = "fill" /\ UNCHANGED warg
                 ELSE wpc' = "leave" /\ warg' = 0
  /\ UNCHANGED <<stop, caches, cache_fill, pc, stream, controlledbygui, gate, others>>

\* ThreadProc has returned: SuspendCacheThread().
Suspend ==
  /\ wpc = "leave"
  /\ wpc' = "suspended"
  /\ UNCHANGED <<stop, caches, warg, cache_fill, pc, stream, controlledbygui, gate, others>>

WorkerStep == Wake \/ FillReads \/ FillIdles \/ ReadReturns \/ ReadIsCancelled \/ Control \/ Suspend

CacheThreadSuspended == wpc = "suspended"

\* LWP_ResumeThread() on a thread that is not suspended does nothing.
Resumed == IF CacheThreadSuspended THEN "awake" ELSE wpc

-----------------------------------------------------------------------------
(* MPlayer: opening a stream and starting its cache.                       *)

\* play_next_file takes a file.  A WebDAV file is first asked for with the
\* token (gc_dav_open, gc_dav_stat), then counted.
Open ==
  /\ pc = "idle"
  /\ kind' \in Kinds
  /\ IF kind' = "dav"
       THEN /\ ~playback_cancelled
            /\ playback_files < MaxFiles
            /\ playback_files' = playback_files + 1
            /\ playback_cache_ready' = IF playback_files = 0 THEN 0 ELSE playback_cache_ready
       ELSE UNCHANGED gate
  /\ pc' = "opened"
  /\ controlledbygui' = 0
  /\ cache_fill' = "none"
  /\ UNCHANGED <<stop, caches, worker, cache_data, cache_pid, after, others>>

\* There is no memory for a cache: a WebDAV file is given up, the rest is
\* played without one.
EnableFails ==
  /\ pc = "opened"
  /\ pc' = IF kind = "dav" THEN "close" ELSE "play"
  /\ UNCHANGED <<stop, caches, worker, cache_fill, stream, controlledbygui, gate, others>>

\* stream_enable_cache: the cache and the copy of the stream are allocated ...
EnableAlloc ==
  /\ pc = "opened"
  /\ allocated < MaxCaches
  /\ allocated' = allocated + 1
  /\ cache_data' = allocated + 1
  /\ live' = live \cup {allocated + 1}
  /\ stop' = 1
  /\ pc' = "enablewait"
  /\ UNCHANGED <<cachearg, worker, cache_fill, kind, cache_pid, after, controlledbygui, gate,
                 others>>

\* ... or the copy is not, and the cache is taken down again.
EnableHalf ==
  /\ pc = "opened"
  /\ allocated < MaxCaches
  /\ allocated' = allocated + 1
  /\ cache_data' = allocated + 1
  /\ live' = live \cup {allocated + 1}
  /\ pc' = "uninit"
  /\ after' = IF kind = "dav" THEN "close" ELSE "play"
  /\ UNCHANGED <<stop, cachearg, worker, cache_fill, kind, cache_pid, controlledbygui, gate>>
  /\ UNCHANGED others

\* The worker is parked: it is given the cache and resumed.
EnableStart ==
  /\ pc = "enablewait"
  /\ CacheThreadSuspended
  /\ cachearg' = cache_data
  /\ stop' = 0
  /\ cache_pid' = 1
  /\ wpc' = Resumed
  /\ pc' = "prefill"
  /\ UNCHANGED <<live, allocated, warg, cache_fill, kind, cache_data, after, controlledbygui, gate,
                 others>>

\* The first prefill is done; a WebDAV track has a second one to come.
Prefilled ==
  /\ pc = "prefill"
  /\ pc' = IF kind = "dav" THEN "probe" ELSE "play"
  /\ UNCHANGED <<stop, caches, worker, cache_fill, stream, controlledbygui, gate, others>>

\* The prefill was interrupted, or found nothing.
PrefillFails ==
  /\ pc = "prefill"
  /\ pc' = "uninit"
  /\ after' \in {"close", IF kind = "dav" THEN "close" ELSE "play"}
  /\ UNCHANGED <<stop, caches, worker, cache_fill, kind, cache_data, cache_pid, controlledbygui,
                 gate, others>>

\* The second prefill is done: WebDAVPlaybackCacheReady().
WebDAVPlaybackCacheReady ==
  /\ pc = "probe"
  /\ playback_cache_ready' = 1
  /\ pc' = "play"
  /\ UNCHANGED <<stop, caches, worker, cache_fill, stream, controlledbygui, playback_files, others>>

\* The file has ended or was ended, or the format was not recognised.
EndFile ==
  /\ pc \in {"probe", "play"}
  /\ pc' = "close"
  /\ UNCHANGED <<stop, caches, worker, cache_fill, stream, controlledbygui, gate, others>>

\* The menu asks for the file to end, here or in LoadMPlayerFile().
RequestEnd ==
  /\ pc # "idle"
  /\ controlledbygui # 2
  /\ controlledbygui' = 2
  /\ UNCHANGED <<stop, caches, worker, cache_fill, pc, stream, gate, others>>

-----------------------------------------------------------------------------
(* PauseAndGotoGUI(), for video: a WebDAV library is played as audio.      *)

\* mutant: the worker is waited for, but not told to park.
PauseNotTold ==
  /\ pc = "play" /\ kind # "dav"
  /\ pc' = "pausewait"
  /\ UNCHANGED <<stop, caches, worker, cache_fill, stream, controlledbygui, gate, others>>

\* The worker is told to park, and waited for.
Pause ==
  /\ pc = "play" /\ kind # "dav"
  /\ stop' = 1
  /\ pc' = "pausewait"
  /\ UNCHANGED <<caches, worker, cache_fill, stream, controlledbygui, gate, others>>

Paused ==
  /\ pc = "pausewait"
  /\ CacheThreadSuspended
  /\ controlledbygui' = IF controlledbygui = 0 THEN 1 ELSE controlledbygui
  /\ pc' = "paused"
  /\ UNCHANGED <<stop, caches, worker, cache_fill, stream, gate, others>>

\* mutant: the flag is left set, so the worker parks again at once.
ResumeStopped ==
  /\ pc = "paused"
  /\ controlledbygui # 2
  /\ controlledbygui' = 0
  /\ wpc' = Resumed
  /\ pc' = "play"
  /\ UNCHANGED <<stop, caches, warg, cache_fill, stream, gate, others>>

\* The menu gives control back (controlledbygui is 0 again) ...
Resume ==
  /\ pc = "paused"
  /\ controlledbygui # 2
  /\ controlledbygui' = 0
  /\ stop' = 0
  /\ wpc' = Resumed
  /\ pc' = "play"
  /\ UNCHANGED <<caches, warg, cache_fill, stream, gate, others>>

\* ... or wants the file ended.
PauseEnds ==
  /\ pc = "paused"
  /\ controlledbygui = 2
  /\ pc' = "close"
  /\ UNCHANGED <<stop, caches, worker, cache_fill, stream, controlledbygui, gate, others>>

-----------------------------------------------------------------------------
(* free_stream() and cache_uninit().                                       *)

FreeStream ==
  /\ pc = "close"
  /\ pc' = "uninit"
  /\ after' = "close"
  /\ UNCHANGED <<stop, caches, worker, cache_fill, kind, cache_data, cache_pid, controlledbygui,
                 gate, others>>

\* mutant: the worker is waited for, but not told to stop.
UninitNotTold ==
  /\ pc = "uninit"
  /\ pc' = IF cache_pid = 1 THEN "uninitwait" ELSE "uninitfree"
  /\ UNCHANGED <<stop, caches, worker, cache_fill, stream, controlledbygui, gate, others>>

\* "Cancel network I/O before waiting."
Uninit ==
  /\ pc = "uninit"
  /\ IF cache_pid = 1 THEN stop' = 1 /\ pc' = "uninitwait"
                      ELSE pc' = "uninitfree" /\ UNCHANGED stop
  /\ UNCHANGED <<caches, worker, cache_fill, stream, controlledbygui, gate, others>>

\* mutant: the wait is bounded, as a track change asks for.
UninitGivesUp ==
  /\ pc = "uninitwait"
  /\ pc' = "uninitfree"
  /\ UNCHANGED <<stop, caches, worker, cache_fill, stream, controlledbygui, gate, others>>

\* "Never free the shared stream while the worker is still running"
UninitWaited ==
  /\ pc = "uninitwait"
  /\ CacheThreadSuspended
  /\ pc' = "uninitfree"
  /\ UNCHANGED <<stop, caches, worker, cache_fill, stream, controlledbygui, gate, others>>

Freed ==
  /\ pc = "uninitfree"
  /\ live' = live \ {cache_data}
  /\ cache_data' = 0 /\ cache_pid' = 0
  /\ pc' = IF after = "play" THEN "play" ELSE "closestream"
  /\ UNCHANGED <<stop, allocated, worker, kind, after, controlledbygui, gate, others>>

\* mutant: the fill status of the dead cache is left behind.
UninitFreeStale == Freed /\ cachearg' = 0 /\ UNCHANGED cache_fill

UninitFree == Freed /\ cachearg' = 0 /\ cache_fill' = "none"

\* s->close(s): for WebDAV, dav_close().
CloseStream ==
  /\ pc = "closestream"
  /\ IF kind = "dav"
       THEN LET n == IF playback_files > 0 THEN playback_files - 1 ELSE playback_files
            IN  /\ playback_files' = n
                /\ playback_cache_ready' = IF n = 0 THEN 0 ELSE playback_cache_ready
       ELSE UNCHANGED gate
  /\ kind' = "closed"
  /\ pc' = "idle"
  /\ UNCHANGED <<stop, caches, worker, cache_fill, cache_data, cache_pid, after, controlledbygui,
                 others>>

-----------------------------------------------------------------------------
(* A directory listing: gc_dav_list_wait with wait_for_audio_priority.     *)

ListStart ==
  /\ "list" \in Background
  /\ lpc = "idle"
  /\ lpc' = "gate"
  /\ UNCHANGED <<stop, caches, worker, cache_fill, pc, stream, controlledbygui, gate, tpc, tload>>

\* wait_for_audio_priority: the audio needs the network more.
AudioFirst ==
  /\ playback_files # 0 /\ playback_cache_ready = 1 /\ stop = 0
  /\ cache_fill = "low"

ListPass ==
  /\ lpc = "gate"
  /\ ~AudioFirst
  /\ lpc' = "read"
  /\ UNCHANGED <<stop, caches, worker, cache_fill, pc, stream, controlledbygui, gate, tpc, tload>>

\* A chunk arrives; the listing is complete, or asks at the gate again.
ListRead ==
  /\ lpc = "read"
  /\ ~playback_cancelled
  /\ lpc' \in {"gate", "idle"}
  /\ UNCHANGED <<stop, caches, worker, cache_fill, pc, stream, controlledbygui, gate, tpc, tload>>

\* The listing's own connection asks the token, and fails.
ListIsCancelled ==
  /\ lpc = "read"
  /\ playback_cancelled
  /\ lpc' = "cancelled"
  /\ UNCHANGED <<stop, caches, worker, cache_fill, pc, stream, controlledbygui, gate, tpc, tload>>

ListReport ==
  /\ lpc = "cancelled"
  /\ lpc' = "idle"
  /\ UNCHANGED <<stop, caches, worker, cache_fill, pc, stream, controlledbygui, gate, tpc, tload>>

-----------------------------------------------------------------------------
(* The thumbnail thread opens and closes a WebDAV picture.  It takes no    *)
(* lock, and MPlayer preempts it: each load and each store of the volatile *)
(* playback_files and playback_cache_ready is a step.  MPlayer's own are   *)
(* not interrupted by it.                                                  *)

ThumbOpenLoad ==
  /\ "thumb" \in Background
  /\ tpc = "idle"
  /\ ~playback_cancelled
  /\ playback_files < MaxFiles
  /\ tpc' = "opening" /\ tload' = playback_files
  /\ UNCHANGED <<stop, caches, worker, cache_fill, pc, stream, controlledbygui, gate, lpc>>

ThumbOpenStore ==
  /\ tpc = "opening"
  /\ playback_files' = tload + 1
  /\ tpc' = (IF tload = 0 THEN "first" ELSE "open") /\ tload' = 0
  /\ UNCHANGED <<stop, caches, worker, cache_fill, pc, stream, controlledbygui, playback_cache_ready,
                 lpc>>

ThumbCloseTest ==
  /\ tpc = "open"
  /\ tpc' = IF playback_files > 0 THEN "counted" ELSE "closed"
  /\ UNCHANGED <<stop, caches, worker, cache_fill, pc, stream, controlledbygui, gate, lpc, tload>>

ThumbCloseLoad ==
  /\ tpc = "counted"
  /\ tpc' = "closing" /\ tload' = playback_files
  /\ UNCHANGED <<stop, caches, worker, cache_fill, pc, stream, controlledbygui, gate, lpc>>

\* The count is below zero after a lost update and a close in between.
ThumbCloseStore ==
  /\ tpc = "closing"
  /\ playback_files' = tload - 1
  /\ tpc' = "closed" /\ tload' = 0
  /\ UNCHANGED <<stop, caches, worker, cache_fill, pc, stream, controlledbygui, playback_cache_ready,
                 lpc>>

ThumbClosed ==
  /\ tpc = "closed"
  /\ tpc' = IF playback_files = 0 THEN "last" ELSE "idle"
  /\ UNCHANGED <<stop, caches, worker, cache_fill, pc, stream, controlledbygui, gate, lpc, tload>>

\* playback_cache_ready = 0 after the first file's open and the last one's close,
\* as they appeared a moment ago.
ThumbNotReady ==
  /\ tpc \in {"first", "last"}
  /\ playback_cache_ready' = 0
  /\ tpc' = IF tpc = "first" THEN "open" ELSE "idle"
  /\ UNCHANGED <<stop, caches, worker, cache_fill, pc, stream, controlledbygui, playback_files, lpc,
                 tload>>

-----------------------------------------------------------------------------

\* What MPlayer does once it is called upon; opening and ending a file, and
\* the second prefill, are the user's and the network's business.
MPlayerStep ==
  \/ EnableStart \/ Paused \/ PauseEnds
  \/ FreeStream \/ Uninit \/ UninitWaited \/ UninitFree \/ CloseStream

Next ==
  \/ WorkerStep
  \/ MPlayerStep
  \/ Open \/ EnableFails \/ EnableAlloc \/ EnableHalf \/ Prefilled \/ PrefillFails
  \/ WebDAVPlaybackCacheReady \/ EndFile \/ RequestEnd \/ Pause \/ Resume
  \/ ListStart \/ ListPass \/ ListRead \/ ListIsCancelled \/ ListReport
  \/ ThumbOpenLoad \/ ThumbOpenStore \/ ThumbCloseTest \/ ThumbCloseLoad \/ ThumbCloseStore
  \/ ThumbClosed \/ ThumbNotReady

Spec == Init /\ [][Next]_vars

\* Both threads run, and reads return: a card's do, and the transport gives
\* every transfer fifteen seconds.
FairSpec == Spec /\ WF_vars(WorkerStep) /\ WF_vars(MPlayerStep)

-----------------------------------------------------------------------------
(* Properties.                                                             *)

\* Types of the shared variables and of the threads' states.
TypeOK ==
  /\ stop \in {0, 1} /\ cachearg \in 0 .. MaxCaches /\ live \subseteq Caches
  /\ allocated \in 0 .. MaxCaches
  /\ wpc \in {"suspended", "awake", "fill", "read", "control", "leave"} /\ warg \in 0 .. MaxCaches
  /\ cache_fill \in {"none", "low", "high"}
  /\ pc \in {"idle", "opened", "enablewait", "prefill", "probe", "play", "pausewait", "paused",
             "close", "uninit", "uninitwait", "uninitfree", "closestream"}
  /\ kind \in Kinds \cup {"closed"} /\ cache_data \in 0 .. MaxCaches /\ cache_pid \in {0, 1}
  /\ after \in {"play", "close"} /\ controlledbygui \in {0, 1, 2}
  /\ playback_files \in -1 .. MaxFiles /\ playback_cache_ready \in {0, 1}
  /\ lpc \in {"idle", "gate", "read", "cancelled"}
  /\ tpc \in {"idle", "opening", "first", "open", "counted", "closing", "closed", "last"}
  /\ tload \in -1 .. MaxFiles

Serving == wpc \in {"fill", "read", "control"}

\* While the worker is inside ThreadProc, the cache it was given is allocated
\* and belongs to the stream that is open: neither cache_uninit nor the close
\* that follows it pulls anything from under a read.
NoUseAfterFree == Serving => warg \in live /\ warg = cache_data /\ kind # "closed"

\* A stream that is played from a cache has the worker behind it, on its own
\* cache and not about to park, also after a pause: nobody waits for a fill
\* that will not come.
PlayingIsServed ==
  pc \in {"prefill", "probe", "play"} /\ cache_pid = 1 =>
    /\ stop = 0 /\ cachearg = cache_data
    /\ Serving \/ wpc = "awake"

\* The listing gate waits for audio only while a worker fills a cache, so it
\* cannot wait for a status that nobody computes any more.
GateHasFiller == AudioFirst => cache_pid = 1 /\ wpc # "suspended"

\* cache_uninit comes back, and the stream is closed.
CloseReturns == pc = "close" ~> pc = "idle"

\* The menu that asked for the pause gets control.
PauseReturns == pc = "pausewait" ~> pc = "paused"

\* "Stopping or changing a WebDAV track now cancels its network request"
\* (CHANGELOG.md): the read that cache_uninit waits for sees the token.
StopCancelsRequest == pc = "uninitwait" /\ wpc = "read" /\ kind = "dav" => ReadCancelled

-----------------------------------------------------------------------------
(* The inductive invariant.                                                *)

\* cachearg, cache_data and cache_pid agree, and the worker serves cachearg.
Agreement ==
  /\ Serving => warg = cachearg /\ cachearg # 0
  /\ cachearg # 0 => cachearg = cache_data /\ cache_pid = 1
  /\ cache_pid = 1 => cachearg # 0
  /\ cache_data # 0 => cache_data \in live

\* What MPlayer's thread knows where it is.
MPlayerKnows ==
  /\ kind = "closed" => pc = "idle"
  /\ pc \in {"idle", "opened", "closestream"} => cache_data = 0
  /\ pc = "enablewait" => cache_data # 0 /\ cachearg = 0
  /\ pc \in {"paused", "uninitfree"} /\ cache_pid = 1 => wpc = "suspended"

CacheInv == Agreement /\ MPlayerKnows /\ PlayingIsServed

\* The fill status is that of a live cache, and a worker that does not serve
\* that cache has been told to stop.
FillInv ==
  /\ cache_fill # "none" => cache_pid = 1
  /\ wpc \in {"suspended", "leave"} /\ cache_pid = 1 => stop = 1
=============================================================================
