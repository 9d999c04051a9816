# WiiMC-GCN-Online in TLA+

WiiMC-GCN-Online is MPlayer with a menu, ported to the Nintendo GameCube and
extended with network sources: HTTP(S) radio and a read-only WebDAV music
library. This directory holds TLA+ models of the parts of it that are hard to
test: several LWP threads at strict priorities that share flags without locks,
a read-ahead ring filled over a slow network, an adapter driver that may never
return, and files on a card that can be pulled out or reset at any moment.

Paths below are relative to the repository root, `src/`.

## 1. Inventory

### Threads

| Thread | Priority | Runs |
|---|---|---|
| cache worker | 70 (`wiimc.cpp:1552`) | `mplayercachethread`, `ThreadProc`, `cache_fill` |
| MPlayer | 68 (`wiimc.cpp:932`) | `mplayer.c`: demuxer, decoder, stream open and close |
| main / menu | 64 | the menu, the boot gate, `InitializeNetwork`, `LoadMPlayerFile` |
| GUI, thumbnails, directory parsing | 60 and below | drawing, artwork, listings |
| network worker, exit | 40 (`networkop.cpp:296`) | `netcb`, `exitthread` |

The scheduler is preemptive with strict priorities: a thread runs only while
every more urgent one sleeps or waits. The models use this (`ReaderMayRun` in
RingCache; one action per stretch between two sleeps of the menu thread in
NetworkWorker; the thumbnail thread's split load and store in CacheWorker; one
action per stretch of MPlayer between two of its sleeps in Player). Where two
threads only meet under mutexes, as in the resolver and the directory cache, the
models leave the priorities out and interleave freely.

### Components

| Component | State it keeps | Operations | Interacts with | Hard because | Correct when |
|---|---|---|---|---|---|
| Playback cache ring, `stream/cache2.c` | ring, four 64-bit positions under `cache_pos_mutex`, `eof` latch | `cache_fill`, `cache_read`, `cache_flush`, `cache_stream_fill_buffer`, `cache_stream_seek_long`, `stream_cache_prefill` | stream layer below, demuxer above | copy and network read run outside the lock, seeks during reads, wrap arithmetic, EOF latch | the reader gets the file's own bytes, consecutively; every call returns |
| Cache worker, `cache2.c`, `wiimc.cpp`, `mplayer.c` | `stop_cache_thread`, `cachearg`, suspended state, `cache_pid` | `stream_enable_cache`, `cache_uninit`, `PauseAndGotoGUI`, `ThreadProc` | every stream, the cancel tokens | one thread parked and resumed from three places, memory freed under it | nothing is freed under a read; a played cache is served |
| Control mailbox, `cache2.c` | one request slot under `cache_mutex` | `cache_do_control`, `cache_execute_control` | demuxer, worker | a request given up is executed later | not modelled (section 6) |
| Stream layer, `stream/stream.c`, `stream_file.c` | `pos`, `eof`, `error` | `stream_read_internal`, `stream_reset`, `stream_seek_internal` | cache, devices | recovery resets the position, a failed seek moves it | position and descriptor agree, unless a seek failed |
| WebDAV device, `utils/webdav_device.c` | `playback_files`, `playback_cache_ready`, LRU directory cache under `dav_lock` | `dav_open`, `dav_close`, `dav_read`, `dav_diropen`, `wait_for_audio_priority`, cancel token | cache worker, browser, thumbnails | counters without a lock, one token for tracks and listings | audio goes first, listings are not starved, stop cancels; the newest listing is served, none is freed under a copy |
| WebDAV and HTTP clients, `utils/webdav_client.c`, `http_client.c` | position, connection, framing | range `GET`, `PROPFIND`, redirects, chunked bodies | transport | server answers of every kind, resuming | bytes belong to the position asked for |
| Transport and DNS, `utils/net_transport.c`, `dns.c` | socket, deadlines, `dns_server`, table of addresses under `dns_mutex` | connect, read, write, `dns_resolve`, `dns_cache_flush`, `dns_set_server` | clients, network worker | timeouts, cancellation, a flush during a query | every call ends; no address outlives a flush or a lease |
| Radio, `utils/radio_stream.c`, `stream/stream_gc_http.c` | ICY counter, title | `gc_radio_read` | cache | no seek, endless | every read returns |
| TLS, `utils/gc_tls.c` | seed on the card, generator, CA bundle | `prepare`, `gc_tls_open`, `random_bytes` | transport | reset between two card operations | a seed is used once and never lost |
| Network worker, `networkop.cpp` | `netHalt`, `networkInit`, handle, exited and abandoned flags, `wiiIP` | `netcb`, start, stop, boot gate, `InitializeNetwork` | menu, resolver | `if_config` never returns, abandoned worker | one worker, complete results, the menu comes back |
| GUI–MPlayer handshake, `wiimc.cpp`, `mplayer.c` | `controlledbygui`, file name | `LoadMPlayerFile`, `StopMPlayerFile`, next file | menu, MPlayer | one flag with four values, written by both threads, ten-second limit | the menu gets control back, a file handed over is taken |
| Folder queue, playlists, `wiimc.cpp`, `musicplaylist.cpp` | queue, index, shuffle order | `FindNextFile` | handshake | two callers on two threads, edits in the middle of a shuffled pass, no lock | a button press moves on, a pass fits the list |
| Browser, file operations, settings, menu, video, input, log, memory managers | – | – | – | sequential, I/O, drawing | not modelled (see `PROJECT.json`) |
| MPlayer's demuxers and codecs, FFmpeg, FreeType, mbedTLS, Mini-XML | – | – | – | vendored | not modelled |

`PROJECT.json` lists the same components with their status, and under
`hazards` what is hard to test in them, each at its line, with the properties
that would catch it.

## 2. Modules

```
SeekableStream            what a cached stream promises its reader
      ^ refinement (KeepsPromise)
RingCache                 the ring, one filler, one reader
  RingCachePositions -> RingCacheProofs
TrackSource               the source a cache may rely on
      ^ refinement (ServesCache)
DavSource                 a WebDAV file and its connection under that filler
  DavSourceProofs
CacheWorker               the worker's life, cancel tokens, listing gate
  CacheWorkerProofs
NetworkWorker             netcb, boot gate, InitializeNetwork, exit
  NetworkWorkerProofs
MusicPlaylist             the playlist and its shuffled pass
Player                    extends it: menu thread and MPlayer, folder queue
  MCPlayer, PlayerProofs
Resolver                  dns.c and gc_net_connect_socket, for every thread
DavDirectory              extends it: dav_diropen and the directory cache
  MCDavDirectory, DavDirectoryProofs
TlsSeed                   prepare(): seed rotation with resets and card faults
  TlsSeedProofs
```

A component module is run by TLC directly, or through an `MC` module where a
constant is a function: its `.cfg` gives the constants small values. Definitions marked
`mutant` are never used by a specification; each is a
plausible bug in the definition that follows it, and shows that the property it
belongs to can fail.

### RingCache and SeekableStream

State: the four shared positions `min`, `max`, `read`, `offset` (`min_filepos`,
`max_filepos`, `read_filepos`, `offset`), the ring, the latch `eof`, the source
(`fd` is the real file position, `spos`, `seof`, `serror` are `stream->pos`,
`eof`, `error`, `type` whether it is a live stream), and each thread's program
counter and locals. Two variables observe: `astray` says that the source did not
follow the last seek asked of it, `sought` that the reader has sought and been given
nothing since. A file unit is
represented by its own position, so "the right byte" means "the slot holds q".
`Torn` is a slot that is being written or holds nothing.

Steps: each critical section of `cache_pos_mutex`, each `memcpy` and each
blocking call is an action. `FillBegin` .. `FillCommit` are `cache_fill`;
`FlushGet`, `FlushReset`, `FillSeek` the flush and seek in it; `ReadOk`,
`ReadEnd`, `ReadError` the outcomes of `stream_read_internal` (with `SeekBack`, its
recovery); `FillFailed` the
retry and end-of-file decision. `SeekPublish`, `SeekClearEof` are
`cache_stream_seek_long`; `LoopAbort` .. `Advance` are `cache_read`; `Prefill`,
`PrefillDone`, `PrefillStalled` are `stream_cache_prefill`.

Abstractions: a unit stands for a fixed share of a sector; the variable
`cache_fill_status` itself is left out, and `FillFailed` computes its 5 % test
from the positions (`(max - read) * 20 >= BufferSize`). `MaxRetries` stands for
500. `LoopEof` takes the snapshot and the look at `s->eof` that follows it in one
step; in between only the filler could run, and the loop would come around once more.

A seek of the source may fail (`SourceSeek`): `stream_file.c` sets `stream->pos`
first, `lseek` fails and leaves the descriptor, and neither `cache_fill` nor the
recovery of a failed read looks at the result. `errno` is whatever the last failing
call left, so that any end may be taken for an error (`StreamReadFailed`). A live
stream is one without a seek method; its demuxer may seek anywhere, and once
`cache_fill` has dropped its window the stream is astray for good.

SeekableStream is the abstract view: a position, the units delivered by the
current call, and an excuse (interrupt, error, stall) without which a call is
never short before the end of the file. A seek may leave its reader `lost`, before
anything is delivered from there and only with an excuse or on a live stream
(`Reposition`). `Promise` in RingCache maps `tell` and `rbuf` to it, and `lost` to
`astray`.

### DavSource and TrackSource

State: the open `gc_dav_file` (`size`, `position`), its `gc_http` (`conn`,
`failed`, `heof`, `chunked`, `left`, `total`), the body the server is sending
(`next`, `stop`, and `src`, the size of the file it belongs to), the stream layer
(`spos`, `seof`, `serror`), the cache's eof latch, and where the cache worker is
in a read. `file` is what the server has now; `asked` records that a request was
sent since the last unit arrived.

Actions: `Fill` is `cache_fill` down to `gc_dav_read`'s first decision; `Accepted`
and `Refused` are `gc_http_open` with the checks of `gc_dav_read`; `Data`,
`BodyEnds`, `BodyFails`, `BodyOver` the outcomes of `gc_http_read`; `ReadFails`
the recovery of `stream_read_internal` and the retry decision of `cache_fill`;
`Seek` its flush and seek. The stack runs on one thread, so a step per blocking
call is enough; the others are the server (`Replace`, `Answers`) and the reader
(`ClearEof`).

Abstractions: RingCache is replaced by what it guarantees (the window ends at the
source's position, so a seek never goes to where the source already is) and by a
free choice of whether 5 % is buffered. A server names its file's size and its
body's length correctly, but may ignore the range, send less than asked for, or
have another file by now. Redirects end in an answer. A file is told from its
replacement by size, as in the code.

TrackSource is the contract between the two: a position that only seeks and
delivered units move, failures that leave it where it is, and an end that, without
an error, is the end. RingCache's source (`ReadOk`, `ReadEnd`, `ReadError`,
`FillSeek`) takes steps of this kind; DavSource shows that a WebDAV track does
(`ServesCache`), with connections, framing and the recovery's reset and seek
hidden. In the other direction RingCache's `SourceAligned` is what justifies that
DavSource never seeks to where it stands. The contract is also where a unit's
meaning ends: where in the file the unit is from is `BodyAtPosition`. Of which file
it is, the code knows only the size that an answer names (`webdav_client.c:292`): a
replacement of the same size, or an answer without a size, is not noticed.

### CacheWorker

State: `stop` (`stop_cache_thread`), `cachearg`, the set `live` of allocated
caches, the worker's control point `wpc` and argument `warg`, MPlayer's control
point `pc` with its stream's `kind`, `cache_data` and `cache_pid`, the WebDAV
gate (`playback_files`, `playback_cache_ready`), `controlledbygui`, and the
control points of a directory listing and of the thumbnail thread (`tpc`, with the
count it has loaded). `cache_fill`
is `cache_fill_status` in three classes: unknown, under and over the 60 % that
`DAV_AUDIO_RESUME_PERCENT` asks for.

Actions follow the code's order: `EnableAlloc` / `EnableHalf` / `EnableFails`,
`EnableStart`, `Prefilled` / `PrefillFails` (`stream_enable_cache` and its
callers), `WebDAVPlaybackCacheReady` after the second prefill, `Pause` ..
`PauseEnds` (`PauseAndGotoGUI`), `FreeStream`, `Uninit`, `UninitWaited`,
`UninitFree`, `CloseStream`. `ListPass` is `wait_for_audio_priority` letting a
listing on, `ListIsCancelled` the transport's look at the token. Each load and each
store of the two volatile variables by the thumbnail thread is a step (`ThumbOpenLoad`
.. `ThumbNotReady`); MPlayer's are one step, because the thumbnail thread cannot
preempt it.

Abstraction: a read returns, fails or is cancelled; bytes are RingCache's. The
opening request of a WebDAV file is one step. Video, and so `PauseAndGotoGUI`, is
not played from WebDAV (README.md: MP3 playback).

### NetworkWorker

State: `netHalt`, `networkInit`, `netThreadExited`, `netThreadAbandoned`,
`networkthread`, `wiiIP`, `dns` (the lease whose gateway, or absence of one, was
given to `dns_set_server`), per thread the control point, `retry` and lease in
`netcb`, and the menu thread's control point `pc` with its return point `ret`
for `StopNetworkThread`. The worker takes a step per test and per assignment.
`StopTimeout` fires only when the worker is in one of the three states it may not
leave within two seconds (`Unresponsive`): inside `if_config()`, waiting for the
resolver's mutex, or suspended. The static-address path
calls the same `if_config()` and differs only in its arguments.

### MusicPlaylist and Player

State: the playlist (`playlist`, `numEntries`, `selIndex`, `shuffleList`,
`shuffleIndex`) and the edit of it under way (`step`, `entry`, `place`), the folder
queue, `controlledbygui`, `filename` (the name MPlayer takes its file from),
`loadedFile`, `forceNextFile`, `playOrder`, where MPlayer is (`mpc`) and how its last
file ended (`end_film_error`), where the menu thread is (`gpc`) and the folder it
shows. Two variables observe: `torn` says that, since the playlist was last cleared,
`FindNextFile` ran in the middle of an edit or an enqueue ran out of memory;
`crashed` that a walk followed a null or a freed pointer, which halts the console.

MPlayer: `PlayNextFile` is `play_next_file` up to its first sleep, with its own
`FindNextFile`; `Poll` the loop that follows; `OpenAudio`, `OpenFails`, `PlayEnds`
the stretches between opening a stream and the next file. Menu: `Select` ..
`BuildFolderQueueEnd` a song chosen in the browser, taken apart because MPlayer may
look for its next file in the middle; `LoadStops` .. `LoadReady` `LoadMPlayerFile` and
`LoadNewFile` with their waits; `NextRequest` .. `NextLoad` the Next button;
`StartPlaylist`, `SetOrder` and the edits the audio bar and the music browser.
`FindNextFile` is one operator that both threads use; `FolderQueueNext` and
`PlaylistAdvance` are its two halves.

An edit of the playlist is a step per assignment a walk can tell apart, because
MPlayer preempts the menu anywhere: `AddEntry` (an entry without a name is linked),
`AddEntryCount`, `EnqueueName`, `EnqueueFile` (the reset of the pass), with the two
ways out without memory (`EnqueueFails`: the entry goes, the count stays up and the
pass is not reset; `AddEntryFails`); `Unlink`, `Deselect`, `RemoveResetsPass`,
`Remove`; `ResetFrees`, `ResetMusic`. A folder or a playlist file is a sequence of
songs added one by one, removed one by one.

Abstractions: a path is a song, and a folder's listing a constant. A wait with a
limit ends when its condition holds, or, by the limit, only while MPlayer opens or
closes a stream (`Unresponsive`). While the queue's names are freed, a name read
from it is any song. The closing of a stream is part of the way to `play_next_file`.
In the playlist: entries of an added folder come in the order that the sort at the
end gives, and the lists in the middle of that sort are left out; a test and the store
that follows it (`selIndex`), and the unlinking and freeing of one entry, are one step;
that `malloc` of the shuffled order fails, and the loop over the browser's icons in
`FindNextFile`, are left out. Videos are left out: while one plays the menu does not
run. Subtitles are off, so that `LoadMPlayerFile` does not wait for `ParseDone`
(`wiimc.cpp:1046`).

### Resolver and DavDirectory

State: `dns_server`, the table `cache`, `dns_mutex`, and for each thread its place,
the host it connects to, the server it asked and the tries used up; the directory
cache as two orders of the same entries, the list (`directory`) and the order of
their stamps (`recent`), with `item`, `bytes` and `dav_lock`; and what each
`dav_diropen` holds (`path`, `copying`). `overtaken` is an observer: the
queries that were sent before the last flush.

Actions: `DnsResolve`, `DnsResolveLocal`, `DnsAnswer`, `DnsTryFails`,
`DnsNoSocket` are `dns_resolve`; `Connected`, `ConnectNotTried`, `ConnectFails` are
`gc_net_connect_socket`, and `DnsCacheFlush` what it does after a failure;
`NewLease` is the network worker's `dns_set_server`. `CacheHit`, `CacheCopied`,
`CopyFails`, `CacheMiss` are `cache_copy`; `BodyEnds`, `ReadFails`, `ListRead` the
`PROPFIND`: the body ends or fails, and the parser takes it or refuses it;
`StoreSkipped` .. `Store` `cache_store`, a step per eviction.

Abstractions: an address is the server that gave it. What a body holds is left out:
a body without length or chunking that is cut reads as complete (`http_client.c:292`),
and only the XML parser, which is external, can see that the listing is not whole. The
token of CacheWorker is one of the reasons a read fails; the gate's wait before a read
(`wait_for_audio_priority`) is CacheWorker's and not a step here, so `DirOpenReturns`
is about the two mutexes, the queries and the evictions.

### TlsSeed

State: the two files (absent, torn, or a numbered seed), `prepare()`'s control
point, generator seed, next seed, `ready`, and the history variable `served`:
the seeds that have backed a session. Each card operation is an action with a
failing twin; `Reset` may strike between any two. The first seed is the one
`tools/prepare-sd.ps1` writes.

## 3. Runs

| Run | Module | Checks | Shows |
|---|---|---|---|
| `ring_file` | RingCache | `WindowFits` `WindowHoldsFile` `DeliversFile` `ReaderOwnsPosition` `EofIsTheEnd` `ReaderStaysInWindow` `HistoryKept` `KeepsPromise` `ReadReturns` `PrefillReturns` | 730 k states, a file and a live stream: with seeks, short reads, an interrupt and a fault (a read error, a seek that fails unnoticed, thirty silent seconds) the reader gets the file as long as the source followed the last seek, and every read and prefill returns |
| `dav_source` | DavSource | `BodyAtPosition` `EndIsTheEnd` `ServesCache` | 8.6 k states: every kind of answer, cut and replacement of the file between reads and seeks; the whole is a TrackSource |
| `dav_retry` | DavSource | `RetriesReachServer` (violated) | retries after a lost connection never make a request |
| `cache_worker` | CacheWorker | `NoUseAfterFree` `PlayingIsServed` `GateHasFiller` `CloseReturns` `PauseReturns` | 235 k states: two caches after each other, all kinds of streams, listing and thumbnails beside them |
| `cache_cancel` | CacheWorker | `StopCancelsRequest` (violated) | no cancellation before the second prefill is complete |
| `net_worker` | NetworkWorker | `WorkerIsTheHandle` `AnnouncedIsComplete` `StragglersAreKnown` `BootGateReturns` `CancelReturns` | 44 k states: boot gate, initialisation, Cancel, exit and a hanging `if_config()` |
| `player` | MCPlayer | `HandoverHasFile` `ShuffleFits` `LoadReturns` `EndAnswered` | 1.03 M states: songs chosen, skipped, ended and failing in every phase of the handshake, with a folder queue or a playlist that is edited and enqueued without memory while MPlayer walks it |
| `player_next` | MCPlayer | `NextAdvances` (violated) | MPlayer's own `FindNextFile` consumes the flag a button press raised |
| `player_shuffle` | MCPlayer | `EditResetsShuffle` (violated) | a shuffled order made in the middle of a removal outlives it |
| `dav_browse` | MCDavDirectory | `TypeOK` `FreshAddresses` `OneAddressPerHost` `CopyIsLive` `BytesCounted` `NewestServed` `RootStays` `DirOpenReturns` | 172 k states: two threads list and open over one resolver and one directory cache, with leases, refusals and evictions |
| `tls_seed` | TlsSeed | `SeedNeverLost` `SeedNeverReused` | resets and card faults at every step |
| `tls_seed_atomic` | TlsSeed | `SeedAtomic` (violated) | a reset between `remove` and `rename` |

The type invariants of RingCache, DavSource, CacheWorker, NetworkWorker, Player and TlsSeed,
and DavSource's `PositionsAgree` and `NeverPastSize`, are parts of the inductive
invariants and proved (section 4); the runs do not repeat them. The same goes for
two safety parts of liveness properties, `NoStandoff` (RingCache) and `HoldersGoOn`
(DavDirectory).

### The disagreements

- `dav_retry`: the recovery in `stream_read_internal` seeks to the position the
  WebDAV file already has; `gc_dav_seek` keeps the connection, whose `failed` flag
  answers every retry that cache2.c promises ("retry if we have cache"). A seek by
  the user is what reconnects.
- `cache_cancel`: the token needs `playback_cache_ready`, which is set only after
  the second prefill; CHANGELOG.md says stopping cancels the request.
- `player_next`: `forceNextFile` is one flag, cleared by whichever `FindNextFile`
  runs first, also by one that returns at once because a file is to end. A song
  that ends by itself, or a teardown that reaches `play_next_file`, between
  `RequestNextFile` and the menu's own call takes it; in single mode the press then
  does nothing.
- `player_shuffle`: `Remove` resets the shuffled order (`musicplaylist.cpp:475`,
  "reset shuffle") before it lowers the count. A song that ends in between makes
  MPlayer shuffle the old count, and that order outlives the removal: it names an entry
  that is gone. `ShuffleFits` is what does hold: for whole edits.
- `tls_seed_atomic`: the replacement is a `remove` and a `rename`; what is left
  in between under `tls-seed.tmp` is never read.

### Other observations

Seen while modelling, without a run of their own:

- A seek of the source that fails is not noticed (`stream_file.c:75`,
  `cache2.c:385`): `stream->pos` says the new position, the descriptor is elsewhere,
  and the reader is given bytes of another position until a seek is followed.
  `WindowHoldsFile` and `DeliversFile` name this exception (`astray`) and show that
  there is no other.
- A live stream that has ended while `errno` holds an old `EIO` is retried for as long
  as something is buffered, so that only the 30-second limit ends a prefill of it;
  `PrefillReturns` is about files.
- The playlist has no lock. A walk that MPlayer makes inside an edit can meet an entry
  without a name or a freed one; an enqueue without memory (`musicplaylist.cpp`)
  leaves the count one too high for as long as the list is not cleared, and the
  shuffled order as it was.
- `playback_files` (`webdav_device.c:217`) is counted without a lock. MPlayer's
  update in the middle of the thumbnail thread's is lost (CacheWorker has every load
  and store); with the count up for good, or at -1 after a close between the test and
  the decrement (228), `dav_close` never clears `playback_cache_ready`, and between
  tracks the token stays raised.
- `netcb` tests `netHalt` (`networkop.cpp:254`) and suspends itself (256) in two
  steps. Preempted in between, it misses the stop, parks, and is abandoned although
  it is not inside `if_config()`; the next `StopNetworkThread` resumes it.
- After an abandoned worker has finished, the wait in `InitializeNetwork`
  (`networkop.cpp:507`) ends only with Cancel.
- `wiimc.cpp:1061` says MPlayer is parked when the 3 is set. After the ten-second
  limit, or in the 50 ms in which `mplayer.c:3608` discards a 2, it need not be;
  `HandoverHasFile` and `LoadReturns` hold all the same.
- `dns.c:79` overwrites "the oldest" entry of a full table, which is slot 0 every
  time, also right after it was written. `dns.c:43` says a name is resolved again
  when the stream drops; it is when a connection fails, and the first reconnection
  still uses the old address.
- Two threads that miss one directory both store their listing; the one stored last
  is served, which may be the one asked for first. `NewestServed` is about the last
  stored.
- `SeedNeverLost` is about the card: an interrupted replacement may leave the seed
  under `tls-seed.tmp`, where the next start does not look (`tls_seed_atomic`).

### Bounds, and why they are enough

- Ring: three sectors of two units, chunks of three that do not divide a sector,
  history of one sector, a file longer than the buffer (7 of 6) so that the ring
  wraps, and seeks into, before and behind the window and past the end. One fault and
  one interrupt: a second failed seek, after a window that is astray already, adds
  nothing to what the properties tell apart. The theorems remove these bounds for
  safety.
- DavSource: files of up to three units, reads of up to two, so that a body is
  read in several steps, ends inside a read and differs from its replacement in
  both directions; three errors in a row before the cache gives up.
- CacheWorker: two caches, since the worker, `cachearg` and one stream can
  disagree only about the previous cache and the present one; `MaxFiles` = 2, one
  file of MPlayer's and one of the thumbnail thread's.
- Player: two songs and a folder of both, so that a queue has a next entry and wraps
  and an edit leaves or finds a pass; single and shuffle of the five play orders, the
  two with a path of their own. `MaxStray` bounds the failed enqueues, whose counts add
  up: with 1 one may fail until the list is cleared, with 0 (`player_shuffle`, which
  needs three songs) none does. The theorems cover all orders and any number.
- DavDirectory: two threads, a cache that holds two small listings and a third that
  never fits, three hosts for a table of two, one server and no server, two tries of
  a query. Two threads are enough for every race over one lock;
  the theorems hold for any number.
- NetworkWorker: two threads (an abandoned one and its successor), two leases,
  one loss of the address.
- TlsSeed: seeds, resets and faults as in `TlsSeed.cfg`; a replacement spans at
  most two seeds, and a reset during the recovery from a reset needs two resets.

### Fairness

- `Fairness` of RingCache: the filler's sleeps end and its I/O is bounded by the
  transport's deadlines (weak fairness). The reader, next in priority, runs while
  the filler sleeps, which it does after every `cache_fill` (strong fairness of
  its steps, since the filler switches them off in between). The 30-second limits of
  reads and prefills get none: no call is shown to return by them.
- `FairSpec` of CacheWorker: both threads run and reads return, by data, error or
  the transport's fifteen seconds. Nothing is assumed of the user or of prefills.
- `FairSpec` of Player: both threads run, and every file opens or fails and comes to
  its end (weak fairness). The menu polls `controlledbygui` every
  `THREAD_SLEEP` microseconds, and MPlayer leaves it at 1 for as long as a song plays, so
  that the menu does not miss every 1 (strong fairness of `LoadReady`). A console
  halted by the exception handler (`crashed`) does nothing any more; the liveness
  properties except it.
- `FairSpec` of DavDirectory: a thread inside a call goes on, and `LWP_MutexLock`
  serves its queue, so that a waiting thread gets the mutex in its turn (strong
  fairness, since others take the mutexes in between). Nothing is assumed of the
  servers: that a query ends is the work of `DNS_TRIES`, and a read or a connection
  ends by its deadline, with or without success.
- `FairSpec` of NetworkWorker: threads that can run do, and sleeps end. Nothing is
  assumed of `if_config()`, the user or the adapter.

## 4. Proofs

All theorems hold for every value of the constants that satisfies the named
assumptions; those are `SizeAssumption`, `StreamingAssumption` and
`PriorityAssumption` of RingCache (sizes as `cache_init` and
`stream_enable_cache` make them, the cache thread above MPlayer), the
`BoundAssumption` of CacheWorker, NetworkWorker and TlsSeed, the
`SourceAssumption` of DavSource (the bounds are naturals), `FolderAssumption` and
`OrderAssumption` of Player (a listing is a sequence of songs, the play orders are
the enumeration's), `SongAssumption` and `StrayAssumption` of MusicPlaylist (the marks
for missing entries are no songs, the bound is a natural), `ResolverAssumption` and `DirectoryAssumption` (sizes are
naturals, the table has a place, and the root is a directory).

- **RingCache.** `WindowHoldsFile` and `DeliversFile` are not inductive: a copy
  runs outside the lock, a plan is older than the positions it is committed to, and
  the exception they make for a source astray must not begin while the reader holds
  units of the window before (`SeekKnown`: a flush happens only after a seek, from
  which on nothing has been delivered).
  `RingInv` adds what each thread knows at each control point (`FillerKnows`,
  `ReaderKnows`), that the source stands where the window ends unless it is astray
  (`SourceAligned`),
  what a finished but uncommitted read has put into the ring (`ReadHoldsFile`),
  and what the latch means (`LatchIsTheEnd`). `Typing` and `Positions`
  (RingCachePositions) come first and mention no ring contents;
  `Invariance` adds them. From it follow `WindowAlwaysFits`, `WindowIsFile`,
  `Delivery`, `PositionOwned`, `EofSound` and the action properties
  `History` and `ReaderKept`. The priority assumption is needed: with the reader
  allowed to preempt the filler, TLC finds `ReaderOwnsPosition` violated (the
  mutant `ReaderPreempts`).

  `PromiseKept` is the refinement: RingCache implements SeekableStream. It needs one
  more invariant, `WithinFile`: a window that holds anything, and a read that waits to
  be committed, end within the file, which the abstract `Deliver` asks of every unit.
  The steps are taken in four lemmas: those the caller cannot see (`HiddenSteps`: the
  filler but for its read errors, and the reader's waits), those that give an excuse
  (`ExcuseSteps`), the calls (`CallSteps`), and the returns (`ReturnSteps`), where a
  short read without an excuse must be shown to be at the end, from `LatchIsTheEnd`.
  A repositioning that fails is the abstract `Reposition`, with the fault as its excuse.
  `CopyDelivers` says that what `memcpy` hands over outside the lock are the file's
  next units.

  `NeverStandoff` is the safety part of `ReadReturns` and `PrefillReturns`: a filler
  that finds no room has left the reader something to read, and a prefill all it waits
  for. It rests on the clamping of the prefill's target (`PrefillClamped`) and the
  arithmetic of history, fill limit and sector size, for every geometry.
- **DavSource.** `Inv` joins the properties to `SourceInv`, what each point of a
  read knows (a request is made without a connection, a body is read below the
  size, the end is answered only at the size) and that a counted body has left
  what its range has. The properties need each other: `PositionsAgree` makes the
  recovery's seek a seek to the same place, which is why `BodyAtPosition` survives
  it. `SourceTypes`, `ReadsContinue`, `PositionsKept`, `SizeKept` and
  `EndSound` follow. `CacheServed` is the refinement of TrackSource, for every file
  and read size: requests and answers are hidden steps (`HiddenSteps`), a unit that
  arrives is a read (`DataReads`, which needs that no read passes the size), and the
  reset to 0 and the seek back after a failure are no move of the position
  (`FailureSteps`, which needs `PositionsAgree`).
- **CacheWorker.** `CacheInv`: `cachearg`, `cache_data` and `cache_pid` agree and
  the worker serves `cachearg` (`Agreement`), and what MPlayer knows where it is
  (`MPlayerKnows`). `CacheTypes`, `Safe` and `Served` follow. `GateServed` needs
  `FillInv` beside it: a fill status is known only while the stream has a cache, and
  a worker parked beside such a stream was told to stop.
- **NetworkWorker.** `WorkerInv`: a joinable thread is gone (`ExitedIsGone`), what
  has been written on the way to `networkInit` (`Publishing`), and what the menu
  thread knows (`MenuKnows`). `WorkerTypes`, `OneWorker`, `Announced` and
  `Stragglers` follow.
- **TlsSeed.** `SeedInv`: no file holds a seed that backed a session, and what is
  on the card at each point of `prepare()`. `SeedTypes`, `SeedKept` and `SeedFresh`
  follow.
- **Player.** `PlayerInv`: unless `torn`, the playlist is `Whole`: the count is the
  list's length but for what the step of the edit says (`Ahead`), `selIndex` is a song
  or none, and outside an edit a pass under way is a permutation of the playlist
  as it is (`PassInv`; `ShuffleFits` alone says nothing of the entries after the next
  one). Once a walk has fallen into an edit, or an enqueue has failed, only the types
  are known, until the list is cleared. And `LoadMPlayerFile` has a name to leave
  (`LoadHasFile`), without which
  MPlayer's own `FindNextFile` could take away what `HandoverHasFile` promises.
  `PlayerTypes`, `Handover` and `ShuffleInside` follow.
- **Resolver and DavDirectory.** `ResolverInv`: a query is made by the holder of
  `dns_mutex`, of the current server, for a name that is not in the table, and none
  is overtaken (`QueryInv`). `DirectoryInv`: both orders are of the same entries,
  each there once (`SameEntries`), and what a thread knows where it is (`Knows`),
  above all that the entry being copied is the first of its path: that is why
  stamping it keeps `NewestServed`. The two invariants are kept by disjoint sets of
  steps. The lemmas about lists (`WithoutOrder`, `AppendOrder`, `HeadOrder`) say
  what taking out, stamping and inserting do to the order of two entries, and the
  least-number principle (from `WFMin`) that a path with an entry has a first one.
  `DirectoryTypes`, `AddressesFresh`, `AddressesUnique`, `CopyLive`,
  `ServesNewest` and the action property `RootKeeps` follow, and
  `NoLockCycle`: the holder of one mutex waits for neither, so that threads cannot wait
  for each other.

  `BytesKept` is about a sum over the list. A fold would need induction over data, so
  the sum is stated by its running totals: there is a function that starts at 0, adds
  one entry's size at each place and ends at `bytes`. A store at the head shifts the
  totals (`TotalsHead`), an eviction at place p keeps those before p and lowers the
  rest (`TotalsWithout`); that none of them falls below 0 or passes the limit needs
  that totals grow (`TotalsGrow`, the least-number principle applied to the set of
  places where they do not).

Every invariant, every action property and both refinements that a passing run
checks are proved for all constants. Only model-checked are the liveness properties
`ReadReturns`, `PrefillReturns`, `CloseReturns`, `PauseReturns`, `BootGateReturns`,
`CancelReturns`, `LoadReturns`, `EndAnswered` and `DirOpenReturns`: temporal reasoning
under fairness is out of the prover's reach. The library's induction theorems with an
operator parameter cannot be used either; where a proof goes along a list it uses
the least-number principle on a set, which `WFMin` gives.

## 5. Plan

1. Done: RingCache, SeekableStream, DavSource, CacheWorker, NetworkWorker, TlsSeed,
   Player with MusicPlaylist, DavDirectory with Resolver, with their invariants and
   proofs, and the refinements of SeekableStream and TrackSource.
2. Open: ICY de-interleaving against a reference definition; the parse thread of the
   file browser; the remaining safety parts of the liveness properties (that a worker
   which is waited for has been told, that the boot gate's wait has a limit).

## 6. What is not modelled

Drawing, input, settings files, logging and memory managers (sequential or
hardware bound); URL, XML and Base64 conversions (pure functions with host
tests); mbedTLS, lwIP and libogc (external, modelled by how the code calls them);
MPlayer's demuxers and decoders (vendored). The control mailbox of cache2.c: the
sources of this build have no control that its requests could reach
(`stream_file.c` answers the size, which does not go through the mailbox; the radio
has none; DVD is not configured, `config.h`), so that every request, late or not, is
answered `STREAM_UNSUPPORTED` and moves nothing. The reading of playlist files and the
sort of added folders. Videos, as far as the menu is suspended
while one plays. 64-bit positions cannot overflow for
a file that fits a server's answer and are integers here; that they are read
whole is what `cache_pos_mutex` provides and each snapshot action states.
