--------------------------- MODULE MusicPlaylist ---------------------------
(***************************************************************************)
(* The music playlist and its shuffled order (source/musicplaylist.cpp).   *)
(* The menu thread edits it and MPlayer's thread, which preempts it, walks *)
(* it in FindNextFile() (module Player), with no lock between them: an     *)
(* edit is taken apart into the assignments a walk can tell apart.         *)
(*                                                                         *)
(* A song stands for its path and its entry.  A folder is added or removed *)
(* file by file, in the order the sort at the end gives; the lines of a    *)
(* playlist file are songs the playlist does not hold yet.  A walk that    *)
(* follows a null or a freed pointer ends in the exception handler, which  *)
(* halts the console: crashed.                                             *)
(***************************************************************************)
EXTENDS Integers, Sequences

CONSTANTS
  Songs,      \* the audio files on the device
  MaxStray    \* bound on entries that are counted and not there

None  == "none"    \* a null entry, or an empty path
Blank == "blank"   \* an entry whose file is still null
Gone  == "gone"    \* an entry that was freed

ASSUME SongAssumption == None \notin Songs /\ Blank \notin Songs /\ Gone \notin Songs
ASSUME StrayAssumption == MaxStray \in Nat

\* PLAY_SINGLE, PLAY_THROUGH, PLAY_SHUFFLE, PLAY_LOOP and PLAY_CONTINUOUS
PlayOrders == {"single", "through", "shuffle", "loop", "continuous"}

VARIABLES
  playlist,      \* the entries linked from browserMusic.first
  numEntries,    \* browserMusic.numEntries
  selIndex,      \* browserMusic.selIndex: the entry being played, or None
  shuffleList,   \* the shuffled indices (from 0) of the pass under way
  shuffleIndex,  \* the next of them, -1 to shuffle anew
  step,          \* where the edit under way is
  entry, place,  \* the song it adds or removes, and where the removed one stood
  torn,          \* since the list was last cleared an edit was walked half done or failed
  crashed

edit  == <<step, entry, place>>
music == <<playlist, numEntries, selIndex, shuffleList, shuffleIndex, edit, torn, crashed>>

EditSteps == {"none", "count", "name", "pass", "unsel", "unpass", "uncount", "wipe"}

MusicInit ==
  /\ playlist = <<>> /\ numEntries = 0 /\ selIndex = None
  /\ shuffleList = <<>> /\ shuffleIndex = -1
  /\ step = "none" /\ entry = None /\ place = 0
  /\ torn = FALSE /\ crashed = FALSE

\* Where a song is in the playlist: nowhere or in one place.
PlacesOf(song) == {i \in 1 .. Len(playlist) : playlist[i] = song}

\* MusicPlaylistFindIndex(path)
MusicPlaylistFindIndex(song) == IF PlacesOf(song) # {} THEN song ELSE None

\* shuffleIndex = -1; the array is not read again before it is replaced.
ResetShuffle == shuffleIndex' = -1 /\ shuffleList' = <<>>

EditEnds == step' = "none" /\ entry' = None /\ place' = 0

-----------------------------------------------------------------------------
(* EnqueueFile().                                                          *)

\* AddEntry links an entry without a name, for a file the playlist does not
\* hold, or for the next line of a playlist file ...
AddEntry(song) ==
  /\ step \in {"none", "pass"}
  /\ PlacesOf(song) = {}
  /\ playlist' = Append(playlist, Blank)
  /\ step' = "count" /\ entry' = song
  /\ UNCHANGED <<numEntries, selIndex, shuffleList, shuffleIndex, place, torn, crashed>>

\* ... and counts it.
AddEntryCount ==
  /\ step = "count"
  /\ numEntries' = numEntries + 1
  /\ step' = "name"
  /\ UNCHANGED <<playlist, selIndex, shuffleList, shuffleIndex, entry, place, torn, crashed>>

\* The path is copied into it.
EnqueueName ==
  /\ step = "name"
  /\ playlist' = [playlist EXCEPT ![Len(playlist)] = entry]
  /\ step' = "pass"
  /\ UNCHANGED <<numEntries, selIndex, shuffleList, shuffleIndex, entry, place, torn, crashed>>

\* Memory may run out.  (The bound: never for 0, for 1 once until the list is
\* cleared or while no edit was torn, else while few entries are missing.)
OutOfMemory == MaxStray > 0 /\ (torn => numEntries - Len(playlist) < MaxStray - 1)

\* No memory for the path or for the display name: DeleteEntryMusic unlinks
\* and frees the entry, and leaves the count, selIndex and the pass alone.
EnqueueFails ==
  /\ step \in {"name", "pass"}
  /\ OutOfMemory
  /\ playlist' = SubSeq(playlist, 1, Len(playlist) - 1)
  /\ selIndex' = IF step = "pass" /\ selIndex = entry THEN Gone ELSE selIndex
  /\ torn' = TRUE
  /\ EditEnds
  /\ UNCHANGED <<numEntries, shuffleList, shuffleIndex, crashed>>

\* No memory for the entry of the next line: what was added stays, and the pass
\* is left alone.
AddEntryFails ==
  /\ step = "pass"
  /\ OutOfMemory
  /\ torn' = TRUE
  /\ EditEnds
  /\ UNCHANGED <<playlist, numEntries, selIndex, shuffleList, shuffleIndex, crashed>>

\* mutant: the pass under way goes on over the longer list.
EnqueueKeepsPass ==
  /\ step = "pass"
  /\ EditEnds
  /\ UNCHANGED <<playlist, numEntries, selIndex, shuffleList, shuffleIndex, torn, crashed>>

\* "reset shuffle"
EnqueueFile ==
  /\ step = "pass"
  /\ ResetShuffle
  /\ EditEnds
  /\ UNCHANGED <<playlist, numEntries, selIndex, torn, crashed>>

-----------------------------------------------------------------------------
(* Remove(), for a file that MusicPlaylistDequeue finds, and ResetMusic(). *)

Unlink(song) ==
  /\ step = "none"
  /\ \E i \in PlacesOf(song) :
       /\ playlist' = SubSeq(playlist, 1, i - 1) \o SubSeq(playlist, i + 1, Len(playlist))
       /\ place' = i
  /\ step' = "unsel" /\ entry' = song
  /\ UNCHANGED <<numEntries, selIndex, shuffleList, shuffleIndex, torn, crashed>>

Deselect ==
  /\ step = "unsel"
  /\ selIndex' = IF selIndex = entry THEN None ELSE selIndex
  /\ step' = "unpass"
  /\ UNCHANGED <<playlist, numEntries, shuffleList, shuffleIndex, entry, place, torn, crashed>>

\* "reset shuffle"
RemoveResetsPass ==
  /\ step = "unpass"
  /\ ResetShuffle
  /\ step' = "uncount"
  /\ UNCHANGED <<playlist, numEntries, selIndex, entry, place, torn, crashed>>

Remove ==
  /\ step = "uncount"
  /\ numEntries' = IF numEntries > 0 THEN numEntries - 1 ELSE 0
  /\ EditEnds
  /\ UNCHANGED <<playlist, selIndex, shuffleList, shuffleIndex, torn, crashed>>

\* Reset(&browserMusic) frees the entries, which stay linked ...
ResetFrees ==
  /\ step = "none"
  /\ playlist' = [i \in 1 .. Len(playlist) |-> Gone]
  /\ selIndex' = IF selIndex = None THEN None ELSE Gone
  /\ step' = "wipe"
  /\ UNCHANGED <<numEntries, shuffleList, shuffleIndex, entry, place, torn, crashed>>

\* ... until the count and the pointers are cleared.  A pass is not reset.
ResetMusic ==
  /\ step = "wipe"
  /\ playlist' = <<>> /\ numEntries' = 0 /\ selIndex' = None
  /\ torn' = FALSE
  /\ EditEnds
  /\ UNCHANGED <<shuffleList, shuffleIndex, crashed>>

EditBegins == (\E song \in Songs : AddEntry(song) \/ Unlink(song)) \/ ResetFrees

EditContinues ==
  \/ AddEntryCount \/ EnqueueName \/ EnqueueFails \/ AddEntryFails \/ EnqueueFile
  \/ Deselect \/ RemoveResetsPass \/ Remove \/ ResetMusic

-----------------------------------------------------------------------------
(* The walk.                                                               *)

\* The i-th entry from first, or the null pointer behind the last.
EntryAt(i) == IF i \in 1 .. Len(playlist) THEN playlist[i] ELSE None

\* e->next; an entry that Remove has unlinked still knows what followed it.
EntryAfter(e) ==
  CASE e = Gone -> Gone
    [] e # Gone /\ PlacesOf(e) = {} -> EntryAt(place)
    [] OTHER -> EntryAt((CHOOSE i \in PlacesOf(e) : TRUE) + 1)

\* selIndex = e, and its path is read.
Take(e, found) ==
  /\ selIndex' = e
  /\ found = (e \in Songs) /\ crashed' = (e \notin Songs)

Shuffles(n) == {p \in [1 .. n -> 0 .. n - 1] : \A i, j \in 1 .. n : p[i] = p[j] => i = j}

\* MusicPlaylistGetNextShuffle: the next of the pass, or the first of a new
\* one.  What lies behind the array reads as anything.
MusicPlaylistGetNextShuffle(found) ==
  /\ IF shuffleIndex = -1 \/ shuffleIndex >= numEntries
       THEN shuffleList' \in Shuffles(numEntries) /\ shuffleIndex' = 1
       ELSE shuffleIndex' = shuffleIndex + 1 /\ UNCHANGED shuffleList
  /\ \E k \in IF shuffleIndex' <= Len(shuffleList') THEN {shuffleList'[shuffleIndex']}
                                                    ELSE 0 .. Len(playlist) :
       Take(EntryAt(k + 1), found)

\* FindNextFile's playlist branch: the play orders, and what a forced Next
\* makes of them.  found says whether there is a song to play.
PlaylistAdvance(order, forced, found) ==
  LET next == EntryAfter(selIndex) IN
  /\ \/ /\ \/ ~forced /\ order = "single" /\ selIndex # None
           \/ order = "through" /\ (selIndex = None \/ next = None)
        /\ ~found /\ selIndex' = None
        /\ UNCHANGED <<shuffleList, shuffleIndex, crashed>>
     \/ /\ order = "through" /\ selIndex # None /\ next # None
        /\ Take(next, found)
        /\ UNCHANGED <<shuffleList, shuffleIndex>>
     \/ /\ order # "through" /\ selIndex = None
        /\ Take(EntryAt(1), found)
        /\ UNCHANGED <<shuffleList, shuffleIndex>>
     \/ /\ selIndex # None /\ (order = "continuous" \/ (forced /\ order \in {"single", "loop"}))
        /\ Take(IF next = None THEN EntryAt(1) ELSE next, found)
        /\ UNCHANGED <<shuffleList, shuffleIndex>>
     \/ /\ selIndex # None /\ order = "shuffle"
        /\ MusicPlaylistGetNextShuffle(found)
     \/ /\ selIndex # None /\ order = "loop" /\ ~forced
        /\ Take(selIndex, found)
        /\ UNCHANGED <<shuffleList, shuffleIndex>>
  /\ torn' = (torn \/ step # "none")
  /\ UNCHANGED <<playlist, numEntries, edit>>

-----------------------------------------------------------------------------

Entries == Songs \cup {None, Blank, Gone}

\* Entries without a name or freed are linked only inside an edit.
MusicTypeOK ==
  /\ playlist \in Seq(Songs \cup {Blank, Gone}) /\ numEntries \in Nat
  /\ step \notin {"count", "name", "wipe"} => playlist \in Seq(Songs)
  /\ step \in {"count", "name"} => \A i \in 1 .. Len(playlist) - 1 : playlist[i] \in Songs
  /\ step \in {"count", "name", "pass"} => playlist # <<>> /\ entry \in Songs
  /\ selIndex \in Entries
  /\ shuffleList \in Seq(Nat) /\ shuffleIndex \in Nat \cup {-1}
  /\ step \in EditSteps /\ entry \in Songs \cup {None} /\ place \in Nat
  /\ torn \in BOOLEAN /\ crashed \in BOOLEAN

\* What MusicPlaylistGetNextShuffle reads next lies inside the array it was
\* malloc'ed as and names an entry that exists.
PassFits ==
  0 <= shuffleIndex /\ shuffleIndex < numEntries =>
    /\ shuffleIndex < Len(shuffleList)
    /\ shuffleList[shuffleIndex + 1] < Len(playlist)

\* Whatever whole edits were made in the middle of a pass, what the walk
\* reads next exists, and no walk has crashed, unless FindNextFile ran in the
\* middle of an edit or an enqueue ran out of memory.
ShuffleFits == ~torn => ~crashed /\ (step = "none" => PassFits)

\* "reset shuffle" (musicplaylist.cpp:331, 475): a pass never outlives the
\* edit of the playlist it was made for.
EditResetsShuffle == step = "none" => PassFits

-----------------------------------------------------------------------------
(* The inductive invariant.                                                *)

\* How far the count is ahead of the list inside an edit.
Ahead == IF step = "count" THEN -1 ELSE IF step \in {"unsel", "unpass", "uncount"} THEN 1 ELSE 0

\* A pass under way is a permutation of the playlist as it is.
PassInv ==
  \/ step \in {"count", "name", "pass", "unsel", "unpass", "wipe"}
  \/ shuffleIndex = -1
  \/ playlist = <<>>
  \/ shuffleIndex \in 1 .. Len(playlist) /\ shuffleList \in Shuffles(Len(playlist))

Whole ==
  /\ ~crashed
  /\ numEntries = Len(playlist) + Ahead
  /\ step # "wipe" => selIndex \in Songs \cup {None}
  /\ PassInv

MusicInv == MusicTypeOK /\ (torn \/ Whole)
=============================================================================
