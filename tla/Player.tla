------------------------------- MODULE Player -------------------------------
(***************************************************************************)
(* Which file plays next: the handshake over controlledbygui between the   *)
(* menu thread and MPlayer, the folder queue, and FindNextFile()           *)
(* (source/wiimc.cpp; mplayer.c from play_next_file to the end of a film;  *)
(* the music browser in menu.cpp).                                         *)
(*                                                                         *)
(* controlledbygui: 0, MPlayer has taken a file; 1, the menu is in         *)
(* control; 2, the file is to end; 3, a file is handed over and not taken. *)
(*                                                                         *)
(* MPlayer (LWP priority 68) preempts the menu thread (64), never the      *)
(* other way round: what MPlayer does between two of its sleeps is one     *)
(* action, the menu's operations are taken apart, its edits of the playlist*)
(* too.  Files are audio files; the pause of a video belongs to            *)
(* CacheWorker.  Subtitles are off: LoadMPlayerFile() does not wait for    *)
(* ParseDone().                                                            *)
(***************************************************************************)
EXTENDS MusicPlaylist

CONSTANTS
  Folders,   \* folders the browser may show
  Listing,   \* the audio files of each, in display order
  Orders     \* the play orders the user may set

ASSUME FolderAssumption == Listing \in [Folders -> Seq(Songs)]
ASSUME OrderAssumption == Orders \subseteq PlayOrders

VARIABLES
  controlledbygui,
  filename,             \* the file wiiLoadFile left for MPlayer, or None
  loadedFile,           \* the file the menu shows as the current one
  forceNextFile,
  playOrder,            \* WiiSettings.playOrder
  folderQueue,          \* the snapshot, folderQueueCount long
  folderQueuePos,       \* counted from 1; 0 for -1
  freed,                \* its strings are freed and it is not yet reset
  mpc, end_film_error,  \* where MPlayer is, and how its last file ended
  gpc, folder           \* where the menu thread is, and the folder it shows

queue  == <<folderQueue, folderQueuePos, freed>>
mplayer == <<mpc, end_film_error>>
menu   == <<gpc, folder>>
vars   == <<controlledbygui, filename, loadedFile, forceNextFile, playOrder, queue, mplayer, menu,
            music>>

MPlayerStates == {"next", "parked", "open", "play"}
MenuStates == {"idle", "clear", "reset", "build", "drop", "dropreset", "stop", "endwait", "hand",
               "load", "takewait", "readywait", "nextstop", "nextwait", "nextfind", "nextload",
               "edit"}

Init ==
  /\ controlledbygui = 1 /\ filename = None /\ loadedFile = None
  /\ forceNextFile = FALSE /\ playOrder \in Orders
  /\ folderQueue = <<>> /\ folderQueuePos = 0 /\ freed = FALSE
  /\ mpc = "next" /\ end_film_error = 0
  /\ gpc = "idle" /\ folder \in Folders
  /\ MusicInit

-----------------------------------------------------------------------------
(* FindNextFile(), on either thread.                                       *)

\* The positions FolderQueueAdvance may move to.
FolderQueueNext(forced) ==
  LET n == Len(folderQueue) IN
  {p \in 1 .. n :
     /\ folderQueuePos # 0
     /\ \/ ~forced /\ playOrder = "through" /\ p = folderQueuePos + 1
        \/ ~forced /\ playOrder = "shuffle" /\ (n > 1 => p # folderQueuePos)
        \/ ~forced /\ playOrder = "loop" /\ p = folderQueuePos
        \/ /\ forced \/ playOrder = "continuous"
           /\ p = IF folderQueuePos = n THEN 1 ELSE folderQueuePos + 1}

\* FolderQueueAdvance: a string that was freed reads as anything.
FolderQueueAdvance(forced, found) ==
  LET next == FolderQueueNext(forced) IN
  /\ found = (next # {})
  /\ IF found
       THEN /\ folderQueuePos' \in next
            /\ loadedFile' \in IF freed THEN Songs ELSE {folderQueue[folderQueuePos']}
            /\ UNCHANGED music
       ELSE /\ UNCHANGED <<folderQueuePos, loadedFile>>
            /\ selIndex' = None
            /\ UNCHANGED <<playlist, numEntries, shuffleList, shuffleIndex, edit, torn, crashed>>
  /\ UNCHANGED <<folderQueue, freed>>

\* FindNextFile(load): the result is found.
FindNextFile(load, found) ==
  /\ forceNextFile' = FALSE
  /\ \/ /\ controlledbygui = 2 \/ (controlledbygui = 0 /\ ~load)
        /\ ~found
        /\ UNCHANGED <<loadedFile, queue, music>>
     \/ /\ controlledbygui = 0 /\ load
        /\ found
        /\ UNCHANGED <<loadedFile, queue, music>>
     \/ /\ controlledbygui \notin {0, 2} /\ numEntries = 0
        /\ FolderQueueAdvance(forceNextFile, found)
     \/ /\ controlledbygui \notin {0, 2} /\ numEntries > 0
        /\ PlaylistAdvance(playOrder, forceNextFile, found)
        /\ loadedFile' = IF found THEN selIndex' ELSE loadedFile
        /\ UNCHANGED queue

-----------------------------------------------------------------------------
(* MPlayer.                                                                *)

\* mutant: after an error the menu is not given control back.
PlayNextFileSilent ==
  /\ mpc = "next"
  /\ IF end_film_error = 0
       THEN \E found \in BOOLEAN :
              /\ FindNextFile(TRUE, found)
              /\ filename' = IF found THEN loadedFile' ELSE None
              /\ controlledbygui' = IF found THEN controlledbygui ELSE 1
       ELSE /\ filename' = None
            /\ UNCHANGED <<controlledbygui, loadedFile, forceNextFile, queue, music>>
  /\ mpc' = "parked" /\ end_film_error' = 0
  /\ UNCHANGED <<playOrder, menu>>

\* play_next_file: the name is freed, and the next file looked for.  (The reset
\* of end_film_error follows the loop of Poll, which does not read it.)
PlayNextFile ==
  /\ mpc = "next"
  /\ IF end_film_error = 0
       THEN \E found \in BOOLEAN :
              /\ FindNextFile(TRUE, found)
              /\ filename' = IF found THEN loadedFile' ELSE None
              /\ controlledbygui' = IF found THEN controlledbygui ELSE 1
       ELSE /\ filename' = None
            /\ controlledbygui' = 1
            /\ UNCHANGED <<loadedFile, forceNextFile, queue, music>>
  /\ mpc' = "parked" /\ end_film_error' = 0
  /\ UNCHANGED <<playOrder, menu>>

\* mutant: the idle loop looks at the name only.
PollDeaf ==
  /\ mpc = "parked"
  /\ IF filename # None
       THEN mpc' = "open" /\ controlledbygui' = 0
       ELSE UNCHANGED <<mpc, controlledbygui>>
  /\ UNCHANGED <<filename, loadedFile, forceNextFile, playOrder, queue, end_film_error, menu,
                 music>>

\* The loop that follows: "none playing, so discard" a request to end, and
\* take a file when there is one.
Poll ==
  /\ mpc = "parked"
  /\ filename # None \/ controlledbygui = 2
  /\ controlledbygui' = 0
  /\ mpc' = IF filename # None THEN "open" ELSE "parked"
  /\ UNCHANGED <<filename, loadedFile, forceNextFile, playOrder, queue, end_film_error, menu,
                 music>>

\* mutant: MPlayer keeps control, as it does for a video.
OpenAudioKeeps ==
  /\ mpc = "open"
  /\ mpc' = "play"
  /\ UNCHANGED <<controlledbygui, filename, loadedFile, forceNextFile, playOrder, queue,
                 end_film_error, menu, music>>

\* The file opens, without video: control goes back to the menu.
OpenAudio ==
  /\ mpc = "open"
  /\ mpc' = "play"
  /\ controlledbygui' = IF controlledbygui = 0 THEN 1 ELSE controlledbygui
  /\ UNCHANGED <<filename, loadedFile, forceNextFile, playOrder, queue, end_film_error,
                 menu, music>>

\* It does not, or its prefill was interrupted.  (uninit_player() and the rest of
\* the way to play_next_file change nothing that the menu sees.)
OpenFails ==
  /\ mpc = "open"
  /\ mpc' = "next"
  /\ end_film_error' = 1
  /\ UNCHANGED <<controlledbygui, filename, loadedFile, forceNextFile, playOrder, queue, menu,
                 music>>

\* The song is over, has an error, or is told to end.
PlayEnds ==
  /\ mpc = "play"
  /\ mpc' = "next"
  /\ end_film_error' \in {0, 1}
  /\ UNCHANGED <<controlledbygui, filename, loadedFile, forceNextFile, playOrder, queue, menu,
                 music>>

MPlayerStep == PlayNextFile \/ Poll \/ OpenAudio \/ OpenFails \/ PlayEnds

\* wiiAudioOnly()
wiiAudioOnly == mpc = "play" /\ controlledbygui # 2

-----------------------------------------------------------------------------
(* The menu: a song is chosen, BuildFolderQueue().                         *)

\* The user browses to a folder and picks one of its songs.
Select(dir, song) ==
  /\ gpc = "idle"
  /\ \E i \in 1 .. Len(Listing[dir]) : Listing[dir][i] = song
  /\ folder' = dir
  /\ loadedFile' = song
  /\ selIndex' = MusicPlaylistFindIndex(song)
  /\ gpc' = "clear"
  /\ UNCHANGED <<controlledbygui, filename, forceNextFile, playOrder, queue, mplayer,
                 playlist, numEntries, shuffleList, shuffleIndex, edit, torn, crashed>>

\* ClearFolderQueue: the strings are freed ...
ClearFolderQueue ==
  /\ gpc \in {"clear", "drop"}
  /\ freed' = (folderQueue # <<>>)
  /\ gpc' = IF gpc = "clear" THEN "reset" ELSE "dropreset"
  /\ UNCHANGED <<controlledbygui, filename, loadedFile, forceNextFile, playOrder, folderQueue,
                 folderQueuePos, mplayer, folder, music>>

\* ... and the count and the position reset.  With a playlist there is
\* nothing to build.
ClearFolderQueueReset ==
  /\ gpc \in {"reset", "dropreset"}
  /\ folderQueue' = <<>> /\ folderQueuePos' = 0 /\ freed' = FALSE
  /\ gpc' = IF gpc = "reset" /\ numEntries = 0 THEN "build" ELSE "stop"
  /\ UNCHANGED <<controlledbygui, filename, loadedFile, forceNextFile, playOrder, mplayer, folder,
                 music>>

\* One entry of the listing is copied,
BuildFolderQueue ==
  /\ gpc = "build"
  /\ Len(folderQueue) < Len(Listing[folder])
  /\ LET path == Listing[folder][Len(folderQueue) + 1] IN
       /\ folderQueue' = Append(folderQueue, path)
       /\ folderQueuePos' = IF path = loadedFile THEN Len(folderQueue) + 1 ELSE folderQueuePos
  /\ UNCHANGED <<controlledbygui, filename, loadedFile, forceNextFile, playOrder, freed, mplayer,
                 menu, music>>

\* or the last one was, or there is no memory: "a queue that does not contain
\* the song being started is of no use".
BuildFolderQueueEnd ==
  /\ gpc = "build"
  /\ gpc' = IF folderQueuePos = 0 THEN "drop" ELSE "stop"
  /\ UNCHANGED <<controlledbygui, filename, loadedFile, forceNextFile, playOrder, queue, mplayer,
                 folder, music>>

-----------------------------------------------------------------------------
(* LoadNewFile() and LoadMPlayerFile().                                    *)

\* ChangeInterface() refuses: the device is not there.
LoadRefused ==
  /\ gpc = "stop"
  /\ gpc' = "idle"
  /\ UNCHANGED <<controlledbygui, filename, loadedFile, forceNextFile, playOrder, queue, mplayer,
                 folder, music>>

\* It takes the path, never an empty one: "signal any previous file to end".
LoadStops ==
  /\ gpc = "stop"
  /\ loadedFile # None
  /\ controlledbygui' = 2
  /\ gpc' = "endwait"
  /\ UNCHANGED <<filename, loadedFile, forceNextFile, playOrder, queue, mplayer, folder, music>>

\* Ten seconds are enough for MPlayer, unless it opens or closes a stream.
Unresponsive == mpc \in {"open", "next"}

LoadEnded ==
  /\ gpc = "endwait"
  /\ controlledbygui # 2 \/ Unresponsive
  /\ gpc' = "hand"
  /\ UNCHANGED <<controlledbygui, filename, loadedFile, forceNextFile, playOrder, queue, mplayer,
                 folder, music>>

\* "3 means handed over, not taken yet",
HandOver ==
  /\ gpc = "hand"
  /\ controlledbygui' = 3
  /\ gpc' = "load"
  /\ UNCHANGED <<filename, loadedFile, forceNextFile, playOrder, queue, mplayer, folder, music>>

\* and wiiLoadFile() leaves the name.
LoadFile ==
  /\ gpc = "load"
  /\ filename' = loadedFile
  /\ gpc' = "takewait"
  /\ UNCHANGED <<controlledbygui, loadedFile, forceNextFile, playOrder, queue, mplayer, folder,
                 music>>

\* Not "until 0": a file that fails at once has moved on to 1 by now.
LoadTaken ==
  /\ gpc = "takewait"
  /\ controlledbygui # 3
  /\ gpc' = "readywait"
  /\ UNCHANGED <<controlledbygui, filename, loadedFile, forceNextFile, playOrder, queue, mplayer,
                 folder, music>>

\* LoadNewFile: "wait until MPlayer is ready to take control (or return control)"
LoadReady ==
  /\ gpc = "readywait"
  /\ controlledbygui = 1
  /\ gpc' = "idle"
  /\ selIndex' = IF wiiAudioOnly THEN selIndex ELSE None
  /\ UNCHANGED <<controlledbygui, filename, loadedFile, forceNextFile, playOrder, queue, mplayer,
                 folder, playlist, numEntries, shuffleList, shuffleIndex, edit, torn, crashed>>

-----------------------------------------------------------------------------
(* The transport buttons and the playlist.                                 *)

\* Next with something to go to, or X+R: RequestNextFile(),
NextRequest ==
  /\ gpc = "idle"
  /\ wiiAudioOnly
  /\ forceNextFile' = TRUE
  /\ gpc' = "nextstop"
  /\ UNCHANGED <<controlledbygui, filename, loadedFile, playOrder, queue, mplayer, folder, music>>

\* StopMPlayerFile(),
NextStop ==
  /\ gpc = "nextstop"
  /\ controlledbygui' = 2
  /\ gpc' = "nextwait"
  /\ UNCHANGED <<filename, loadedFile, forceNextFile, playOrder, queue, mplayer, folder, music>>

\* WaitForTrackEnd(),
NextWait ==
  /\ gpc = "nextwait"
  /\ controlledbygui # 2 \/ Unresponsive
  /\ gpc' = "nextfind"
  /\ UNCHANGED <<controlledbygui, filename, loadedFile, forceNextFile, playOrder, queue, mplayer,
                 folder, music>>

\* FindNextFile(true), which ends in wiiLoadFile() if it finds one.
NextFind ==
  /\ gpc = "nextfind"
  /\ \E found \in BOOLEAN :
       FindNextFile(TRUE, found) /\ gpc' = IF found THEN "nextload" ELSE "idle"
  /\ UNCHANGED <<controlledbygui, filename, playOrder, mplayer, folder>>

NextLoad ==
  /\ gpc = "nextload"
  /\ filename' = loadedFile
  /\ gpc' = "idle"
  /\ UNCHANGED <<controlledbygui, loadedFile, forceNextFile, playOrder, queue, mplayer, folder,
                 music>>

\* Play or Next, with nothing playing: FindNextFile(false), LoadNewFile().
StartPlaylist ==
  /\ gpc = "idle"
  /\ numEntries > 0 \/ Len(folderQueue) > 1
  /\ ~wiiAudioOnly
  /\ \E found \in BOOLEAN : FindNextFile(FALSE, found)
  /\ gpc' = "stop"
  /\ UNCHANGED <<controlledbygui, filename, playOrder, mplayer, folder>>

\* The playlist buttons: an edit begins, and goes on step by step.
EditPlaylist ==
  /\ gpc = "idle"
  /\ EditBegins
  /\ gpc' = "edit"
  /\ UNCHANGED <<controlledbygui, filename, loadedFile, forceNextFile, playOrder, queue, mplayer,
                 folder>>

EditStep ==
  /\ gpc = "edit"
  /\ EditContinues
  /\ gpc' = IF step' = "none" THEN "idle" ELSE "edit"
  /\ UNCHANGED <<controlledbygui, filename, loadedFile, forceNextFile, playOrder, queue, mplayer,
                 folder>>

\* A playlist file has another line.
EditGoesOn ==
  /\ gpc = "edit"
  /\ \E song \in Songs : AddEntry(song)
  /\ UNCHANGED <<controlledbygui, filename, loadedFile, forceNextFile, playOrder, queue, mplayer,
                 menu>>

\* The mode button of the audio bar.
SetOrder ==
  /\ gpc = "idle"
  /\ playOrder' \in Orders \ {playOrder}
  /\ UNCHANGED <<controlledbygui, filename, loadedFile, forceNextFile, queue, mplayer, menu, music>>

-----------------------------------------------------------------------------

\* The menu's own steps, once the user has pressed something.
MenuStep ==
  \/ ClearFolderQueue \/ ClearFolderQueueReset \/ BuildFolderQueue \/ BuildFolderQueueEnd
  \/ LoadStops \/ LoadEnded \/ HandOver \/ LoadFile \/ LoadTaken
  \/ NextStop \/ NextWait \/ NextFind \/ NextLoad \/ EditStep

\* What the user does, and what the device answers.
UserStep ==
  \/ LoadReady \/ LoadRefused
  \/ (\E dir \in Folders, song \in Songs : Select(dir, song)) \/ NextRequest \/ StartPlaylist
  \/ EditPlaylist \/ EditGoesOn \/ SetOrder

\* The exception handler shows its screen and nothing runs any more.
Halt == crashed /\ UNCHANGED vars

Next == (~crashed /\ (MPlayerStep \/ MenuStep \/ UserStep)) \/ Halt

Spec == Init /\ [][Next]_vars

\* Both threads run, every file opens or fails and comes to its end, and the
\* menu polls controlledbygui far more often than songs follow each other.
FairSpec ==
  /\ Spec
  /\ WF_vars(~crashed /\ MPlayerStep) /\ WF_vars(~crashed /\ MenuStep)
  /\ SF_vars(~crashed /\ LoadReady)

-----------------------------------------------------------------------------
(* Properties.                                                             *)

\* Types of the shared variables and of the threads' states.
TypeOK ==
  /\ MusicTypeOK
  /\ controlledbygui \in 0 .. 3
  /\ filename \in Songs \cup {None} /\ loadedFile \in Songs \cup {None}
  /\ forceNextFile \in BOOLEAN /\ playOrder \in Orders
  /\ folderQueue \in Seq(Songs) /\ folderQueuePos \in 0 .. Len(folderQueue) /\ freed \in BOOLEAN
  /\ mpc \in MPlayerStates /\ end_film_error \in {0, 1}
  /\ gpc \in MenuStates /\ folder \in Folders

\* The menu waits for a file to be taken only while there is one: a name that
\* play_next_file freed unread was replaced by another, or control given back.
HandoverHasFile ==
  gpc = "takewait" /\ controlledbygui = 3 /\ mpc = "parked" => filename # None

\* "The 'Loading...' that never went away" (PORTING.md 11.12): LoadNewFile
\* comes back to the menu, whatever MPlayer was doing, unless a walk of a
\* torn playlist crashes the console.
LoadReturns == gpc = "endwait" ~> (gpc = "idle" \/ crashed)

\* "MPlayer clears it once it has" (menu.cpp): the request to end a file is
\* answered, also when it comes as nothing plays (unless the console crashes).
EndAnswered == controlledbygui = 2 ~> (controlledbygui # 2 \/ crashed)

\* The comment on RequestNextFile: "Pressing Next, or X+R, is the user asking
\* for the following track".  With another song in the folder and control
\* back, the song changes.
NextAdvances ==
  [][NextFind /\ controlledbygui = 1 /\ numEntries = 0 /\ Len(folderQueue) > 1
       => loadedFile' # loadedFile]_vars

-----------------------------------------------------------------------------
(* The inductive invariant.                                                *)

\* Until its file is taken, LoadMPlayerFile has one to load.
LoadHasFile == gpc \in {"endwait", "hand", "load", "takewait"} => loadedFile # None

\* An edit is under way exactly when the menu is in one.
EditInMenu == gpc = "edit" <=> step # "none"

PlayerInv == TypeOK /\ MusicInv /\ EditInMenu /\ LoadHasFile /\ HandoverHasFile
=============================================================================
