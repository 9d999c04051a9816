---------------------------- MODULE PlayerProofs ----------------------------
(***************************************************************************)
(* Proofs for Player and MusicPlaylist, for any songs, folders and play    *)
(* orders: the types, the shuffle that survives every edit of the playlist *)
(* that FindNextFile() does not see half done, and the file that is there  *)
(* when the menu waits for MPlayer to take it.                             *)
(***************************************************************************)
EXTENDS Player, TLAPS, SequenceTheorems

-----------------------------------------------------------------------------
(* The playlist.                                                           *)

\* A shuffle of n entries is a sequence of n indices below n.
LEMMA ShuffleSeq ==
  ASSUME NEW n \in Nat, NEW p \in Shuffles(n)
  PROVE  p \in Seq(Nat) /\ Len(p) = n /\ \A i \in 1 .. n : p[i] \in 0 .. n - 1
<1>1. p \in [1 .. n -> 0 .. n - 1]
  BY DEF Shuffles
<1>2. p \in [1 .. n -> Nat]
  BY <1>1
<1>3. p \in Seq(Nat)
  BY <1>2, SeqDef
<1> QED
  BY <1>1, <1>3

\* A function on 1 .. n is a sequence of that length.
LEMMA FunctionIsSeq ==
  ASSUME NEW S, NEW n \in Nat, NEW f \in [1 .. n -> S]
  PROVE  f \in Seq(S) /\ Len(f) = n
<1>1. f \in Seq(S)
  BY SeqDef
<1> QED
  BY <1>1

\* The playlist once entry i has been taken out: one entry shorter.
LEMMA WithoutEntry ==
  ASSUME NEW S, NEW s \in Seq(S), NEW i \in 1 .. Len(s)
  PROVE  /\ SubSeq(s, 1, i - 1) \o SubSeq(s, i + 1, Len(s)) \in Seq(S)
         /\ Len(SubSeq(s, 1, i - 1) \o SubSeq(s, i + 1, Len(s))) = Len(s) - 1
<1> DEFINE a == SubSeq(s, 1, i - 1)
           b == SubSeq(s, i + 1, Len(s))
           n == Len(s)
<1>0. n \in Nat /\ i \in 1 .. n /\ \A k \in 1 .. n : s[k] \in S
  OBVIOUS
<1>1. a \in Seq(S) /\ Len(a) = i - 1
  <2>1. \A k \in 1 .. i - 1 : s[k] \in S
    BY <1>0
  <2>2. /\ SubSeq(s, 1, i - 1) \in Seq(S)
        /\ Len(SubSeq(s, 1, i - 1)) = IF 1 <= i - 1 THEN (i - 1) - 1 + 1 ELSE 0
    BY <1>0, <2>1, SubSeqProperties
  <2> QED
    BY <1>0, <2>2
<1>2. b \in Seq(S) /\ Len(b) = n - i
  <2>1. \A k \in i + 1 .. n : s[k] \in S
    BY <1>0
  <2>2. /\ SubSeq(s, i + 1, n) \in Seq(S)
        /\ Len(SubSeq(s, i + 1, n)) = IF i + 1 <= n THEN n - (i + 1) + 1 ELSE 0
    BY <1>0, <2>1, SubSeqProperties
  <2> QED
    BY <1>0, <2>2
<1> HIDE DEF a, b
<1>3. a \o b \in Seq(S) /\ Len(a \o b) = Len(a) + Len(b)
  BY <1>1, <1>2, ConcatProperties
<1>4. a \o b \in Seq(S) /\ Len(a \o b) = n - 1
  BY <1>0, <1>1, <1>2, <1>3
<1> QED
  BY <1>4, Zenon DEF a, b

\* The playlist without its last entry.
LEMMA WithoutLast ==
  ASSUME NEW T, NEW S, NEW s \in Seq(T), s # <<>>, \A k \in 1 .. Len(s) - 1 : s[k] \in S
  PROVE  SubSeq(s, 1, Len(s) - 1) \in Seq(S)
<1> DEFINE n == Len(s) - 1
<1>1. n \in Nat /\ n + 1 = Len(s) /\ \A k \in 1 .. n : s[k] \in S
  OBVIOUS
<1>2. SubSeq(s, 1, n) = [k \in 1 .. n |-> s[k]]
  BY <1>1
<1>3. SubSeq(s, 1, n) \in [1 .. n -> S]
  BY <1>1, <1>2
<1> QED
  BY <1>1, <1>3, SeqDef

\* The steps of an enqueue; only the last one ends the shuffled pass.
LEMMA EnqueueMusic ==
  ASSUME MusicInv,
         (\E song \in Songs : AddEntry(song)) \/ AddEntryCount \/ EnqueueName \/ EnqueueFile
  PROVE  MusicInv'
<1> USE DEF MusicInv, MusicTypeOK, Whole, Ahead, PassInv, EditSteps, EditEnds, Entries
<1>1. ASSUME NEW song \in Songs, AddEntry(song) PROVE MusicInv'
  <2>a. playlist \in Seq(Songs \cup {Blank, Gone}) /\ playlist' = Append(playlist, Blank)
    BY <1>1 DEF AddEntry
  <2>b. playlist' \in Seq(Songs \cup {Blank, Gone}) /\ Len(playlist') = Len(playlist) + 1
    BY <2>a
  <2>1. /\ playlist' \in Seq(Songs \cup {Blank, Gone}) /\ Len(playlist') = Len(playlist) + 1
        /\ playlist' # <<>>
    BY <2>a, <2>b
  <2>2. \A i \in 1 .. Len(playlist') - 1 : playlist'[i] \in Songs
    <3>1. playlist \in Seq(Songs) /\ playlist' = Append(playlist, Blank)
      BY <1>1 DEF AddEntry
    <3> QED
      BY <2>1, <3>1
  <2>3. /\ step' = "count" /\ entry' \in Songs /\ step \in {"none", "pass"}
        /\ UNCHANGED <<numEntries, selIndex, shuffleList, shuffleIndex, place, torn, crashed>>
    BY <1>1 DEF AddEntry
  <2>4. MusicTypeOK'
    BY <2>1, <2>2, <2>3
  <2>5. torn' \/ Whole'
    BY <2>1, <2>3
  <2> QED
    BY <2>4, <2>5
<1>2. CASE AddEntryCount
  BY <1>2 DEF AddEntryCount
<1>3. CASE EnqueueName
  <2> DEFINE n == Len(playlist)
  <2>1. /\ n \in Nat \ {0} /\ playlist \in [1 .. n -> Songs \cup {Blank, Gone}] /\ entry \in Songs
        /\ step = "name"
    BY <1>3 DEF EnqueueName
  <2>2. \A i \in 1 .. n : i # n => playlist[i] \in Songs
    BY <1>3 DEF EnqueueName
  <2>3. playlist' = [playlist EXCEPT ![n] = entry] /\ playlist' \in [1 .. n -> Songs]
    BY <1>3, <2>1, <2>2 DEF EnqueueName
  <2> HIDE DEF n
  <2>4. playlist' \in Seq(Songs) /\ Len(playlist') = n
    <3>1. n \in Nat /\ playlist' \in [1 .. n -> Songs]
      BY <2>1, <2>3
    <3> QED
      BY <3>1, FunctionIsSeq
  <2>5. /\ step' = "pass"
        /\ UNCHANGED <<numEntries, selIndex, shuffleList, shuffleIndex, entry, place, torn, crashed>>
    BY <1>3 DEF EnqueueName
  <2>6. playlist' # <<>>
    BY <2>1, <2>4
  <2>7. MusicTypeOK'
    BY <2>1, <2>4, <2>5, <2>6
  <2>8. torn' \/ Whole'
    BY <2>1, <2>4, <2>5 DEF n
  <2> QED
    BY <2>7, <2>8
<1>4. CASE EnqueueFile
  BY <1>4 DEF EnqueueFile, ResetShuffle
<1> QED
  BY <1>1, <1>2, <1>3, <1>4

\* An enqueue without memory tears the playlist.
LEMMA FailureMusic ==
  ASSUME MusicInv, EnqueueFails \/ AddEntryFails
  PROVE  MusicInv'
<1> USE DEF MusicInv, MusicTypeOK, EditSteps, EditEnds, Entries
<1>1. CASE EnqueueFails
  <2>1. \A k \in 1 .. Len(playlist) - 1 : playlist[k] \in Songs
    BY <1>1 DEF EnqueueFails
  <2>2. playlist \in Seq(Songs \cup {Blank, Gone}) /\ playlist # <<>>
    BY <1>1 DEF EnqueueFails
  <2>3. playlist' \in Seq(Songs)
    BY <1>1, <2>1, <2>2, WithoutLast DEF EnqueueFails
  <2> QED
    BY <1>1, <2>3 DEF EnqueueFails
<1>2. CASE AddEntryFails
  BY <1>2 DEF AddEntryFails
<1> QED
  BY <1>1, <1>2

\* The steps of a removal and of the reset.
LEMMA RemoveMusic ==
  ASSUME MusicInv, ~crashed,
         \/ \E song \in Songs : Unlink(song)
         \/ Deselect \/ RemoveResetsPass \/ Remove \/ ResetFrees \/ ResetMusic
  PROVE  MusicInv'
<1> USE DEF MusicInv, MusicTypeOK, Whole, Ahead, PassInv, EditSteps, EditEnds, Entries
<1>1. ASSUME NEW song \in Songs, Unlink(song) PROVE MusicInv'
  <2>1. PICK i \in 1 .. Len(playlist) :
          /\ playlist' = SubSeq(playlist, 1, i - 1) \o SubSeq(playlist, i + 1, Len(playlist))
          /\ place' = i
    BY <1>1 DEF Unlink, PlacesOf
  <2>2. playlist \in Seq(Songs) /\ step = "none"
    BY <1>1 DEF Unlink
  <2>3. playlist' \in Seq(Songs) /\ Len(playlist') = Len(playlist) - 1
    BY <2>1, <2>2, WithoutEntry
  <2>4. Len(playlist) \in Nat /\ i \in Nat
    BY <2>2
  <2>5. /\ step' = "unsel" /\ entry' = song
        /\ UNCHANGED <<numEntries, selIndex, shuffleList, shuffleIndex, torn, crashed>>
    BY <1>1 DEF Unlink
  <2>6. MusicTypeOK'
    <3>1. playlist' \in Seq(Songs \cup {Blank, Gone})
      BY <2>3
    <3> QED
      BY <2>1, <2>3, <2>4, <2>5, <3>1
  <2>7. torn' \/ Whole'
    BY <2>2, <2>3, <2>4, <2>5
  <2> QED
    BY <2>6, <2>7
<1>2. CASE Deselect
  BY <1>2 DEF Deselect
<1>3. CASE RemoveResetsPass
  BY <1>3 DEF RemoveResetsPass, ResetShuffle
<1>4. CASE Remove
  BY <1>4 DEF Remove
<1>5. CASE ResetFrees
  <2>1. playlist' \in Seq({Gone}) /\ Len(playlist') = Len(playlist)
    BY <1>5 DEF ResetFrees
  <2>2. playlist' \in Seq(Songs \cup {Blank, Gone})
    BY <2>1
  <2> QED
    BY <1>5, <2>1, <2>2 DEF ResetFrees
<1>6. CASE ResetMusic
  <2>1. torn' \in BOOLEAN /\ ~torn'
    BY <1>6, Zenon DEF ResetMusic
  <2>2. MusicTypeOK'
    BY <1>6, <2>1 DEF ResetMusic
  <2>3. Whole'
    BY <1>6 DEF ResetMusic
  <2> QED
    BY <2>2, <2>3
<1> QED
  BY <1>1, <1>2, <1>3, <1>4, <1>5, <1>6

\* A pointer of the list leads to an entry or to nothing.
LEMMA PointerTypes ==
  ASSUME MusicTypeOK
  PROVE  /\ \A i : EntryAt(i) \in Entries
         /\ \A e : EntryAfter(e) \in Entries
<1>1. \A i : EntryAt(i) \in Entries
  BY DEF EntryAt, Entries, MusicTypeOK
<1>2. ASSUME NEW e PROVE EntryAfter(e) \in Entries
  <2>1. CASE e = Gone
    BY <2>1 DEF EntryAfter, Entries
  <2>2. CASE e # Gone /\ PlacesOf(e) = {}
    BY <1>1, <2>2 DEF EntryAfter
  <2>3. CASE e # Gone /\ PlacesOf(e) # {}
    BY <1>1, <2>3 DEF EntryAfter
  <2> QED
    BY <2>1, <2>2, <2>3
<1> QED
  BY <1>1, <1>2

\* Outside an edit, from an entry that was not freed, it leads to a song or
\* to the end.
LEMMA PointerSongs ==
  ASSUME playlist \in Seq(Songs)
  PROVE  /\ \A i : EntryAt(i) \in Songs \cup {None}
         /\ \A i \in 1 .. Len(playlist) : EntryAt(i) \in Songs
         /\ \A e : e # Gone => EntryAfter(e) \in Songs \cup {None}
<1>1. \A i : EntryAt(i) \in Songs \cup {None}
  BY DEF EntryAt
<1>2. \A i \in 1 .. Len(playlist) : EntryAt(i) \in Songs
  BY DEF EntryAt
<1>3. ASSUME NEW e, e # Gone PROVE EntryAfter(e) \in Songs \cup {None}
  <2>1. CASE PlacesOf(e) = {}
    BY <1>1, <1>3, <2>1 DEF EntryAfter
  <2>2. CASE PlacesOf(e) # {}
    BY <1>1, <1>3, <2>2 DEF EntryAfter
  <2> QED
    BY <2>1, <2>2
<1> QED
  BY <1>1, <1>2, <1>3

\* A playlist that is whole, outside an edit, has a song for every pointer.
Healthy ==
  /\ ~torn /\ step = "none" /\ ~crashed
  /\ playlist \in Seq(Songs) /\ Len(playlist) > 0 /\ numEntries = Len(playlist)
  /\ selIndex \in Songs \cup {None}
  /\ \/ shuffleIndex = -1
     \/ shuffleIndex \in 1 .. Len(playlist) /\ shuffleList \in Shuffles(Len(playlist))

\* The shuffled walk: in a healthy playlist it stays inside its array and
\* inside the list.
LEMMA ShuffleMusic ==
  ASSUME MusicInv, numEntries > 0, NEW found \in BOOLEAN, MusicPlaylistGetNextShuffle(found)
  PROVE  /\ selIndex' \in Entries /\ shuffleList' \in Seq(Nat) /\ shuffleIndex' \in Nat
         /\ crashed' = (selIndex' \notin Songs) /\ found = (selIndex' \in Songs)
         /\ Healthy => /\ selIndex' \in Songs
                       /\ shuffleIndex' \in 1 .. Len(playlist)
                       /\ shuffleList' \in Shuffles(Len(playlist))
<1>1. PICK k \in IF shuffleIndex' <= Len(shuffleList') THEN {shuffleList'[shuffleIndex']}
                                                       ELSE 0 .. Len(playlist) :
        Take(EntryAt(k + 1), found)
  BY DEF MusicPlaylistGetNextShuffle
<1>2. selIndex' \in Entries /\ crashed' = (selIndex' \notin Songs) /\ found = (selIndex' \in Songs)
  BY <1>1, PointerTypes DEF Take, MusicInv
<1>3. shuffleList' \in Seq(Nat) /\ shuffleIndex' \in Nat
  <2>1. CASE shuffleIndex = -1 \/ shuffleIndex >= numEntries
    <3>1. shuffleList' \in Shuffles(numEntries) /\ shuffleIndex' = 1 /\ numEntries \in Nat
      BY <2>1 DEF MusicPlaylistGetNextShuffle, MusicInv, MusicTypeOK
    <3> QED
      BY <3>1, ShuffleSeq
  <2>2. CASE ~(shuffleIndex = -1 \/ shuffleIndex >= numEntries)
    BY <2>2 DEF MusicPlaylistGetNextShuffle, MusicInv, MusicTypeOK
  <2> QED
    BY <2>1, <2>2
<1>4. ASSUME Healthy
      PROVE  /\ selIndex' \in Songs
             /\ shuffleIndex' \in 1 .. Len(playlist)
             /\ shuffleList' \in Shuffles(Len(playlist))
  <2> DEFINE n == Len(playlist)
  <2>1. n \in Nat /\ n > 0 /\ numEntries = n /\ playlist \in Seq(Songs)
    BY <1>4 DEF Healthy
  <2>2. shuffleList' \in Shuffles(n) /\ shuffleIndex' \in 1 .. n
    <3>1. CASE shuffleIndex = -1 \/ shuffleIndex >= n
      BY <2>1, <3>1 DEF MusicPlaylistGetNextShuffle
    <3>2. CASE ~(shuffleIndex = -1 \/ shuffleIndex >= n)
      <4>1. shuffleIndex' = shuffleIndex + 1 /\ shuffleList' = shuffleList
        BY <2>1, <3>2 DEF MusicPlaylistGetNextShuffle
      <4>2. shuffleIndex \in 1 .. n /\ shuffleList \in Shuffles(n)
        BY <1>4, <3>2 DEF Healthy
      <4> QED
        BY <2>1, <3>2, <4>1, <4>2
    <3> QED
      BY <3>1, <3>2
  <2>3. Len(shuffleList') = n /\ shuffleList'[shuffleIndex'] \in 0 .. n - 1
    BY <2>1, <2>2, ShuffleSeq
  <2>4. k = shuffleList'[shuffleIndex']
    BY <1>1, <2>1, <2>2, <2>3
  <2>5. k + 1 \in 1 .. n
    BY <2>1, <2>3, <2>4
  <2>6. EntryAt(k + 1) \in Songs
    BY <2>1, <2>5, PointerSongs
  <2> QED
    BY <1>1, <2>2, <2>6 DEF Take
<1> QED
  BY <1>2, <1>3, <1>4

\* Every play order leads to an entry of the playlist, says there is none, or
\* ends in a playlist that was torn.
LEMMA AdvanceMusic ==
  ASSUME MusicInv, numEntries > 0, NEW order \in PlayOrders, NEW forced \in BOOLEAN,
         NEW found \in BOOLEAN, PlaylistAdvance(order, forced, found)
  PROVE  MusicInv' /\ (found => selIndex' \in Songs) /\ step' = step
<1> DEFINE next == EntryAfter(selIndex)
           first == EntryAt(1)
<1>0. UNCHANGED <<playlist, numEntries, edit>> /\ torn' = (torn \/ step # "none")
  BY DEF PlaylistAdvance
<1>1. next \in Entries /\ first \in Entries /\ selIndex \in Entries
  BY PointerTypes DEF MusicInv, MusicTypeOK
<1>2. torn \/ step # "none" \/ Healthy
  <2> SUFFICES ASSUME ~torn, step = "none" PROVE Healthy
    OBVIOUS
  <2>1. playlist \in Seq(Songs) /\ numEntries = Len(playlist) /\ Len(playlist) > 0
    BY DEF MusicInv, MusicTypeOK, Whole, Ahead
  <2>2. playlist # <<>>
    BY <2>1
  <2>3. Whole /\ ~crashed
    BY Zenon DEF MusicInv, Whole
  <2>4. /\ selIndex \in Songs \cup {None}
        /\ \/ shuffleIndex = -1
           \/ shuffleIndex \in 1 .. Len(playlist) /\ shuffleList \in Shuffles(Len(playlist))
    BY <2>2, <2>3 DEF Whole, PassInv
  <2> QED
    BY <2>1, <2>3, <2>4 DEF Healthy
<1>3. Healthy => next \in Songs \cup {None} /\ first \in Songs /\ selIndex \in Songs \cup {None}
  <2>1. ASSUME Healthy PROVE selIndex # Gone /\ 1 \in 1 .. Len(playlist)
    BY <2>1, SongAssumption DEF Healthy, None, Gone
  <2> QED
    BY <2>1, PointerSongs DEF Healthy
<1> HIDE DEF next, first
<1>4. ASSUME selIndex' \in Entries, shuffleList' \in Seq(Nat), shuffleIndex' \in Nat \cup {-1},
             crashed' \in BOOLEAN,
             Healthy => /\ selIndex' \in Songs \cup {None} /\ ~crashed'
                        /\ \/ shuffleIndex' = -1
                           \/ /\ shuffleIndex' \in 1 .. Len(playlist)
                              /\ shuffleList' \in Shuffles(Len(playlist))
      PROVE  MusicInv'
  <2>1. torn' \in BOOLEAN
    BY <1>0, Zenon
  <2>2. MusicTypeOK'
    BY <1>0, <1>4, <2>1 DEF MusicInv, MusicTypeOK, edit
  <2>3. CASE torn \/ step # "none"
    BY <1>0, <2>2, <2>3 DEF MusicInv
  <2>4. CASE Healthy
    BY <1>0, <1>4, <2>2, <2>4 DEF Healthy, MusicInv, Whole, Ahead, PassInv, edit
  <2> QED
    BY <1>2, <2>3, <2>4
<1>5. ASSUME NEW e \in Entries, Healthy => e \in Songs, Take(e, found),
             UNCHANGED <<shuffleList, shuffleIndex>>
      PROVE  MusicInv' /\ (found => selIndex' \in Songs)
  <2>1. selIndex' = e /\ found = (e \in Songs) /\ crashed' = (e \notin Songs)
    BY <1>5 DEF Take
  <2>2. crashed' \in BOOLEAN
    BY <2>1, Zenon
  <2>3. MusicInv'
    BY <1>4, <1>5, <2>1, <2>2 DEF MusicInv, MusicTypeOK, Healthy
  <2> QED
    BY <2>1, <2>3
<1>6. CASE \/ ~forced /\ order = "single" /\ selIndex # None
           \/ order = "through" /\ (selIndex = None \/ next = None)
  <2>1. ~found /\ selIndex' = None /\ UNCHANGED <<shuffleList, shuffleIndex, crashed>>
    BY <1>6 DEF PlaylistAdvance, next
  <2>2. selIndex' \in Entries /\ crashed' \in BOOLEAN /\ shuffleIndex' \in Nat \cup {-1}
          /\ shuffleList' \in Seq(Nat)
    BY <2>1 DEF MusicInv, MusicTypeOK, Entries
  <2>3. MusicInv'
    BY <1>4, <2>1, <2>2 DEF Healthy
  <2> QED
    BY <1>0, <2>1, <2>3 DEF edit
<1>7. CASE order = "through" /\ selIndex # None /\ next # None
  <2>1. Take(next, found) /\ UNCHANGED <<shuffleList, shuffleIndex>>
    BY <1>7 DEF PlaylistAdvance, next
  <2> QED
    BY <1>0, <1>1, <1>3, <1>5, <1>7, <2>1 DEF edit
<1>8. CASE order # "through" /\ selIndex = None
  <2>1. Take(first, found) /\ UNCHANGED <<shuffleList, shuffleIndex>>
    BY <1>8 DEF PlaylistAdvance, first
  <2> QED
    BY <1>0, <1>1, <1>3, <1>5, <2>1 DEF edit
<1>9. CASE selIndex # None /\ (order = "continuous" \/ (forced /\ order \in {"single", "loop"}))
  <2>1. Take(IF next = None THEN first ELSE next, found) /\ UNCHANGED <<shuffleList, shuffleIndex>>
    BY <1>9 DEF PlaylistAdvance, next, first
  <2> QED
    BY <1>0, <1>1, <1>3, <1>5, <2>1 DEF edit
<1>10. CASE selIndex # None /\ order = "shuffle"
  <2>1. MusicPlaylistGetNextShuffle(found)
    BY <1>10 DEF PlaylistAdvance
  <2>2. crashed' = (selIndex' \notin Songs) /\ found = (selIndex' \in Songs)
    BY <2>1, ShuffleMusic
  <2>3. crashed' \in BOOLEAN
    BY <2>2, Zenon
  <2>4. MusicInv'
    BY <1>4, <2>1, <2>2, <2>3, ShuffleMusic
  <2> QED
    BY <1>0, <2>2, <2>4 DEF edit
<1>11. CASE selIndex # None /\ order = "loop" /\ ~forced
  <2>1. Take(selIndex, found) /\ UNCHANGED <<shuffleList, shuffleIndex>>
    BY <1>11 DEF PlaylistAdvance
  <2> QED
    BY <1>0, <1>1, <1>3, <1>5, <1>11, <2>1 DEF edit
<1> QED
  BY <1>6, <1>7, <1>8, <1>9, <1>10, <1>11 DEF PlayOrders

-----------------------------------------------------------------------------
(* FindNextFile() and the threads.                                         *)

QueueTypes ==
  folderQueue \in Seq(Songs) /\ folderQueuePos \in 0 .. Len(folderQueue) /\ freed \in BOOLEAN

\* Every position FolderQueueAdvance may take is one of the queue.
LEMMA QueueNext ==
  ASSUME QueueTypes, NEW forced, NEW p \in FolderQueueNext(forced)
  PROVE  p \in 1 .. Len(folderQueue)
BY DEF QueueTypes, FolderQueueNext

\* A step that leaves the playlist alone leaves its invariant alone.
LEMMA MusicStays ==
  ASSUME MusicInv, UNCHANGED music
  PROVE  MusicInv' /\ step' = step
BY DEF music, edit, MusicInv, MusicTypeOK, Whole, Ahead, PassInv, Entries

\* Select, LoadReady and FolderQueueAdvance change the entry being played, to a
\* song or to none.
LEMMA SelectionStays ==
  ASSUME MusicInv, selIndex' \in {selIndex, None} \cup Songs,
         UNCHANGED <<playlist, numEntries, shuffleList, shuffleIndex, edit, torn, crashed>>
  PROVE  MusicInv' /\ step' = step
BY DEF edit, MusicInv, MusicTypeOK, Whole, Ahead, PassInv, Entries

\* FindNextFile keeps the types, and never takes the current file away.
LEMMA FindTypes ==
  ASSUME TypeOK, MusicInv, NEW load \in BOOLEAN, NEW found \in BOOLEAN, FindNextFile(load, found)
  PROVE  /\ MusicInv' /\ step' = step /\ QueueTypes' /\ loadedFile' \in Songs \cup {None}
         /\ forceNextFile' \in BOOLEAN
         /\ loadedFile # None => loadedFile' # None
<1>t. /\ MusicInv /\ QueueTypes /\ loadedFile \in Songs \cup {None} /\ forceNextFile \in BOOLEAN
      /\ playOrder \in PlayOrders /\ None \notin Songs
  BY SongAssumption, OrderAssumption DEF TypeOK, QueueTypes
<1>0. forceNextFile' \in BOOLEAN
  BY Zenon DEF FindNextFile
<1>1. CASE UNCHANGED <<loadedFile, queue, music>>
  BY <1>0, <1>1, <1>t, MusicStays DEF queue, QueueTypes
<1>2. CASE FolderQueueAdvance(forceNextFile, found)
  <2>1. CASE found
    <3>1. /\ folderQueuePos' \in FolderQueueNext(forceNextFile)
          /\ loadedFile' \in IF freed THEN Songs ELSE {folderQueue[folderQueuePos']}
          /\ UNCHANGED music /\ UNCHANGED <<folderQueue, freed>>
      BY <1>2, <2>1 DEF FolderQueueAdvance
    <3>2. folderQueuePos' \in 1 .. Len(folderQueue)
      BY <1>t, <3>1, QueueNext
    <3>3. loadedFile' \in Songs /\ QueueTypes'
      BY <1>t, <3>1, <3>2 DEF QueueTypes
    <3>4. MusicInv' /\ step' = step
      BY <1>t, <3>1, MusicStays
    <3> QED
      BY <1>t, <1>0, <3>3, <3>4
  <2>2. CASE ~found
    <3>1. /\ UNCHANGED <<folderQueuePos, loadedFile>> /\ selIndex' = None
          /\ UNCHANGED <<playlist, numEntries, shuffleList, shuffleIndex, edit, torn, crashed>>
          /\ UNCHANGED <<folderQueue, freed>>
      BY <1>2, <2>2 DEF FolderQueueAdvance
    <3>2. MusicInv' /\ step' = step
      BY <1>t, <3>1, SelectionStays
    <3> QED
      BY <1>0, <1>t, <3>1, <3>2 DEF QueueTypes
  <2> QED
    BY <2>1, <2>2
<1>3. CASE /\ numEntries > 0 /\ PlaylistAdvance(playOrder, forceNextFile, found)
           /\ loadedFile' = (IF found THEN selIndex' ELSE loadedFile) /\ UNCHANGED queue
  <2>1. MusicInv' /\ step' = step /\ (found => selIndex' \in Songs)
    BY <1>3, <1>t, AdvanceMusic
  <2> QED
    BY <1>0, <1>3, <1>t, <2>1 DEF queue, QueueTypes
<1> QED
  BY <1>1, <1>2, <1>3 DEF FindNextFile

\* The initial state.
LEMMA PlayerInit ==
  Init => PlayerInv
<1> SUFFICES ASSUME Init PROVE PlayerInv
  OBVIOUS
<1>1. forceNextFile \in BOOLEAN /\ freed \in BOOLEAN /\ torn \in BOOLEAN /\ crashed \in BOOLEAN
        /\ ~crashed
  BY Zenon DEF Init, MusicInit
<1>2. MusicTypeOK /\ Whole /\ step = "none"
  BY <1>1 DEF Init, MusicInit, MusicTypeOK, Whole, Ahead, PassInv, EditSteps, Entries
<1>3. TypeOK
  BY <1>1, <1>2, OrderAssumption DEF Init, TypeOK, MPlayerStates, MenuStates
<1> QED
  BY <1>2, <1>3 DEF Init, PlayerInv, MusicInv, EditInMenu, LoadHasFile, HandoverHasFile

\* Every step keeps the invariant of the player.
LEMMA PlayerNext ==
  PlayerInv /\ [Next]_vars => PlayerInv'
<1> SUFFICES ASSUME PlayerInv, [Next]_vars PROVE PlayerInv'
  OBVIOUS
<1>t. /\ TypeOK /\ MusicInv /\ EditInMenu /\ QueueTypes /\ None \notin Songs
      /\ forceNextFile \in BOOLEAN /\ LoadHasFile /\ HandoverHasFile
  BY SongAssumption DEF PlayerInv, TypeOK, QueueTypes
<1>q. ASSUME MusicInv', QueueTypes', forceNextFile' \in BOOLEAN, controlledbygui' \in 0 .. 3,
             filename' \in Songs \cup {None}, loadedFile' \in Songs \cup {None},
             playOrder' \in Orders, mpc' \in MPlayerStates, end_film_error' \in {0, 1},
             gpc' \in MenuStates, folder' \in Folders
      PROVE  TypeOK'
  BY <1>q DEF TypeOK, MusicInv, QueueTypes
<1>1. CASE PlayNextFile
  <2>1. CASE end_film_error = 0
    <3>1. PICK found \in BOOLEAN :
            /\ FindNextFile(TRUE, found)
            /\ filename' = (IF found THEN loadedFile' ELSE None)
            /\ controlledbygui' = IF found THEN controlledbygui ELSE 1
      BY <1>1, <2>1 DEF PlayNextFile
    <3>2. /\ MusicInv' /\ step' = step /\ QueueTypes' /\ loadedFile' \in Songs \cup {None}
          /\ forceNextFile' \in BOOLEAN
          /\ loadedFile # None => loadedFile' # None
      BY <1>t, <3>1, FindTypes
    <3>3. TypeOK'
      BY <1>1, <1>t, <1>q, <3>1, <3>2 DEF TypeOK, PlayNextFile, MPlayerStates, menu
    <3>4. EditInMenu' /\ LoadHasFile' /\ HandoverHasFile'
      BY <1>1, <1>t, <3>1, <3>2 DEF EditInMenu, PlayNextFile, LoadHasFile, HandoverHasFile, menu
    <3> QED
      BY <3>2, <3>3, <3>4 DEF PlayerInv
  <2>2. CASE end_film_error # 0
    <3>1. /\ filename' = None /\ controlledbygui' = 1
          /\ UNCHANGED <<loadedFile, forceNextFile, queue, music>>
      BY <1>1, <2>2 DEF PlayNextFile
    <3>2. MusicInv' /\ step' = step /\ QueueTypes' /\ forceNextFile' \in BOOLEAN
      BY <1>t, <3>1, MusicStays DEF QueueTypes, queue
    <3>3. TypeOK'
      BY <1>1, <1>t, <1>q, <3>1, <3>2 DEF TypeOK, PlayNextFile, MPlayerStates, menu
    <3>4. EditInMenu' /\ LoadHasFile' /\ HandoverHasFile'
      BY <1>1, <1>t, <3>1, <3>2 DEF EditInMenu, PlayNextFile, LoadHasFile, HandoverHasFile, menu
    <3> QED
      BY <3>2, <3>3, <3>4 DEF PlayerInv
  <2> QED
    BY <2>1, <2>2
<1>2. CASE Poll
  <2>1. MusicInv' /\ step' = step
    BY <1>2, <1>t, MusicStays DEF Poll
  <2>2. UNCHANGED queue
    BY <1>2 DEF Poll
  <2>3. QueueTypes'
    BY <1>t, <2>2 DEF QueueTypes, queue
  <2>4. forceNextFile' \in BOOLEAN
    BY <1>2, <1>t, Zenon DEF Poll
  <2>5. TypeOK'
    BY <1>2, <1>t, <1>q, <2>1, <2>3, <2>4 DEF TypeOK, Poll, MPlayerStates, MenuStates, queue,
       menu, mplayer
  <2>6. EditInMenu' /\ LoadHasFile' /\ HandoverHasFile'
    BY <1>2, <1>t, <2>1 DEF EditInMenu, Poll, LoadHasFile, HandoverHasFile, menu, mplayer
  <2> QED
    BY <2>1, <2>5, <2>6 DEF PlayerInv
<1>3. CASE OpenAudio
  <2>1. MusicInv' /\ step' = step
    BY <1>3, <1>t, MusicStays DEF OpenAudio
  <2>2. UNCHANGED queue
    BY <1>3 DEF OpenAudio
  <2>3. QueueTypes'
    BY <1>t, <2>2 DEF QueueTypes, queue
  <2>4. forceNextFile' \in BOOLEAN
    BY <1>3, <1>t, Zenon DEF OpenAudio
  <2>5. TypeOK'
    BY <1>3, <1>t, <1>q, <2>1, <2>3, <2>4 DEF TypeOK, OpenAudio, MPlayerStates, MenuStates, queue,
       menu, mplayer
  <2>6. EditInMenu' /\ LoadHasFile' /\ HandoverHasFile'
    BY <1>3, <1>t, <2>1 DEF EditInMenu, OpenAudio, LoadHasFile, HandoverHasFile, menu, mplayer
  <2> QED
    BY <2>1, <2>5, <2>6 DEF PlayerInv
<1>4. CASE OpenFails
  <2>1. MusicInv' /\ step' = step
    BY <1>4, <1>t, MusicStays DEF OpenFails
  <2>2. UNCHANGED queue
    BY <1>4 DEF OpenFails
  <2>3. QueueTypes'
    BY <1>t, <2>2 DEF QueueTypes, queue
  <2>4. forceNextFile' \in BOOLEAN
    BY <1>4, <1>t, Zenon DEF OpenFails
  <2>5. TypeOK'
    BY <1>4, <1>t, <1>q, <2>1, <2>3, <2>4 DEF TypeOK, OpenFails, MPlayerStates, MenuStates, queue,
       menu, mplayer
  <2>6. EditInMenu' /\ LoadHasFile' /\ HandoverHasFile'
    BY <1>4, <1>t, <2>1 DEF EditInMenu, OpenFails, LoadHasFile, HandoverHasFile, menu, mplayer
  <2> QED
    BY <2>1, <2>5, <2>6 DEF PlayerInv
<1>5. CASE PlayEnds
  <2>1. MusicInv' /\ step' = step
    BY <1>5, <1>t, MusicStays DEF PlayEnds
  <2>2. UNCHANGED queue
    BY <1>5 DEF PlayEnds
  <2>3. QueueTypes'
    BY <1>t, <2>2 DEF QueueTypes, queue
  <2>4. forceNextFile' \in BOOLEAN
    BY <1>5, <1>t, Zenon DEF PlayEnds
  <2>5. TypeOK'
    BY <1>5, <1>t, <1>q, <2>1, <2>3, <2>4 DEF TypeOK, PlayEnds, MPlayerStates, MenuStates, queue,
       menu, mplayer
  <2>6. EditInMenu' /\ LoadHasFile' /\ HandoverHasFile'
    BY <1>5, <1>t, <2>1 DEF EditInMenu, PlayEnds, LoadHasFile, HandoverHasFile, menu, mplayer
  <2> QED
    BY <2>1, <2>5, <2>6 DEF PlayerInv
<1>7. CASE ClearFolderQueue
  <2>1. MusicInv' /\ step' = step
    BY <1>7, <1>t, MusicStays DEF ClearFolderQueue
  <2>3. QueueTypes'
    BY <1>7, <1>t, Zenon DEF ClearFolderQueue, QueueTypes
  <2>4. forceNextFile' \in BOOLEAN
    BY <1>7, <1>t, Zenon DEF ClearFolderQueue
  <2>5. TypeOK'
    BY <1>7, <1>t, <1>q, <2>1, <2>3, <2>4 DEF TypeOK, ClearFolderQueue, MPlayerStates, MenuStates,
       queue, menu, mplayer
  <2>6. EditInMenu' /\ LoadHasFile' /\ HandoverHasFile'
    BY <1>7, <1>t, <2>1 DEF EditInMenu, ClearFolderQueue, LoadHasFile, HandoverHasFile, menu,
       mplayer
  <2> QED
    BY <2>1, <2>5, <2>6 DEF PlayerInv
<1>8. CASE ClearFolderQueueReset
  <2>1. MusicInv' /\ step' = step
    BY <1>8, <1>t, MusicStays DEF ClearFolderQueueReset
  <2>2. freed' \in BOOLEAN
    BY <1>8, Zenon DEF ClearFolderQueueReset
  <2>3. QueueTypes'
    BY <1>8, <2>2 DEF ClearFolderQueueReset, QueueTypes
  <2>4. forceNextFile' \in BOOLEAN
    BY <1>8, <1>t, Zenon DEF ClearFolderQueueReset
  <2>5. TypeOK'
    BY <1>8, <1>t, <1>q, <2>1, <2>3, <2>4 DEF TypeOK, ClearFolderQueueReset, MPlayerStates,
       MenuStates, queue, menu, mplayer
  <2>6. EditInMenu' /\ LoadHasFile' /\ HandoverHasFile'
    BY <1>8, <1>t, <2>1 DEF EditInMenu, ClearFolderQueueReset, LoadHasFile, HandoverHasFile,
       menu, mplayer
  <2> QED
    BY <2>1, <2>5, <2>6 DEF PlayerInv
<1>9. CASE BuildFolderQueue
  <2> DEFINE path == Listing[folder][Len(folderQueue) + 1]
  <2>1. /\ folderQueue' = Append(folderQueue, path) /\ UNCHANGED freed
        /\ folderQueuePos' = IF path = loadedFile THEN Len(folderQueue) + 1 ELSE folderQueuePos
    BY <1>9 DEF BuildFolderQueue
  <2>2. path \in Songs
    <3>1. Listing[folder] \in Seq(Songs)
      BY <1>t, FolderAssumption DEF TypeOK
    <3>2. Len(folderQueue) + 1 \in 1 .. Len(Listing[folder])
      BY <1>9, <1>t, <3>1 DEF BuildFolderQueue, QueueTypes
    <3> QED
      BY <3>1, <3>2
  <2> HIDE DEF path
  <2>3. folderQueue' \in Seq(Songs) /\ Len(folderQueue') = Len(folderQueue) + 1
    BY <1>t, <2>1, <2>2 DEF QueueTypes
  <2>4. QueueTypes'
    BY <1>t, <2>1, <2>3 DEF QueueTypes
  <2>5. MusicInv' /\ step' = step /\ forceNextFile' \in BOOLEAN
    BY <1>9, <1>t, MusicStays DEF BuildFolderQueue
  <2>6. TypeOK'
    BY <1>9, <1>t, <1>q, <2>4, <2>5 DEF TypeOK, BuildFolderQueue, menu, mplayer
  <2>7. EditInMenu' /\ LoadHasFile' /\ HandoverHasFile'
    BY <1>9, <1>t, <2>5 DEF EditInMenu, BuildFolderQueue, LoadHasFile, HandoverHasFile, menu,
       mplayer
  <2> QED
    BY <2>5, <2>6, <2>7 DEF PlayerInv
<1>10. CASE BuildFolderQueueEnd
  <2>1. MusicInv' /\ step' = step
    BY <1>10, <1>t, MusicStays DEF BuildFolderQueueEnd
  <2>2. UNCHANGED queue
    BY <1>10 DEF BuildFolderQueueEnd
  <2>3. QueueTypes'
    BY <1>t, <2>2 DEF QueueTypes, queue
  <2>4. forceNextFile' \in BOOLEAN
    BY <1>10, <1>t, Zenon DEF BuildFolderQueueEnd
  <2>5. TypeOK'
    BY <1>10, <1>t, <1>q, <2>1, <2>3, <2>4 DEF TypeOK, BuildFolderQueueEnd, MPlayerStates,
       MenuStates, queue, menu, mplayer
  <2>6. EditInMenu' /\ LoadHasFile' /\ HandoverHasFile'
    BY <1>10, <1>t, <2>1 DEF EditInMenu, BuildFolderQueueEnd, LoadHasFile, HandoverHasFile,
       menu, mplayer
  <2> QED
    BY <2>1, <2>5, <2>6 DEF PlayerInv
<1>11. CASE LoadStops
  <2>1. MusicInv' /\ step' = step
    BY <1>11, <1>t, MusicStays DEF LoadStops
  <2>2. UNCHANGED queue
    BY <1>11 DEF LoadStops
  <2>3. QueueTypes'
    BY <1>t, <2>2 DEF QueueTypes, queue
  <2>4. forceNextFile' \in BOOLEAN
    BY <1>11, <1>t, Zenon DEF LoadStops
  <2>5. TypeOK'
    BY <1>11, <1>t, <1>q, <2>1, <2>3, <2>4 DEF TypeOK, LoadStops, MPlayerStates, MenuStates,
       queue, menu, mplayer
  <2>6. EditInMenu' /\ LoadHasFile' /\ HandoverHasFile'
    BY <1>11, <1>t, <2>1 DEF EditInMenu, LoadStops, LoadHasFile, HandoverHasFile, menu, mplayer
  <2> QED
    BY <2>1, <2>5, <2>6 DEF PlayerInv
<1>12. CASE LoadEnded
  <2>1. MusicInv' /\ step' = step
    BY <1>12, <1>t, MusicStays DEF LoadEnded
  <2>2. UNCHANGED queue
    BY <1>12 DEF LoadEnded
  <2>3. QueueTypes'
    BY <1>t, <2>2 DEF QueueTypes, queue
  <2>4. forceNextFile' \in BOOLEAN
    BY <1>12, <1>t, Zenon DEF LoadEnded
  <2>5. TypeOK'
    BY <1>12, <1>t, <1>q, <2>1, <2>3, <2>4 DEF TypeOK, LoadEnded, MPlayerStates, MenuStates,
       queue, menu, mplayer
  <2>6. EditInMenu' /\ LoadHasFile' /\ HandoverHasFile'
    BY <1>12, <1>t, <2>1 DEF EditInMenu, LoadEnded, LoadHasFile, HandoverHasFile, menu, mplayer
  <2> QED
    BY <2>1, <2>5, <2>6 DEF PlayerInv
<1>13. CASE HandOver
  <2>1. MusicInv' /\ step' = step
    BY <1>13, <1>t, MusicStays DEF HandOver
  <2>2. UNCHANGED queue
    BY <1>13 DEF HandOver
  <2>3. QueueTypes'
    BY <1>t, <2>2 DEF QueueTypes, queue
  <2>4. forceNextFile' \in BOOLEAN
    BY <1>13, <1>t, Zenon DEF HandOver
  <2>5. TypeOK'
    BY <1>13, <1>t, <1>q, <2>1, <2>3, <2>4 DEF TypeOK, HandOver, MPlayerStates, MenuStates, queue,
       menu, mplayer
  <2>6. EditInMenu' /\ LoadHasFile' /\ HandoverHasFile'
    BY <1>13, <1>t, <2>1 DEF EditInMenu, HandOver, LoadHasFile, HandoverHasFile, menu, mplayer
  <2> QED
    BY <2>1, <2>5, <2>6 DEF PlayerInv
<1>14. CASE LoadFile
  <2>1. MusicInv' /\ step' = step
    BY <1>14, <1>t, MusicStays DEF LoadFile
  <2>2. UNCHANGED queue
    BY <1>14 DEF LoadFile
  <2>3. QueueTypes'
    BY <1>t, <2>2 DEF QueueTypes, queue
  <2>4. forceNextFile' \in BOOLEAN
    BY <1>14, <1>t, Zenon DEF LoadFile
  <2>5. TypeOK'
    BY <1>14, <1>t, <1>q, <2>1, <2>3, <2>4 DEF TypeOK, LoadFile, MPlayerStates, MenuStates, queue,
       menu, mplayer
  <2>6. EditInMenu' /\ LoadHasFile' /\ HandoverHasFile'
    BY <1>14, <1>t, <2>1 DEF EditInMenu, LoadFile, LoadHasFile, HandoverHasFile, menu, mplayer
  <2> QED
    BY <2>1, <2>5, <2>6 DEF PlayerInv
<1>15. CASE LoadTaken
  <2>1. MusicInv' /\ step' = step
    BY <1>15, <1>t, MusicStays DEF LoadTaken
  <2>2. UNCHANGED queue
    BY <1>15 DEF LoadTaken
  <2>3. QueueTypes'
    BY <1>t, <2>2 DEF QueueTypes, queue
  <2>4. forceNextFile' \in BOOLEAN
    BY <1>15, <1>t, Zenon DEF LoadTaken
  <2>5. TypeOK'
    BY <1>15, <1>t, <1>q, <2>1, <2>3, <2>4 DEF TypeOK, LoadTaken, MPlayerStates, MenuStates,
       queue, menu, mplayer
  <2>6. EditInMenu' /\ LoadHasFile' /\ HandoverHasFile'
    BY <1>15, <1>t, <2>1 DEF EditInMenu, LoadTaken, LoadHasFile, HandoverHasFile, menu, mplayer
  <2> QED
    BY <2>1, <2>5, <2>6 DEF PlayerInv
<1>16. CASE NextStop
  <2>1. MusicInv' /\ step' = step
    BY <1>16, <1>t, MusicStays DEF NextStop
  <2>2. UNCHANGED queue
    BY <1>16 DEF NextStop
  <2>3. QueueTypes'
    BY <1>t, <2>2 DEF QueueTypes, queue
  <2>4. forceNextFile' \in BOOLEAN
    BY <1>16, <1>t, Zenon DEF NextStop
  <2>5. TypeOK'
    BY <1>16, <1>t, <1>q, <2>1, <2>3, <2>4 DEF TypeOK, NextStop, MPlayerStates, MenuStates, queue,
       menu, mplayer
  <2>6. EditInMenu' /\ LoadHasFile' /\ HandoverHasFile'
    BY <1>16, <1>t, <2>1 DEF EditInMenu, NextStop, LoadHasFile, HandoverHasFile, menu, mplayer
  <2> QED
    BY <2>1, <2>5, <2>6 DEF PlayerInv
<1>17. CASE NextWait
  <2>1. MusicInv' /\ step' = step
    BY <1>17, <1>t, MusicStays DEF NextWait
  <2>2. UNCHANGED queue
    BY <1>17 DEF NextWait
  <2>3. QueueTypes'
    BY <1>t, <2>2 DEF QueueTypes, queue
  <2>4. forceNextFile' \in BOOLEAN
    BY <1>17, <1>t, Zenon DEF NextWait
  <2>5. TypeOK'
    BY <1>17, <1>t, <1>q, <2>1, <2>3, <2>4 DEF TypeOK, NextWait, MPlayerStates, MenuStates, queue,
       menu, mplayer
  <2>6. EditInMenu' /\ LoadHasFile' /\ HandoverHasFile'
    BY <1>17, <1>t, <2>1 DEF EditInMenu, NextWait, LoadHasFile, HandoverHasFile, menu, mplayer
  <2> QED
    BY <2>1, <2>5, <2>6 DEF PlayerInv
<1>18. CASE NextFind
  <2>1. PICK found \in BOOLEAN : FindNextFile(TRUE, found)
    BY <1>18 DEF NextFind
  <2>2. /\ MusicInv' /\ step' = step /\ QueueTypes' /\ loadedFile' \in Songs \cup {None}
        /\ forceNextFile' \in BOOLEAN
        /\ loadedFile # None => loadedFile' # None
    BY <1>t, <2>1, FindTypes
  <2>3. TypeOK'
    BY <1>18, <1>t, <1>q, <2>2 DEF TypeOK, NextFind, MenuStates, mplayer
  <2>4. EditInMenu' /\ LoadHasFile' /\ HandoverHasFile'
    BY <1>18, <1>t, <2>2 DEF EditInMenu, NextFind, LoadHasFile, HandoverHasFile, mplayer
  <2> QED
    BY <2>2, <2>3, <2>4 DEF PlayerInv
<1>19. CASE NextLoad
  <2>1. MusicInv' /\ step' = step
    BY <1>19, <1>t, MusicStays DEF NextLoad
  <2>2. UNCHANGED queue
    BY <1>19 DEF NextLoad
  <2>3. QueueTypes'
    BY <1>t, <2>2 DEF QueueTypes, queue
  <2>4. forceNextFile' \in BOOLEAN
    BY <1>19, <1>t, Zenon DEF NextLoad
  <2>5. TypeOK'
    BY <1>19, <1>t, <1>q, <2>1, <2>3, <2>4 DEF TypeOK, NextLoad, MPlayerStates, MenuStates, queue,
       menu, mplayer
  <2>6. EditInMenu' /\ LoadHasFile' /\ HandoverHasFile'
    BY <1>19, <1>t, <2>1 DEF EditInMenu, NextLoad, LoadHasFile, HandoverHasFile, menu, mplayer
  <2> QED
    BY <2>1, <2>5, <2>6 DEF PlayerInv
<1>20. CASE LoadReady
  <2>1. MusicInv' /\ step' = step
    <3>1. /\ UNCHANGED <<playlist, numEntries, shuffleList, shuffleIndex, edit, torn, crashed>>
          /\ selIndex' \in {selIndex, None} \cup Songs
      BY <1>20 DEF LoadReady
    <3> QED
      BY <1>t, <3>1, SelectionStays
  <2>2. QueueTypes' /\ forceNextFile' \in BOOLEAN
    BY <1>20, <1>t DEF LoadReady, QueueTypes, queue
  <2>3. TypeOK'
    BY <1>20, <1>t, <1>q, <2>1, <2>2 DEF TypeOK, LoadReady, MenuStates, mplayer
  <2>4. EditInMenu' /\ LoadHasFile' /\ HandoverHasFile'
    BY <1>20, <1>t, <2>1 DEF EditInMenu, LoadReady, LoadHasFile, HandoverHasFile, mplayer
  <2> QED
    BY <2>1, <2>3, <2>4 DEF PlayerInv
<1>21. CASE LoadRefused
  <2>1. MusicInv' /\ step' = step
    BY <1>21, <1>t, MusicStays DEF LoadRefused
  <2>2. UNCHANGED queue
    BY <1>21 DEF LoadRefused
  <2>3. QueueTypes'
    BY <1>t, <2>2 DEF QueueTypes, queue
  <2>4. forceNextFile' \in BOOLEAN
    BY <1>21, <1>t, Zenon DEF LoadRefused
  <2>5. TypeOK'
    BY <1>21, <1>t, <1>q, <2>1, <2>3, <2>4 DEF TypeOK, LoadRefused, MPlayerStates, MenuStates,
       queue, menu, mplayer
  <2>6. EditInMenu' /\ LoadHasFile' /\ HandoverHasFile'
    BY <1>21, <1>t, <2>1 DEF EditInMenu, LoadRefused, LoadHasFile, HandoverHasFile, menu, mplayer
  <2> QED
    BY <2>1, <2>5, <2>6 DEF PlayerInv
<1>22. ASSUME NEW dir \in Folders, NEW song \in Songs, Select(dir, song) PROVE PlayerInv'
  <2>1. MusicInv' /\ step' = step
    <3>1. /\ UNCHANGED <<playlist, numEntries, shuffleList, shuffleIndex, edit, torn, crashed>>
          /\ selIndex' \in {selIndex, None} \cup Songs
      BY <1>22 DEF Select, MusicPlaylistFindIndex
    <3> QED
      BY <1>t, <3>1, SelectionStays
  <2>2. QueueTypes' /\ forceNextFile' \in BOOLEAN
    BY <1>22, <1>t DEF Select, QueueTypes, queue
  <2>3. TypeOK'
    BY <1>22, <1>t, <1>q, <2>1, <2>2 DEF TypeOK, Select, MenuStates, mplayer
  <2>4. EditInMenu' /\ LoadHasFile' /\ HandoverHasFile'
    BY <1>22, <1>t, <2>1 DEF EditInMenu, Select, LoadHasFile, HandoverHasFile, mplayer
  <2> QED
    BY <2>1, <2>3, <2>4 DEF PlayerInv
<1>24. CASE NextRequest
  <2>1. MusicInv' /\ step' = step
    BY <1>24, <1>t, MusicStays DEF NextRequest
  <2>2. UNCHANGED queue
    BY <1>24 DEF NextRequest
  <2>3. QueueTypes'
    BY <1>t, <2>2 DEF QueueTypes, queue
  <2>4. forceNextFile' \in BOOLEAN
    BY <1>24, <1>t, Zenon DEF NextRequest
  <2>5. TypeOK'
    BY <1>24, <1>t, <1>q, <2>1, <2>3, <2>4 DEF TypeOK, NextRequest, MPlayerStates, MenuStates,
       queue, menu, mplayer
  <2>6. EditInMenu' /\ LoadHasFile' /\ HandoverHasFile'
    BY <1>24, <1>t, <2>1 DEF EditInMenu, NextRequest, LoadHasFile, HandoverHasFile, menu, mplayer
  <2> QED
    BY <2>1, <2>5, <2>6 DEF PlayerInv
<1>25. CASE StartPlaylist
  <2>1. PICK found \in BOOLEAN : FindNextFile(FALSE, found)
    BY <1>25 DEF StartPlaylist
  <2>2. /\ MusicInv' /\ step' = step /\ QueueTypes' /\ loadedFile' \in Songs \cup {None}
        /\ forceNextFile' \in BOOLEAN
        /\ loadedFile # None => loadedFile' # None
    BY <1>t, <2>1, FindTypes
  <2>3. TypeOK'
    BY <1>25, <1>t, <1>q, <2>2 DEF TypeOK, StartPlaylist, MenuStates, mplayer
  <2>4. EditInMenu' /\ LoadHasFile' /\ HandoverHasFile'
    BY <1>25, <1>t, <2>2 DEF EditInMenu, StartPlaylist, LoadHasFile, HandoverHasFile, mplayer
  <2> QED
    BY <2>2, <2>3, <2>4 DEF PlayerInv
<1>23. CASE ~crashed /\ EditPlaylist
  <2>1. MusicInv'
    BY <1>23, <1>t, EnqueueMusic, RemoveMusic DEF EditPlaylist, EditBegins
  <2>2. QueueTypes' /\ forceNextFile' \in BOOLEAN
    BY <1>23, <1>t DEF EditPlaylist, QueueTypes, queue
  <2>3. TypeOK'
    BY <1>23, <1>t, <1>q, <2>1, <2>2 DEF TypeOK, EditPlaylist, MenuStates, mplayer
  <2>4. step' # "none" /\ gpc' = "edit"
    BY <1>23 DEF EditPlaylist, EditBegins, AddEntry, Unlink, ResetFrees
  <2>5. EditInMenu' /\ LoadHasFile' /\ HandoverHasFile'
    BY <1>t, <2>4 DEF EditInMenu, LoadHasFile, HandoverHasFile
  <2> QED
    BY <2>1, <2>3, <2>5 DEF PlayerInv
<1>26. CASE ~crashed /\ EditStep
  <2>1. MusicInv'
    BY <1>26, <1>t, EnqueueMusic, FailureMusic, RemoveMusic DEF EditStep, EditContinues
  <2>2. QueueTypes' /\ forceNextFile' \in BOOLEAN
    BY <1>26, <1>t DEF EditStep, QueueTypes, queue
  <2>3. TypeOK'
    BY <1>26, <1>t, <1>q, <2>1, <2>2 DEF TypeOK, EditStep, MenuStates, mplayer
  <2>4. EditInMenu' /\ LoadHasFile' /\ HandoverHasFile'
    BY <1>26 DEF EditStep, EditInMenu, LoadHasFile, HandoverHasFile
  <2> QED
    BY <2>1, <2>3, <2>4 DEF PlayerInv
<1>29. CASE EditGoesOn
  <2>1. MusicInv' /\ step' = "count"
    BY <1>29, <1>t, EnqueueMusic DEF EditGoesOn, AddEntry
  <2>2. QueueTypes' /\ forceNextFile' \in BOOLEAN
    BY <1>29, <1>t DEF EditGoesOn, QueueTypes, queue
  <2>3. TypeOK'
    BY <1>29, <1>t, <1>q, <2>1, <2>2 DEF TypeOK, EditGoesOn, menu, mplayer
  <2>4. EditInMenu' /\ LoadHasFile' /\ HandoverHasFile'
    BY <1>29, <1>t, <2>1 DEF EditGoesOn, EditInMenu, LoadHasFile, HandoverHasFile, menu
  <2> QED
    BY <2>1, <2>3, <2>4 DEF PlayerInv
<1>27. CASE SetOrder
  <2>1. MusicInv' /\ step' = step
    BY <1>27, <1>t, MusicStays DEF SetOrder
  <2>2. UNCHANGED queue
    BY <1>27 DEF SetOrder
  <2>3. QueueTypes'
    BY <1>t, <2>2 DEF QueueTypes, queue
  <2>4. forceNextFile' \in BOOLEAN
    BY <1>27, <1>t, Zenon DEF SetOrder
  <2>5. TypeOK'
    BY <1>27, <1>t, <1>q, <2>1, <2>3, <2>4 DEF TypeOK, SetOrder, MPlayerStates, MenuStates, queue,
       menu, mplayer
  <2>6. EditInMenu' /\ LoadHasFile' /\ HandoverHasFile'
    BY <1>27, <1>t, <2>1 DEF EditInMenu, SetOrder, LoadHasFile, HandoverHasFile, menu, mplayer
  <2> QED
    BY <2>1, <2>5, <2>6 DEF PlayerInv
<1>28. CASE UNCHANGED vars
  <2>1. MusicInv' /\ step' = step
    BY <1>28, <1>t, MusicStays DEF vars
  <2> QED
    BY <1>28, <1>t, <2>1 DEF vars, queue, mplayer, menu, PlayerInv, MusicInv, TypeOK, EditInMenu,
       LoadHasFile, HandoverHasFile
<1>30. CASE ~crashed /\ MPlayerStep
  BY <1>30, <1>1, <1>2, <1>3, <1>4, <1>5 DEF MPlayerStep
<1>31. CASE ~crashed /\ MenuStep
  BY <1>31, <1>7, <1>8, <1>9, <1>10, <1>11, <1>12, <1>13, <1>14, <1>15, <1>16, <1>17, <1>18,
     <1>19, <1>26
     DEF MenuStep
<1>32. CASE ~crashed /\ UserStep
  BY <1>32, <1>20, <1>21, <1>22, <1>23, <1>24, <1>25, <1>27, <1>29 DEF UserStep
<1> QED
  BY <1>28, <1>30, <1>31, <1>32 DEF Next, Halt

\* The handshake, the folder queue and the playlist keep their invariant.
THEOREM PlayerInvariance == Spec => []PlayerInv
  BY PlayerInit, PlayerNext, PTL DEF Spec

\* The queue position stays inside the queue, and entries without a path or
\* freed are linked only inside an edit, for any folders, edits and play orders.
THEOREM PlayerTypes == Spec => []TypeOK
  BY PlayerInvariance, PTL DEF PlayerInv

\* LoadMPlayerFile() waits for MPlayer only while there is a file to take.
THEOREM Handover == Spec => []HandoverHasFile
  BY PlayerInvariance, PTL DEF PlayerInv

\* A playlist that was edited only in whole steps has a shuffled pass that
\* MusicPlaylistGetNextShuffle() can follow, and no walk of it crashes.
THEOREM ShuffleInside == Spec => []ShuffleFits
<1>1. PlayerInv => ShuffleFits
  <2> SUFFICES ASSUME PlayerInv, ~torn PROVE ~crashed /\ (step = "none" => PassFits)
    BY DEF ShuffleFits
  <2>1. Whole /\ ~crashed
    BY Zenon DEF PlayerInv, MusicInv, Whole
  <2>2. ASSUME step = "none", 0 <= shuffleIndex, shuffleIndex < numEntries
        PROVE  shuffleIndex < Len(shuffleList) /\ shuffleList[shuffleIndex + 1] < Len(playlist)
    <3>1. numEntries = Len(playlist) /\ Len(playlist) \in Nat /\ shuffleIndex \in Int
      BY <2>1, <2>2 DEF PlayerInv, MusicInv, MusicTypeOK, Whole, Ahead
    <3>2. playlist # <<>>
      BY <2>2, <3>1
    <3>3. shuffleIndex \in 1 .. Len(playlist) /\ shuffleList \in Shuffles(Len(playlist))
      BY <2>1, <2>2, <3>1, <3>2 DEF Whole, PassInv
    <3>4. /\ Len(shuffleList) = Len(playlist)
          /\ \A i \in 1 .. Len(playlist) : shuffleList[i] \in 0 .. Len(playlist) - 1
      BY <3>1, <3>3, ShuffleSeq
    <3>5. shuffleIndex + 1 \in 1 .. Len(playlist)
      BY <2>2, <3>1
    <3> QED
      BY <2>2, <3>1, <3>4, <3>5
  <2> QED
    BY <2>1, <2>2 DEF PassFits
<1> QED
  BY <1>1, PlayerInvariance, PTL
=============================================================================
