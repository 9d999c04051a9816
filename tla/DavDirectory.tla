---------------------------- MODULE DavDirectory ----------------------------
(***************************************************************************)
(* dav_diropen() on several threads: the directory cache and its lock      *)
(* (source/utils/webdav_device.c), a PROPFIND over module Resolver's       *)
(* connection, and the other users of the connection.                      *)
(*                                                                         *)
(* A cache entry stands for the address it is allocated at.  Stamps are    *)
(* only compared, and no two are equal: recent is the entries in the order *)
(* of their stamps.  What a body holds is left out: that it is the whole   *)
(* listing is for the framing of HTTP and the XML parser to see.  Left out *)
(* too is the wait before each of its reads while a track fills its cache  *)
(* (wait_for_audio_priority): module CacheWorker has that gate.            *)
(***************************************************************************)
EXTENDS Resolver

CONSTANTS
  Openers,     \* the threads that open files and stations, besides listing
  Items,       \* addresses malloc may return for an entry
  Paths,       \* directories on the server
  Root,        \* "/"
  Size,        \* bytes of each directory's entry
  Limit,       \* DAV_DIRECTORY_CACHE_LIMIT
  DavHost      \* the host of webdav.conf

ASSUME DirectoryAssumption ==
  /\ Openers \subseteq Threads /\ DavHost \in Hosts
  /\ Root \in Paths /\ Size \in [Paths -> Nat] /\ Limit \in Nat
  /\ "none" \notin Items \cup Paths

VARIABLES
  directory,   \* directory_cache, head first
  recent,      \* the same entries, least recently used first
  item,        \* path of each entry
  bytes,       \* directory_cache_bytes
  dav_lock,    \* its holder
  path,        \* the directory a thread lists, "none" when it opens a file
  copying      \* the entry its cache_copy found

dircache == <<directory, recent, item, bytes>>
listing  == <<path, copying>>
vars     == <<resolver, pc, dircache, dav_lock, listing>>

Blank == Root   \* what is not allocated

Init ==
  /\ ResolverInit
  /\ pc = [t \in Threads |-> "idle"]
  /\ directory = <<>> /\ recent = <<>> /\ bytes = 0 /\ dav_lock = Nobody
  /\ item = [i \in Items |-> Blank]
  /\ path = [t \in Threads |-> "none"] /\ copying = [t \in Threads |-> "none"]

Elements(seq) == {seq[i] : i \in 1 .. Len(seq)}
Without(seq, i) == SubSeq(seq, 1, i - 1) \o SubSeq(seq, i + 1, Len(seq))

\* The call is over: its locals are gone.
Return(t) ==
  /\ Goto(t, "idle")
  /\ path' = [path EXCEPT ![t] = "none"] /\ copying' = [copying EXCEPT ![t] = "none"]
  /\ host' = [host EXCEPT ![t] = "none"]
  /\ UNCHANGED <<dns_server, cache, dns_mutex, query, overtaken>>

-----------------------------------------------------------------------------
(* The callers.                                                            *)

DirOpen(t) ==
  /\ pc[t] = "idle"
  /\ \E p \in Paths : path' = [path EXCEPT ![t] = p]
  /\ Goto(t, "copy")
  /\ UNCHANGED <<resolver, dircache, dav_lock, copying>>

\* A WebDAV file or a radio station is opened.
OpenFile(t) ==
  /\ pc[t] = "idle" /\ t \in Openers
  /\ \E h \in Hosts : host' = [host EXCEPT ![t] = h]
  /\ Goto(t, "resolve")
  /\ UNCHANGED <<dns_server, cache, dns_mutex, query, overtaken, dircache, dav_lock, listing>>

FileOpened(t) ==
  /\ pc[t] = "online" /\ path[t] = "none"
  /\ Return(t)
  /\ UNCHANGED <<dircache, dav_lock>>

\* failure(): nothing is stored.
Failure(t) ==
  /\ pc[t] = "failed"
  /\ Return(t)
  /\ UNCHANGED <<dircache, dav_lock>>

-----------------------------------------------------------------------------
(* cache_copy                                                              *)

\* The first entry of the list for a path.
Found(p) == {directory[i] : i \in {j \in 1 .. Len(directory) :
               /\ item[directory[j]] = p
               /\ \A k \in 1 .. j - 1 : item[directory[k]] # p}}

CacheMiss(t) ==
  /\ pc[t] = "copy" /\ dav_lock = Nobody
  /\ Found(path[t]) = {}
  /\ host' = [host EXCEPT ![t] = DavHost]
  /\ Goto(t, "resolve")
  /\ UNCHANGED <<dns_server, cache, dns_mutex, query, overtaken, dircache, dav_lock, listing>>

\* mutant: the copy is made without the lock.
CacheHitUnlocked(t) ==
  /\ pc[t] = "copy" /\ dav_lock = Nobody
  /\ \E i \in Found(path[t]) : copying' = [copying EXCEPT ![t] = i]
  /\ Goto(t, "memcpy")
  /\ UNCHANGED <<resolver, dircache, dav_lock, path>>

CacheHit(t) ==
  /\ pc[t] = "copy" /\ dav_lock = Nobody
  /\ \E i \in Found(path[t]) : copying' = [copying EXCEPT ![t] = i]
  /\ dav_lock' = t
  /\ Goto(t, "memcpy")
  /\ UNCHANGED <<resolver, dircache, path>>

\* The entries are copied and the entry stamped.
CacheCopied(t) ==
  /\ pc[t] = "memcpy"
  /\ \E i \in {j \in 1 .. Len(recent) : recent[j] = copying[t]} :
       recent' = Append(Without(recent, i), copying[t])
  /\ dav_lock' = Nobody
  /\ Return(t)
  /\ UNCHANGED <<directory, item, bytes>>

\* No memory for the copy.
CopyFails(t) ==
  /\ pc[t] = "memcpy"
  /\ dav_lock' = Nobody
  /\ Goto(t, "failed")
  /\ UNCHANGED <<resolver, dircache, listing>>

-----------------------------------------------------------------------------
(* gc_dav_list_wait and cache_store                                        *)

\* A read returns 0: the end of the body, and also a cut of one that the server
\* sends without its length and not in chunks.
BodyEnds(t) ==
  /\ pc[t] = "online" /\ path[t] # "none"
  /\ Goto(t, "parse")
  /\ UNCHANGED <<resolver, dircache, dav_lock, listing>>

\* Refused, cut short of its length, cancelled by a track change, or too long;
\* then not XML, not the XML asked for, or too many entries.
ReadFails(t) ==
  /\ pc[t] \in {"online", "parse"} /\ path[t] # "none"
  /\ Goto(t, "failed")
  /\ UNCHANGED <<resolver, dircache, dav_lock, listing>>

ListRead(t) ==
  /\ pc[t] = "parse"
  /\ Goto(t, "store")
  /\ UNCHANGED <<resolver, dircache, dav_lock, listing>>

\* Larger than the whole cache: not stored.
StoreSkipped(t) ==
  /\ pc[t] = "store" /\ Size[path[t]] > Limit
  /\ Return(t)
  /\ UNCHANGED <<dircache, dav_lock>>

StoreLocks(t) ==
  /\ pc[t] = "store" /\ Size[path[t]] <= Limit /\ dav_lock = Nobody
  /\ dav_lock' = t
  /\ Goto(t, "evict")
  /\ UNCHANGED <<resolver, dircache, listing>>

\* mutant: the root is evicted like the others.
VictimsAll == {recent[i] : i \in {j \in 1 .. Len(recent) : j = 1}}

\* The least recently used entry, but never the root.
Victims == {recent[i] : i \in {j \in 1 .. Len(recent) :
              /\ item[recent[j]] # Root
              /\ \A k \in 1 .. j - 1 : item[recent[k]] = Root}}

\* mutant: the counter keeps the victim's bytes.
EvictUncounted(t) ==
  /\ pc[t] = "evict" /\ bytes + Size[path[t]] > Limit
  /\ \E victim \in Victims :
       /\ \E i \in {j \in 1 .. Len(directory) : directory[j] = victim} :
            directory' = Without(directory, i)
       /\ \E i \in {j \in 1 .. Len(recent) : recent[j] = victim} : recent' = Without(recent, i)
       /\ item' = [item EXCEPT ![victim] = Blank]
  /\ UNCHANGED <<resolver, pc, bytes, dav_lock, listing>>

\* cache_remove
Evict(t) ==
  /\ pc[t] = "evict" /\ bytes + Size[path[t]] > Limit
  /\ \E victim \in Victims :
       /\ \E i \in {j \in 1 .. Len(directory) : directory[j] = victim} :
            directory' = Without(directory, i)
       /\ \E i \in {j \in 1 .. Len(recent) : recent[j] = victim} : recent' = Without(recent, i)
       /\ bytes' = bytes - Size[item[victim]]
       /\ item' = [item EXCEPT ![victim] = Blank]
  /\ UNCHANGED <<resolver, pc, dav_lock, listing>>

\* Only the root is left, or there is no memory: given up.
StoreGivesUp(t) ==
  /\ pc[t] = "evict"
  /\ bytes + Size[path[t]] > Limit => Victims = {}
  /\ dav_lock' = Nobody
  /\ Return(t)
  /\ UNCHANGED dircache

\* calloc
Free == Items \ Elements(directory)
Allocated == CHOOSE new \in Free : TRUE

\* mutant: a new entry goes to the end of the list.
StoreAtTail(t) ==
  /\ pc[t] = "evict" /\ bytes + Size[path[t]] <= Limit
  /\ Free # {}
  /\ item' = [item EXCEPT ![Allocated] = path[t]]
  /\ directory' = Append(directory, Allocated) /\ recent' = Append(recent, Allocated)
  /\ bytes' = bytes + Size[path[t]]
  /\ dav_lock' = Nobody
  /\ Return(t)

Store(t) ==
  /\ pc[t] = "evict" /\ bytes + Size[path[t]] <= Limit
  /\ Free # {}
  /\ item' = [item EXCEPT ![Allocated] = path[t]]
  /\ directory' = <<Allocated>> \o directory /\ recent' = Append(recent, Allocated)
  /\ bytes' = bytes + Size[path[t]]
  /\ dav_lock' = Nobody
  /\ Return(t)

-----------------------------------------------------------------------------

Resolving(t) ==
  /\ \/ DnsResolve(t) \/ DnsResolveLocal(t) \/ DnsAnswer(t) \/ DnsTryFails(t) \/ DnsNoSocket(t)
     \/ DnsCacheFlush(t) \/ Connected(t) \/ ConnectNotTried(t) \/ ConnectFails(t)
  /\ UNCHANGED <<dircache, dav_lock, listing>>

Listing(t) ==
  \/ CacheMiss(t) \/ CacheHit(t) \/ CacheCopied(t) \/ CopyFails(t)
  \/ BodyEnds(t) \/ ReadFails(t) \/ ListRead(t)
  \/ StoreSkipped(t) \/ StoreLocks(t) \/ Evict(t) \/ StoreGivesUp(t) \/ Store(t)
  \/ FileOpened(t) \/ Failure(t)

NewLease ==
  /\ \E server \in Servers \cup {"none"} : DnsSetServer(server)
  /\ UNCHANGED <<dircache, dav_lock, listing>>

Next ==
  \/ NewLease
  \/ \E t \in Threads : DirOpen(t) \/ OpenFile(t) \/ Resolving(t) \/ Listing(t)

Spec == Init /\ [][Next]_vars

\* A thread inside a call goes on; LWP_MutexLock serves its queue, so that one
\* that waits for a mutex gets it in its turn.
FairSpec == Spec /\ \A t \in Threads : SF_vars(Resolving(t) \/ Listing(t))

-----------------------------------------------------------------------------
(* Properties.                                                             *)

Labels == {"idle", "copy", "memcpy", "resolve", "query", "connect", "flush", "failed", "online",
           "parse", "store", "evict"}

DirectoryTypeOK ==
  /\ directory \in Seq(Items) /\ recent \in Seq(Items) /\ bytes \in Int
  /\ item \in [Items -> Paths] /\ dav_lock \in Threads \cup {Nobody}
  /\ path \in [Threads -> Paths \cup {"none"}]
  /\ copying \in [Threads -> Items \cup {"none"}]

\* Types of the caches, the locks and the threads' variables.
TypeOK == ResolverTypeOK /\ pc \in [Threads -> Labels] /\ DirectoryTypeOK

\* "One lock covers all of it" (webdav_device.c): the entry cache_copy copies
\* from is still in the list, and no other thread is in the cache.
CopyIsLive ==
  \A t \in Threads : pc[t] = "memcpy" =>
    /\ copying[t] \in Elements(directory) /\ item[copying[t]] = path[t]
    /\ \A u \in Threads \ {t} : pc[u] \notin {"memcpy", "evict"}

\* The running totals of what the entries of the list take, head first.
Totals(total) ==
  /\ total[0] = 0
  /\ \A k \in 1 .. Len(directory) : total[k] = total[k - 1] + Size[item[directory[k]]]

\* The byte counter that decides about eviction is what the entries take, and
\* within the limit.
BytesCounted ==
  \E total \in [0 .. Len(directory) -> 0 .. Limit] :
    Totals(total) /\ bytes = total[Len(directory)]

\* Two threads that miss a directory both store it.  The entry cache_copy
\* finds is the more recently used one, so that the other is evicted first
\* and a directory never falls back to its older listing.
NewestServed ==
  \A i, j \in 1 .. Len(directory) :
    i < j /\ item[directory[i]] = item[directory[j]] =>
      \E k, l \in 1 .. Len(recent) : recent[k] = directory[i] /\ recent[l] = directory[j] /\ k > l

\* "keep it for the whole run" (cache_store): the root stays once it is cached.
RootStays ==
  [][Found(Root) # {} => Found(Root)' # {}]_vars

\* Who has one of the two mutexes waits for neither: cache_store keeps dav_lock
\* and dns_query keeps dns_mutex over their work, and neither calls the other.
HoldersGoOn ==
  \A t \in Threads : t \in {dav_lock, dns_mutex} =>
    dav_lock # dns_mutex /\ pc[t] \notin {"copy", "store", "resolve", "flush"}

\* dav_diropen comes back to its caller: whatever the servers answer or do not,
\* and whoever has the mutexes.
DirOpenReturns == \A t \in Threads : pc[t] = "copy" ~> pc[t] = "idle"

-----------------------------------------------------------------------------
(* The inductive invariant.                                                *)

Distinct(seq) == \A i, j \in 1 .. Len(seq) : seq[i] = seq[j] => i = j

\* The list and the order of use are of the same entries, each there once.
SameEntries ==
  Distinct(directory) /\ Distinct(recent) /\ Elements(directory) = Elements(recent)

\* What a thread knows where it is.
Knows(t) ==
  /\ pc[t] \in {"memcpy", "evict"} <=> dav_lock = t
  /\ pc[t] \in {"copy", "memcpy", "parse", "store", "evict"} => path[t] \in Paths
  /\ pc[t] = "memcpy" => copying[t] \in Found(path[t])

ListingInv == \A t \in Threads : Knows(t)

DirectoryInv == DirectoryTypeOK /\ ListingInv /\ SameEntries /\ NewestServed
=============================================================================
