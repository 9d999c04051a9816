------------------------------- MODULE Resolver -------------------------------
(***************************************************************************)
(* From a host name to a connected socket: the resolver and its cache      *)
(* (source/utils/dns.c) and gc_net_connect_socket (net_transport.c).       *)
(* Every thread that opens a connection runs these steps; module           *)
(* DavDirectory says which do, and why.                                    *)
(*                                                                         *)
(* dns_resolve() holds dns_mutex from the look into the cache to the       *)
(* answer, three tries of two seconds.  An address stands for the server   *)
(* that gave it, and remembers whether it was asked for before the last    *)
(* flush.  A host that is an address already needs none of this.           *)
(***************************************************************************)
EXTENDS Integers, Sequences, FiniteSets

CONSTANTS
  Threads,     \* the threads that open connections
  Hosts,       \* the names they connect to
  Servers,     \* the gateways a lease may name as resolver
  CACHE_N,     \* entries of the cache
  DNS_TRIES

ASSUME ResolverAssumption ==
  CACHE_N \in Nat \ {0} /\ DNS_TRIES \in Nat \ {0} /\ "none" \notin Servers \cup Threads

Nobody == "none"

VARIABLES
  dns_server,  \* "none" for 0
  cache,       \* the entries below cache_n
  dns_mutex,   \* its holder
  pc,          \* where each thread is
  host,        \* the name it connects to
  asked,       \* the server dns_query was called with
  tries,       \* the tries it has used up
  overtaken    \* the queries sent before the last flush (an observer)

query    == <<asked, tries>>
resolver == <<dns_server, cache, dns_mutex, host, query, overtaken>>

ResolverInit ==
  /\ dns_server = "none" /\ cache = <<>> /\ dns_mutex = Nobody
  /\ host = [t \in Threads |-> "none"] /\ asked = [t \in Threads |-> "none"]
  /\ tries = [t \in Threads |-> 0] /\ overtaken = {}

Querying == {t \in Threads : pc[t] = "query"}

Goto(t, label) == pc' = [pc EXCEPT ![t] = label]

-----------------------------------------------------------------------------
(* dns_resolve                                                             *)

\* cache_get
Cached(name) == \E i \in 1 .. Len(cache) : cache[i].name = name

\* mutant: the cache is not looked into again under the mutex.
DnsResolveAsks(t) ==
  /\ pc[t] = "resolve" /\ dns_mutex = Nobody /\ dns_server # "none"
  /\ dns_mutex' = t
  /\ Goto(t, "query")
  /\ asked' = [asked EXCEPT ![t] = dns_server]
  /\ UNCHANGED <<dns_server, cache, host, tries, overtaken>>

\* A name the cache does not have is asked for,
DnsResolve(t) ==
  /\ pc[t] = "resolve" /\ dns_mutex = Nobody
  /\ ~Cached(host[t]) /\ dns_server # "none"
  /\ dns_mutex' = t
  /\ Goto(t, "query")
  /\ asked' = [asked EXCEPT ![t] = dns_server]
  /\ UNCHANGED <<dns_server, cache, host, tries, overtaken>>

\* one it has is not, and without a server nobody can be.
DnsResolveLocal(t) ==
  /\ pc[t] = "resolve" /\ dns_mutex = Nobody
  /\ \/ Cached(host[t]) /\ Goto(t, "connect")
     \/ ~Cached(host[t]) /\ dns_server = "none" /\ Goto(t, "failed")
  /\ UNCHANGED resolver

\* The query is over: its locals are gone.
QueryEnds(t) ==
  /\ dns_mutex' = Nobody
  /\ asked' = [asked EXCEPT ![t] = "none"] /\ tries' = [tries EXCEPT ![t] = 0]
  /\ overtaken' = overtaken \ {t}

\* mutant: the table has no end.
CachePutPast(entry) == Append(cache, entry)

\* cache_put: "table full: overwrite the oldest", which is slot 0 every time.
\* Hosts are names it can hold, of less than 128 characters.
CachePut(entry) ==
  IF Len(cache) < CACHE_N THEN Append(cache, entry) ELSE [cache EXCEPT ![1] = entry]

\* dns_query: a usable answer arrives,
DnsAnswer(t) ==
  /\ pc[t] = "query"
  /\ cache' = CachePut([name |-> host[t], from |-> asked[t], old |-> t \in overtaken])
  /\ QueryEnds(t)
  /\ Goto(t, "connect")
  /\ UNCHANGED <<dns_server, host>>

\* mutant: the tries start over.
DnsTryAgain(t) ==
  /\ pc[t] = "query"
  /\ tries' = [tries EXCEPT ![t] = (@ + 1) % DNS_TRIES]
  /\ UNCHANGED <<pc, dns_mutex, dns_server, cache, host, asked, overtaken>>

\* or a try fails: not sent, no answer in time, an unusable one.
DnsTryFails(t) ==
  /\ pc[t] = "query"
  /\ IF tries[t] + 1 < DNS_TRIES
       THEN tries' = [tries EXCEPT ![t] = @ + 1] /\ UNCHANGED <<pc, dns_mutex, asked, overtaken>>
       ELSE Goto(t, "failed") /\ QueryEnds(t)
  /\ UNCHANGED <<dns_server, cache, host>>

\* The name cannot be asked for, or there is no socket to ask with.
DnsNoSocket(t) ==
  /\ pc[t] = "query"
  /\ tries[t] = 0
  /\ Goto(t, "failed") /\ QueryEnds(t)
  /\ UNCHANGED <<dns_server, cache, host>>

\* mutant: the cache is flushed without its mutex.
DnsCacheFlushAnyway(t) ==
  /\ pc[t] = "flush"
  /\ cache' = <<>> /\ overtaken' = Querying
  /\ Goto(t, "failed")
  /\ UNCHANGED <<dns_server, dns_mutex, host, query>>

\* dns_cache_flush, after a failed connection
DnsCacheFlush(t) ==
  /\ pc[t] = "flush" /\ dns_mutex = Nobody
  /\ cache' = <<>> /\ overtaken' = Querying
  /\ Goto(t, "failed")
  /\ UNCHANGED <<dns_server, dns_mutex, host, query>>

\* dns_set_server: the network worker has a new lease.
DnsSetServer(server) ==
  /\ dns_mutex = Nobody
  /\ dns_server' = server
  /\ cache' = <<>> /\ overtaken' = Querying
  /\ UNCHANGED <<dns_mutex, pc, host, query>>

-----------------------------------------------------------------------------
(* gc_net_connect_socket                                                   *)

Connected(t) ==
  /\ pc[t] = "connect"
  /\ Goto(t, "online")
  /\ UNCHANGED resolver

\* Cancelled before the socket is made, or no socket.
ConnectNotTried(t) ==
  /\ pc[t] = "connect"
  /\ Goto(t, "failed")
  /\ UNCHANGED resolver

\* Refused, cancelled, or not answered in eight seconds.
ConnectFails(t) ==
  /\ pc[t] = "connect"
  /\ Goto(t, "flush")
  /\ UNCHANGED resolver

-----------------------------------------------------------------------------
(* Properties.                                                             *)

Entries == [name : Hosts, from : Servers, old : BOOLEAN]

ResolverTypeOK ==
  /\ dns_server \in Servers \cup {"none"}
  /\ cache \in Seq(Entries) /\ Len(cache) <= CACHE_N
  /\ dns_mutex \in Threads \cup {Nobody}
  /\ host \in [Threads -> Hosts \cup {"none"}] /\ asked \in [Threads -> Servers \cup {"none"}]
  /\ tries \in [Threads -> 0 .. DNS_TRIES - 1] /\ overtaken \subseteq Threads

\* An address in the cache was given by the server of the current lease, and
\* asked for after the last failed connection: dns_cache_flush() and
\* dns_set_server() are not outrun by a query that is under way.
FreshAddresses ==
  \A i \in 1 .. Len(cache) : cache[i].from = dns_server /\ ~cache[i].old

\* Two threads that miss the same name do not both add it: cache_get would
\* serve the older address and cache_put lose another host's place.
OneAddressPerHost ==
  \A i, j \in 1 .. Len(cache) : cache[i].name = cache[j].name => i = j

-----------------------------------------------------------------------------
(* The inductive invariant.                                                *)

\* A query is made by the holder of dns_mutex, of the server of the lease, for
\* a name the cache does not have; and no flush has overtaken one.
QueryInv ==
  /\ overtaken = {}
  /\ \A t \in Threads :
       /\ pc[t] = "query" <=> dns_mutex = t
       /\ pc[t] \in {"resolve", "query"} => host[t] \in Hosts
       /\ pc[t] = "query" => asked[t] = dns_server /\ dns_server # "none" /\ ~Cached(host[t])

ResolverInv == ResolverTypeOK /\ QueryInv /\ FreshAddresses /\ OneAddressPerHost
=============================================================================
