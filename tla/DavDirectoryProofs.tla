------------------------- MODULE DavDirectoryProofs -------------------------
(***************************************************************************)
(* Proofs for Resolver and DavDirectory, for any number of threads, hosts, *)
(* directories and cache sizes.  The resolver's steps keep ResolverInv and *)
(* do not touch the directory cache; the listing's steps keep DirectoryInv *)
(* and do not touch the resolver beyond the host of the call.              *)
(***************************************************************************)
EXTENDS DavDirectory, TLAPS, SequenceTheorems, WellFoundedInduction

\* The labels of the threads, with what the assumptions say of the constants.
LEMMA Constants ==
  /\ CACHE_N \in Nat /\ CACHE_N # 0 /\ DNS_TRIES \in Nat /\ DNS_TRIES # 0
  /\ Nobody \notin Threads /\ Nobody \notin Servers /\ DavHost \in Hosts
BY ResolverAssumption, DirectoryAssumption DEF Nobody

-----------------------------------------------------------------------------
(* The resolver.                                                           *)

\* The cache with one entry more, or with its first entry replaced.
LEMMA PutEntry ==
  ASSUME cache \in Seq(Entries), Len(cache) <= CACHE_N, NEW e \in Entries
  PROVE  /\ CachePut(e) \in Seq(Entries) /\ Len(CachePut(e)) <= CACHE_N
         /\ \A i \in 1 .. Len(CachePut(e)) :
              CachePut(e)[i] = e \/ (i \in 1 .. Len(cache) /\ CachePut(e)[i] = cache[i])
         /\ \A i, j \in 1 .. Len(CachePut(e)) :
              CachePut(e)[i] = e /\ CachePut(e)[j] = e =>
                i = j \/ \E k \in 1 .. Len(cache) : cache[k] = e
<1>1. Len(cache) \in Nat /\ CACHE_N \in Nat /\ CACHE_N # 0
  BY Constants
<1>2. CASE Len(cache) < CACHE_N
  <2>1. CachePut(e) = Append(cache, e)
    BY <1>2 DEF CachePut
  <2> QED
    BY <1>1, <1>2, <2>1
<1>3. CASE ~(Len(cache) < CACHE_N)
  <2>1. CachePut(e) = [cache EXCEPT ![1] = e]
    BY <1>3 DEF CachePut
  <2>2. 1 \in 1 .. Len(cache) /\ Len(cache) = CACHE_N
    BY <1>1, <1>3
  <2> QED
    BY <1>1, <2>1, <2>2
<1> QED
  BY <1>2, <1>3

\* A query that ends with an answer.
LEMMA AnswerInv ==
  ASSUME ResolverInv, pc \in [Threads -> Labels], NEW t \in Threads, DnsAnswer(t)
  PROVE  ResolverInv'
<1> DEFINE e == [name |-> host[t], from |-> asked[t], old |-> t \in overtaken]
<1>1. /\ pc[t] = "query" /\ dns_mutex = t /\ host[t] \in Hosts /\ ~Cached(host[t])
      /\ asked[t] = dns_server /\ dns_server \in Servers /\ overtaken = {}
      /\ cache \in Seq(Entries) /\ Len(cache) <= CACHE_N
  BY Constants DEF DnsAnswer, ResolverInv, QueryInv, ResolverTypeOK, Nobody
<1>2. (t \in overtaken) = FALSE
  BY <1>1
<1>3. e \in Entries /\ e.name = host[t] /\ e.from = dns_server /\ ~e.old
  BY <1>1, <1>2 DEF Entries
<1>4. cache' = CachePut(e) /\ UNCHANGED <<dns_server, host>>
  BY DEF DnsAnswer
<1> HIDE DEF e
<1>5. ResolverTypeOK'
  <2>1. cache' \in Seq(Entries) /\ Len(cache') <= CACHE_N
    BY <1>1, <1>3, <1>4, PutEntry
  <2> QED
    BY <1>4, <2>1, Constants DEF DnsAnswer, QueryEnds, ResolverInv, ResolverTypeOK, Nobody
<1>6. QueryInv'
  <2>1. dns_mutex' = Nobody /\ overtaken' = {} /\ pc' = [pc EXCEPT ![t] = "connect"]
    BY <1>1 DEF DnsAnswer, QueryEnds, Goto
  <2>2. \A u \in Threads : pc'[u] # "query" /\ (pc'[u] = "resolve" => pc[u] = "resolve")
    BY <1>1, <2>1 DEF ResolverInv, QueryInv
  <2> QED
    BY <1>4, <2>1, <2>2, Constants DEF ResolverInv, QueryInv
<1>7. FreshAddresses'
  <2>1. \A i \in 1 .. Len(cache') :
          cache'[i] = e \/ (i \in 1 .. Len(cache) /\ cache'[i] = cache[i])
    BY <1>1, <1>3, <1>4, PutEntry
  <2>2. \A i \in 1 .. Len(cache) : cache[i].from = dns_server /\ ~cache[i].old
    BY DEF ResolverInv, FreshAddresses
  <2>3. ASSUME NEW i \in 1 .. Len(cache') PROVE cache'[i].from = dns_server /\ ~cache'[i].old
    BY <1>3, <2>1, <2>2
  <2> QED
    BY <1>4, <2>3 DEF FreshAddresses
<1>8. OneAddressPerHost'
  <2>1. \A k \in 1 .. Len(cache) : cache[k].name # e.name
    BY <1>1, <1>3 DEF Cached
  <2>2. \A i, j \in 1 .. Len(cache) : cache[i].name = cache[j].name => i = j
    BY DEF ResolverInv, OneAddressPerHost
  <2>3. /\ \A i \in 1 .. Len(cache') :
             cache'[i] = e \/ (i \in 1 .. Len(cache) /\ cache'[i] = cache[i])
        /\ \A i, j \in 1 .. Len(cache') :
             cache'[i] = e /\ cache'[j] = e => i = j \/ \E k \in 1 .. Len(cache) : cache[k] = e
    BY <1>1, <1>3, <1>4, PutEntry
  <2> QED
    BY <2>1, <2>2, <2>3 DEF OneAddressPerHost
<1> QED
  BY <1>5, <1>6, <1>7, <1>8 DEF ResolverInv

\* What the resolver promises does not depend on where the threads are, as long
\* as a query is neither begun nor ended.
LEMMA ResolverStays ==
  ASSUME ResolverInv, pc \in [Threads -> Labels], NEW t \in Threads, pc[t] # "query",
         NEW label \in Labels, label # "query", Goto(t, label),
         UNCHANGED <<dns_server, cache, dns_mutex, query, overtaken>>,
         host' \in [Threads -> Hosts \cup {"none"}],
         \A u \in Threads : u # t => host'[u] = host[u],
         label = "resolve" => host'[t] \in Hosts
  PROVE  ResolverInv'
<1>1. \A u \in Threads : pc'[u] = IF u = t THEN label ELSE pc[u]
  BY DEF Goto
<1>2. ResolverTypeOK'
  BY DEF ResolverInv, ResolverTypeOK, query
<1>3. QueryInv'
  BY <1>1 DEF ResolverInv, QueryInv, query, Cached
<1>4. FreshAddresses' /\ OneAddressPerHost'
  BY DEF ResolverInv, FreshAddresses, OneAddressPerHost
<1> QED
  BY <1>2, <1>3, <1>4 DEF ResolverInv

\* A flush, or a new lease, finds no query under way.
LEMMA FlushInv ==
  ASSUME ResolverInv, dns_mutex = Nobody, cache' = <<>>, overtaken' = Querying,
         UNCHANGED <<dns_mutex, host, query>>, dns_server' \in Servers \cup {"none"},
         \A u \in Threads : /\ pc'[u] = "query" => pc[u] = "query"
                            /\ pc'[u] = "resolve" => pc[u] = "resolve"
  PROVE  ResolverInv'
<1>1. \A u \in Threads : pc[u] # "query" /\ pc'[u] # "query"
  BY Constants DEF ResolverInv, QueryInv
<1>2. overtaken' = {}
  BY <1>1 DEF Querying
<1>3. ResolverTypeOK'
  BY <1>2, Constants DEF ResolverInv, ResolverTypeOK, query
<1>4. QueryInv'
  BY <1>1, <1>2, Constants DEF ResolverInv, QueryInv
<1>5. FreshAddresses' /\ OneAddressPerHost'
  BY DEF FreshAddresses, OneAddressPerHost
<1> QED
  BY <1>3, <1>4, <1>5 DEF ResolverInv

\* A query that ends without an answer.
LEMMA QueryOver ==
  ASSUME ResolverInv, pc \in [Threads -> Labels], NEW t \in Threads, pc[t] = "query",
         Goto(t, "failed"), QueryEnds(t), UNCHANGED <<dns_server, cache, host>>
  PROVE  ResolverInv'
<1>1. dns_mutex = t /\ overtaken = {}
  BY DEF ResolverInv, QueryInv
<1>2. dns_mutex' = Nobody /\ overtaken' = {}
  BY <1>1 DEF QueryEnds
<1>3. \A u \in Threads : pc'[u] # "query" /\ (pc'[u] = "resolve" => pc[u] = "resolve")
  BY <1>1 DEF ResolverInv, QueryInv, Goto
<1>4. ResolverTypeOK'
  BY <1>2, Constants DEF QueryEnds, ResolverInv, ResolverTypeOK, Nobody
<1>5. QueryInv'
  BY <1>2, <1>3, Constants DEF ResolverInv, QueryInv
<1>6. FreshAddresses' /\ OneAddressPerHost'
  BY DEF ResolverInv, FreshAddresses, OneAddressPerHost
<1> QED
  BY <1>4, <1>5, <1>6 DEF ResolverInv

\* Every step of dns.c and of gc_net_connect_socket keeps the invariant, and
\* leads to labels that are not the directory cache's.
LEMMA ResolvingInv ==
  ASSUME ResolverInv, pc \in [Threads -> Labels], NEW t \in Threads, Resolving(t)
  PROVE  /\ ResolverInv' /\ pc' \in [Threads -> Labels]
         /\ pc[t] \in {"resolve", "query", "flush", "connect"}
         /\ pc'[t] \in {"resolve", "query", "flush", "connect", "online", "failed"}
         /\ \A u \in Threads : u # t => pc'[u] = pc[u]
<1> USE DEF Labels
<1>h. host \in [Threads -> Hosts \cup {"none"}]
  BY DEF ResolverInv, ResolverTypeOK
<1>1. CASE DnsResolve(t)
  <2>1. /\ pc[t] = "resolve" /\ dns_mutex = Nobody /\ dns_mutex' = t
        /\ ~Cached(host[t]) /\ dns_server # "none"
        /\ pc' = [pc EXCEPT ![t] = "query"] /\ asked' = [asked EXCEPT ![t] = dns_server]
        /\ UNCHANGED <<dns_server, cache, host, tries, overtaken>>
    BY <1>1 DEF DnsResolve, Goto
  <2>2. ResolverTypeOK'
    BY <2>1 DEF ResolverInv, ResolverTypeOK
  <2>3. QueryInv'
    <3>1. \A u \in Threads : u # t => pc'[u] # "query" /\ pc'[u] = pc[u]
      BY <2>1, Constants DEF ResolverInv, QueryInv
    <3>2. pc'[t] = "query" /\ asked'[t] = dns_server /\ host[t] \in Hosts
      BY <2>1 DEF ResolverInv, QueryInv, ResolverTypeOK
    <3> QED
      BY <2>1, <3>1, <3>2 DEF ResolverInv, QueryInv, Cached
  <2>4. FreshAddresses' /\ OneAddressPerHost'
    BY <2>1 DEF ResolverInv, FreshAddresses, OneAddressPerHost
  <2> QED
    BY <2>1, <2>2, <2>3, <2>4 DEF ResolverInv
<1>2. CASE DnsResolveLocal(t)
  <2>1. PICK label \in {"connect", "failed"} : Goto(t, label)
    BY <1>2 DEF DnsResolveLocal
  <2>2. pc[t] = "resolve" /\ UNCHANGED resolver
    BY <1>2 DEF DnsResolveLocal
  <2>3. ResolverInv'
    BY <1>h, <2>1, <2>2, ResolverStays DEF resolver, query
  <2> QED
    BY <2>1, <2>2, <2>3 DEF Goto
<1>3. CASE DnsAnswer(t)
  BY <1>3, AnswerInv DEF DnsAnswer, Goto
<1>4. CASE DnsTryFails(t) /\ tries[t] + 1 < DNS_TRIES
  <2>1. /\ pc[t] = "query" /\ tries' = [tries EXCEPT ![t] = @ + 1]
        /\ UNCHANGED <<pc, dns_mutex, asked, overtaken, dns_server, cache, host>>
    BY <1>4 DEF DnsTryFails
  <2>2. ResolverTypeOK'
    BY <1>4, <2>1, Constants DEF ResolverInv, ResolverTypeOK
  <2>3. QueryInv' /\ FreshAddresses' /\ OneAddressPerHost'
    BY <2>1 DEF ResolverInv, QueryInv, FreshAddresses, OneAddressPerHost, Cached
  <2> QED
    BY <2>1, <2>2, <2>3 DEF ResolverInv
<1>5. CASE DnsTryFails(t) /\ ~(tries[t] + 1 < DNS_TRIES)
  BY <1>5, QueryOver DEF DnsTryFails, Goto
<1>6. CASE DnsNoSocket(t)
  BY <1>6, QueryOver DEF DnsNoSocket, Goto
<1>7. CASE DnsCacheFlush(t)
  <2>1. /\ pc[t] = "flush" /\ dns_mutex = Nobody /\ cache' = <<>> /\ overtaken' = Querying
        /\ pc' = [pc EXCEPT ![t] = "failed"] /\ UNCHANGED <<dns_server, dns_mutex, host, query>>
    BY <1>7 DEF DnsCacheFlush, Goto
  <2>2. \A u \in Threads : pc'[u] = IF u = t THEN "failed" ELSE pc[u]
    BY <2>1
  <2>3. ResolverInv'
    BY <2>1, <2>2, FlushInv DEF ResolverInv, ResolverTypeOK
  <2> QED
    BY <2>1, <2>3
<1>8. CASE Connected(t) \/ ConnectNotTried(t) \/ ConnectFails(t)
  <2>1. PICK label \in {"online", "failed", "flush"} : Goto(t, label)
    BY <1>8 DEF Connected, ConnectNotTried, ConnectFails
  <2>2. pc[t] = "connect" /\ UNCHANGED resolver
    BY <1>8 DEF Connected, ConnectNotTried, ConnectFails
  <2>3. ResolverInv'
    BY <1>h, <2>1, <2>2, ResolverStays DEF resolver, query
  <2> QED
    BY <2>1, <2>2, <2>3 DEF Goto
<1> QED
  BY <1>1, <1>2, <1>3, <1>4, <1>5, <1>6, <1>7, <1>8 DEF Resolving

-----------------------------------------------------------------------------
(* Lists of entries.                                                       *)

\* a is before b in a list.
Before(seq, a, b) == \E k, l \in 1 .. Len(seq) : seq[k] = a /\ seq[l] = b /\ k < l

\* Every set of positions has a first one.
LEMMA LeastNatural ==
  ASSUME NEW S, S \subseteq Nat, S # {}
  PROVE  \E x \in S : \A y \in S : x <= y
<1> DEFINE R == OpToRel(<, Nat)
<1>1. \E x \in S : \A y \in S : ~(<<y, x>> \in R)
  BY NatLessThanWellFounded, WFMin
<1>2. ASSUME NEW x \in Nat, NEW y \in Nat, y < x PROVE <<y, x>> \in R
  <2>1. R = {ss \in Nat \X Nat : ss[1] < ss[2]}
    BY Zenon DEF OpToRel
  <2> HIDE DEF R
  <2> QED
    BY <1>2, <2>1
<1> HIDE DEF R
<1>3. \A x, y \in Nat : ~(y < x) => x <= y
  OBVIOUS
<1> QED
  BY <1>1, <1>2, <1>3, Zenon

\* The entries before i stay where they are, those after it move up by one.
LEMMA WithoutEntry ==
  ASSUME NEW S, NEW s \in Seq(S), NEW i \in 1 .. Len(s)
  PROVE  /\ Without(s, i) \in Seq(S) /\ Len(Without(s, i)) = Len(s) - 1
         /\ \A k \in 1 .. Len(s) - 1 : Without(s, i)[k] = IF k < i THEN s[k] ELSE s[k + 1]
<1> DEFINE a == SubSeq(s, 1, i - 1)
           b == SubSeq(s, i + 1, Len(s))
           n == Len(s)
<1>0. n \in Nat /\ i \in 1 .. n /\ \A k \in 1 .. n : s[k] \in S
  OBVIOUS
<1>1. a \in Seq(S) /\ Len(a) = i - 1 /\ \A k \in 1 .. i - 1 : a[k] = s[k]
  <2>1. \A k \in 1 .. i - 1 : s[k] \in S
    BY <1>0
  <2>2. /\ SubSeq(s, 1, i - 1) \in Seq(S)
        /\ Len(SubSeq(s, 1, i - 1)) = IF 1 <= i - 1 THEN (i - 1) - 1 + 1 ELSE 0
        /\ \A k \in 1 .. (i - 1) - 1 + 1 : SubSeq(s, 1, i - 1)[k] = s[1 + k - 1]
    BY <1>0, <2>1, SubSeqProperties
  <2> QED
    BY <1>0, <2>2
<1>2. b \in Seq(S) /\ Len(b) = n - i /\ \A k \in 1 .. n - i : b[k] = s[k + i]
  <2>1. \A k \in i + 1 .. n : s[k] \in S
    BY <1>0
  <2>2. /\ SubSeq(s, i + 1, n) \in Seq(S)
        /\ Len(SubSeq(s, i + 1, n)) = IF i + 1 <= n THEN n - (i + 1) + 1 ELSE 0
        /\ \A k \in 1 .. n - (i + 1) + 1 : SubSeq(s, i + 1, n)[k] = s[(i + 1) + k - 1]
    BY <1>0, <2>1, SubSeqProperties
  <2> QED
    BY <1>0, <2>2
<1>3. Without(s, i) = a \o b
  BY DEF Without
<1> HIDE DEF a, b, n
<1>4. /\ a \o b \in Seq(S) /\ Len(a \o b) = Len(a) + Len(b)
      /\ \A k \in 1 .. Len(a) + Len(b) :
           (a \o b)[k] = IF k <= Len(a) THEN a[k] ELSE b[k - Len(a)]
  BY <1>1, <1>2, ConcatProperties
<1>5. Len(a) + Len(b) = n - 1
  BY <1>0, <1>1, <1>2
<1>6. ASSUME NEW k \in 1 .. n - 1 PROVE (a \o b)[k] = IF k < i THEN s[k] ELSE s[k + 1]
  <2>1. CASE k < i
    BY <1>0, <1>1, <1>4, <1>5, <2>1
  <2>2. CASE ~(k < i)
    <3>1. (a \o b)[k] = b[k - (i - 1)]
      BY <1>0, <1>1, <1>4, <1>5, <2>2
    <3>2. k - (i - 1) \in 1 .. n - i /\ (k - (i - 1)) + i = k + 1
      BY <1>0, <2>2
    <3> QED
      BY <1>2, <2>2, <3>1, <3>2
  <2> QED
    BY <2>1, <2>2
<1> QED
  BY <1>3, <1>4, <1>5, <1>6 DEF n

\* Each position of the shorter list is one of the longer list, in order.
LEMMA WithoutOrder ==
  ASSUME NEW S, NEW s \in Seq(S), NEW i \in 1 .. Len(s), NEW a, NEW b
  PROVE  /\ Before(Without(s, i), a, b) => Before(s, a, b)
         /\ Before(s, a, b) /\ a # s[i] /\ b # s[i] => Before(Without(s, i), a, b)
<1> DEFINE n == Len(s)
           r == Without(s, i)
           Old(k) == IF k < i THEN k ELSE k + 1
           New(k) == IF k < i THEN k ELSE k - 1
<1>0. n \in Nat /\ i \in 1 .. n
  OBVIOUS
<1>1. /\ n \in Nat /\ i \in 1 .. n /\ Len(r) = n - 1
      /\ \A k \in 1 .. n - 1 : r[k] = IF k < i THEN s[k] ELSE s[k + 1]
  BY <1>0, WithoutEntry, Zenon
<1> HIDE DEF n, r
<1>2. \A k \in 1 .. n - 1 : Old(k) \in 1 .. n /\ r[k] = s[Old(k)]
  BY <1>1
<1>3. \A k, l \in 1 .. n - 1 : k < l => Old(k) < Old(l)
  BY <1>1
<1>4. \A k \in 1 .. n : k # i => New(k) \in 1 .. n - 1 /\ r[New(k)] = s[k]
  BY <1>1
<1>5. \A k, l \in 1 .. n : k # i /\ l # i /\ k < l => New(k) < New(l)
  BY <1>1
<1> HIDE DEF Old, New
<1>6. ASSUME Before(r, a, b) PROVE Before(s, a, b)
  <2>1. PICK k, l \in 1 .. n - 1 : r[k] = a /\ r[l] = b /\ k < l
    BY <1>1, <1>6 DEF Before
  <2>2. /\ Old(k) \in 1 .. n /\ Old(l) \in 1 .. n /\ Old(k) < Old(l)
        /\ s[Old(k)] = a /\ s[Old(l)] = b
    BY <1>2, <1>3, <2>1
  <2> QED
    BY <2>2 DEF Before, n
<1>7. ASSUME Before(s, a, b), a # s[i], b # s[i] PROVE Before(r, a, b)
  <2>1. PICK k, l \in 1 .. n : s[k] = a /\ s[l] = b /\ k < l
    BY <1>7 DEF Before, n
  <2>2. k # i /\ l # i
    BY <1>7, <2>1
  <2>3. /\ New(k) \in 1 .. n - 1 /\ New(l) \in 1 .. n - 1 /\ New(k) < New(l)
        /\ r[New(k)] = a /\ r[New(l)] = b
    BY <1>4, <1>5, <2>1, <2>2
  <2> QED
    BY <1>1, <2>3 DEF Before
<1> QED
  BY <1>6, <1>7 DEF r

\* A list without repetitions loses just the entry that is taken out.
LEMMA WithoutElements ==
  ASSUME NEW S, NEW s \in Seq(S), NEW i \in 1 .. Len(s), Distinct(s)
  PROVE  Distinct(Without(s, i)) /\ Elements(Without(s, i)) = Elements(s) \ {s[i]}
<1> DEFINE n == Len(s)
           r == Without(s, i)
           Old(k) == IF k < i THEN k ELSE k + 1
           New(k) == IF k < i THEN k ELSE k - 1
<1>0. n \in Nat /\ i \in 1 .. n
  OBVIOUS
<1>1. /\ n \in Nat /\ i \in 1 .. n /\ Len(r) = n - 1
      /\ \A k \in 1 .. n - 1 : r[k] = IF k < i THEN s[k] ELSE s[k + 1]
  BY <1>0, WithoutEntry, Zenon
<1>d. \A k, l \in 1 .. n : s[k] = s[l] => k = l
  BY DEF Distinct
<1> HIDE DEF n, r
<1>2. \A k \in 1 .. n - 1 : Old(k) \in 1 .. n /\ Old(k) # i /\ r[k] = s[Old(k)]
  BY <1>1
<1>3. \A k, l \in 1 .. n - 1 : Old(k) = Old(l) => k = l
  BY <1>1
<1>4. \A k \in 1 .. n : k # i => New(k) \in 1 .. n - 1 /\ r[New(k)] = s[k]
  BY <1>1
<1> HIDE DEF Old, New
<1>5. Distinct(r)
  BY <1>1, <1>d, <1>2, <1>3 DEF Distinct
<1>6. ASSUME NEW a \in Elements(r) PROVE a \in Elements(s) \ {s[i]}
  <2>1. PICK k \in 1 .. n - 1 : r[k] = a
    BY <1>1, <1>6 DEF Elements
  <2>2. Old(k) \in 1 .. n /\ Old(k) # i /\ s[Old(k)] = a
    BY <1>2, <2>1
  <2>3. a # s[i]
    BY <1>1, <1>d, <2>2
  <2> QED
    BY <2>2, <2>3 DEF Elements, n
<1>7. ASSUME NEW a \in Elements(s), a # s[i] PROVE a \in Elements(r)
  <2>1. PICK k \in 1 .. n : s[k] = a
    BY DEF Elements, n
  <2>2. New(k) \in 1 .. n - 1 /\ r[New(k)] = a
    BY <1>4, <1>7, <2>1
  <2> QED
    BY <1>1, <2>2 DEF Elements
<1> QED
  BY <1>5, <1>6, <1>7 DEF r

\* An entry added at the end comes after all the others.
LEMMA AppendOrder ==
  ASSUME NEW S, NEW s \in Seq(S), NEW x \in S, x \notin Elements(s), Distinct(s)
  PROVE  /\ Append(s, x) \in Seq(S) /\ Distinct(Append(s, x))
         /\ Elements(Append(s, x)) = Elements(s) \cup {x}
         /\ \A a, b : Before(s, a, b) => Before(Append(s, x), a, b)
         /\ \A a \in Elements(s) : Before(Append(s, x), a, x)
<1> DEFINE n == Len(s)
           r == Append(s, x)
<1>1. /\ n \in Nat /\ r \in Seq(S) /\ Len(r) = n + 1 /\ r[n + 1] = x
      /\ \A k \in 1 .. n : r[k] = s[k]
  OBVIOUS
<1>2. \A k \in 1 .. n : s[k] # x
  BY DEF Elements
<1>d. \A k, l \in 1 .. n : s[k] = s[l] => k = l
  BY DEF Distinct
<1>3. ASSUME NEW a, NEW b, Before(s, a, b) PROVE Before(r, a, b)
  <2>1. PICK k, l \in 1 .. n : s[k] = a /\ s[l] = b /\ k < l
    BY <1>3 DEF Before
  <2> HIDE DEF r, n
  <2>2. k \in 1 .. Len(r) /\ l \in 1 .. Len(r) /\ r[k] = a /\ r[l] = b
    BY <1>1, <2>1
  <2> QED
    BY <2>1, <2>2 DEF Before
<1>4. ASSUME NEW a \in Elements(s) PROVE Before(r, a, x)
  <2>1. PICK k \in 1 .. n : s[k] = a
    BY DEF Elements
  <2> HIDE DEF r, n
  <2>2. k \in 1 .. Len(r) /\ n + 1 \in 1 .. Len(r) /\ k < n + 1 /\ r[k] = a
    BY <1>1, <2>1
  <2> QED
    BY <1>1, <2>2 DEF Before
<1>5. Elements(r) = Elements(s) \cup {x}
  <2> HIDE DEF r
  <2>1. Elements(s) = {s[k] : k \in 1 .. n} /\ Elements(r) = {r[k] : k \in 1 .. n + 1}
    BY <1>1 DEF Elements
  <2> HIDE DEF n
  <2> QED
    BY <1>1, <2>1
<1> HIDE DEF r, n
<1>6. Distinct(r)
  BY <1>1, <1>2, <1>d DEF Distinct
<1> QED
  BY <1>1, <1>3, <1>4, <1>5, <1>6 DEF r

\* An entry put at the head comes before all the others.
LEMMA HeadOrder ==
  ASSUME NEW S, NEW s \in Seq(S), NEW x \in S, x \notin Elements(s), Distinct(s)
  PROVE  /\ <<x>> \o s \in Seq(S) /\ Distinct(<<x>> \o s)
         /\ Elements(<<x>> \o s) = Elements(s) \cup {x}
         /\ \A a, b : Before(<<x>> \o s, a, b) => Before(s, a, b) \/ (a = x /\ b \in Elements(s))
<1> DEFINE n == Len(s)
           r == <<x>> \o s
<1>1. /\ n \in Nat /\ r \in Seq(S) /\ Len(r) = n + 1 /\ r[1] = x
      /\ \A k \in 2 .. n + 1 : r[k] = s[k - 1]
  OBVIOUS
<1>2. \A k \in 1 .. n : s[k] # x
  BY DEF Elements
<1>d. \A k, l \in 1 .. n : s[k] = s[l] => k = l
  BY DEF Distinct
<1>3. Elements(s) = {s[k] : k \in 1 .. n}
  BY DEF Elements
<1> HIDE DEF r
<1>4. Elements(r) = {r[k] : k \in 1 .. n + 1}
  BY <1>1 DEF Elements
<1>5. \A k \in 1 .. n + 1 : k # 1 => k - 1 \in 1 .. n /\ r[k] = s[k - 1]
  BY <1>1
<1>6. \A k \in 1 .. n : k + 1 \in 1 .. n + 1 /\ r[k + 1] = s[k]
  BY <1>1
<1>7. ASSUME NEW a, NEW b, Before(r, a, b) PROVE Before(s, a, b) \/ (a = x /\ b \in Elements(s))
  <2>1. PICK k, l \in 1 .. n + 1 : r[k] = a /\ r[l] = b /\ k < l
    BY <1>1, <1>7 DEF Before
  <2>2. l # 1 /\ l - 1 \in 1 .. n /\ s[l - 1] = b
    BY <1>1, <1>5, <2>1
  <2>3. CASE k = 1
    BY <1>1, <2>1, <2>2, <2>3 DEF Elements
  <2>4. CASE k # 1
    <3>1. k - 1 \in 1 .. n /\ s[k - 1] = a /\ k - 1 < l - 1
      BY <1>1, <1>5, <2>1, <2>4
    <3> QED
      BY <2>2, <3>1 DEF Before
  <2> QED
    BY <2>3, <2>4
<1> HIDE DEF n
<1>8. Elements(r) = Elements(s) \cup {x}
  <2>1. 1 \in 1 .. n + 1
    BY <1>1
  <2>2. ASSUME NEW a \in Elements(r) PROVE a \in Elements(s) \cup {x}
    BY <1>1, <1>3, <1>4, <1>5, <2>2
  <2>3. ASSUME NEW a \in Elements(s) PROVE a \in Elements(r)
    BY <1>3, <1>4, <1>6, <2>3
  <2>4. x \in Elements(r)
    BY <1>1, <1>4, <2>1
  <2> QED
    BY <2>2, <2>3, <2>4
<1>9. Distinct(r)
  <2> SUFFICES ASSUME NEW k \in 1 .. n + 1, NEW l \in 1 .. n + 1, r[k] = r[l]
               PROVE  k = l
    BY <1>1 DEF Distinct
  <2>1. CASE k = 1 \/ l = 1
    BY <1>1, <1>2, <1>5, <2>1
  <2>2. CASE k # 1 /\ l # 1
    <3>1. k - 1 = l - 1
      BY <1>d, <1>5, <2>2
    <3> QED
      BY <3>1
  <2> QED
    BY <2>1, <2>2
<1> QED
  BY <1>1, <1>7, <1>8, <1>9 DEF r

-----------------------------------------------------------------------------
(* The directory cache.                                                    *)

\* What is in the cache stays right while nobody writes to it.
LEMMA CacheStays ==
  ASSUME SameEntries, NewestServed, UNCHANGED dircache
  PROVE  SameEntries' /\ NewestServed'
<1>1. directory' = directory /\ recent' = recent /\ item' = item
  BY DEF dircache
<1>2. SameEntries'
  <2>1. Distinct(directory)' /\ Distinct(recent)'
    BY <1>1 DEF SameEntries, Distinct
  <2>2. Elements(directory)' = Elements(recent)'
    BY <1>1 DEF SameEntries, Elements
  <2> QED
    BY <2>1, <2>2 DEF SameEntries
<1>3. NewestServed'
  BY <1>1 DEF NewestServed
<1> QED
  BY <1>2, <1>3

\* One thread's step leaves alone what the others know, unless it writes to the
\* cache while another copies from it.
LEMMA OthersKnow ==
  ASSUME NEW t \in Threads, NEW u \in Threads, u # t, Knows(u),
         pc'[u] = pc[u], path'[u] = path[u], copying'[u] = copying[u],
         dav_lock' = u <=> dav_lock = u, UNCHANGED dircache \/ pc[u] # "memcpy"
  PROVE  Knows(u)'
<1>1. CASE UNCHANGED dircache
  BY <1>1 DEF Knows, Found, dircache
<1>2. CASE pc[u] # "memcpy"
  BY <1>2 DEF Knows
<1> QED
  BY <1>1, <1>2

\* A step of one thread that does not write to the cache.
LEMMA ThreadMoves ==
  ASSUME DirectoryInv, NEW t \in Threads, UNCHANGED dircache, Knows(t)',
         dav_lock' \in Threads \cup {Nobody}, path' \in [Threads -> Paths \cup {"none"}],
         copying' \in [Threads -> Items \cup {"none"}],
         \A u \in Threads \ {t} :
           /\ pc'[u] = pc[u] /\ path'[u] = path[u] /\ copying'[u] = copying[u]
           /\ dav_lock' = u <=> dav_lock = u
  PROVE  DirectoryInv'
<1>1. DirectoryTypeOK'
  BY DEF DirectoryInv, DirectoryTypeOK, dircache
<1>2. ListingInv'
  <2>1. ASSUME NEW u \in Threads, u # t PROVE Knows(u)'
    BY <2>1, OthersKnow DEF DirectoryInv, ListingInv
  <2> QED
    BY <2>1 DEF ListingInv
<1>3. SameEntries' /\ NewestServed'
  BY CacheStays DEF DirectoryInv
<1> QED
  BY <1>1, <1>2, <1>3 DEF DirectoryInv

\* The end of a call: the thread keeps nothing.
LEMMA ReturnKnows ==
  ASSUME DirectoryInv, pc \in [Threads -> Labels], NEW t \in Threads, Return(t),
         dav_lock' # t
  PROVE  /\ Knows(t)' /\ path' \in [Threads -> Paths \cup {"none"}]
         /\ copying' \in [Threads -> Items \cup {"none"}]
         /\ \A u \in Threads \ {t} :
              pc'[u] = pc[u] /\ path'[u] = path[u] /\ copying'[u] = copying[u]
<1>1. pc'[t] = "idle"
  BY DEF Return, Goto
<1>2. Knows(t)'
  BY <1>1 DEF Knows
<1> QED
  BY <1>2, Constants DEF Return, Goto, DirectoryInv, DirectoryTypeOK

\* In the resolver a thread is outside of the directory cache.
LEMMA ResolvingDirectory ==
  ASSUME DirectoryInv, ResolverInv, pc \in [Threads -> Labels], NEW t \in Threads, Resolving(t)
  PROVE  DirectoryInv'
<1>1. /\ pc[t] \in {"resolve", "query", "flush", "connect"}
      /\ pc'[t] \in {"resolve", "query", "flush", "connect", "online", "failed"}
      /\ \A u \in Threads : u # t => pc'[u] = pc[u]
  BY ResolvingInv
<1>2. UNCHANGED <<dircache, dav_lock, path, copying>>
  BY DEF Resolving, listing
<1>3. Knows(t)'
  BY <1>1, <1>2 DEF DirectoryInv, ListingInv, Knows
<1> QED
  BY <1>1, <1>2, <1>3, ThreadMoves DEF DirectoryInv, DirectoryTypeOK

\* The steps of dav_diropen, and of an open, that do not write to the cache.
LEMMA QuietDirectory ==
  ASSUME DirectoryInv, pc \in [Threads -> Labels], NEW t \in Threads,
         \/ DirOpen(t) \/ OpenFile(t) \/ CacheMiss(t) \/ CacheHit(t) \/ CopyFails(t)
         \/ BodyEnds(t) \/ ReadFails(t) \/ ListRead(t) \/ StoreLocks(t)
         \/ FileOpened(t) \/ Failure(t) \/ StoreSkipped(t) \/ StoreGivesUp(t)
  PROVE  DirectoryInv'
<1>t. /\ dav_lock \in Threads \cup {Nobody} /\ path \in [Threads -> Paths \cup {"none"}]
      /\ copying \in [Threads -> Items \cup {"none"}]
      /\ directory \in Seq(Items) /\ Knows(t)
  BY DEF DirectoryInv, DirectoryTypeOK, ListingInv
<1>1. CASE DirOpen(t)
  <2>1. /\ Goto(t, "copy") /\ \E p \in Paths : path' = [path EXCEPT ![t] = p]
        /\ pc[t] = "idle" /\ UNCHANGED <<dircache, dav_lock, copying>>
    BY <1>1 DEF DirOpen
  <2>2. Knows(t)'
    BY <1>t, <2>1 DEF Knows, Goto
  <2> QED
    BY <1>t, <2>1, <2>2, ThreadMoves DEF Goto
<1>2. CASE OpenFile(t) \/ CacheMiss(t)
  <2>1. /\ Goto(t, "resolve") /\ pc[t] \in {"idle", "copy"}
        /\ UNCHANGED <<dircache, dav_lock, path, copying>>
    BY <1>2 DEF OpenFile, CacheMiss, listing
  <2>2. Knows(t)'
    BY <1>t, <2>1 DEF Knows, Goto
  <2> QED
    BY <1>t, <2>1, <2>2, ThreadMoves DEF Goto
<1>3. CASE CacheHit(t)
  <2>1. PICK e \in Found(path[t]) : copying' = [copying EXCEPT ![t] = e]
    BY <1>3 DEF CacheHit
  <2>2. /\ Goto(t, "memcpy") /\ dav_lock' = t /\ dav_lock = Nobody /\ pc[t] = "copy"
        /\ UNCHANGED <<dircache, path>>
    BY <1>3 DEF CacheHit
  <2>3. e \in Items
    BY <1>t DEF Found
  <2>4. Knows(t)'
    BY <1>t, <2>1, <2>2 DEF Knows, Goto, Found, dircache
  <2> QED
    BY <1>t, <2>1, <2>2, <2>3, <2>4, Constants, ThreadMoves DEF Goto
<1>4. CASE CopyFails(t)
  <2>1. /\ Goto(t, "failed") /\ dav_lock' = Nobody /\ pc[t] = "memcpy"
        /\ UNCHANGED <<dircache, path, copying>>
    BY <1>4 DEF CopyFails, listing
  <2>2. dav_lock = t
    BY <1>t, <2>1 DEF Knows
  <2>3. Knows(t)'
    BY <2>1, Constants DEF Knows, Goto
  <2> QED
    BY <1>t, <2>1, <2>2, <2>3, Constants, ThreadMoves DEF Goto
<1>5. CASE BodyEnds(t)
  <2>1. /\ Goto(t, "parse") /\ pc[t] = "online" /\ path[t] # "none"
        /\ UNCHANGED <<dircache, dav_lock, path, copying>>
    BY <1>5 DEF BodyEnds, listing
  <2>2. Knows(t)'
    BY <1>t, <2>1 DEF Knows, Goto
  <2> QED
    BY <1>t, <2>1, <2>2, ThreadMoves DEF Goto
<1>6. CASE ReadFails(t)
  <2>1. /\ Goto(t, "failed") /\ pc[t] \in {"online", "parse"}
        /\ UNCHANGED <<dircache, dav_lock, path, copying>>
    BY <1>6 DEF ReadFails, listing
  <2>2. Knows(t)'
    BY <1>t, <2>1 DEF Knows, Goto
  <2> QED
    BY <1>t, <2>1, <2>2, ThreadMoves DEF Goto
<1>7. CASE ListRead(t)
  <2>1. /\ Goto(t, "store") /\ pc[t] = "parse"
        /\ UNCHANGED <<dircache, dav_lock, path, copying>>
    BY <1>7 DEF ListRead, listing
  <2>2. Knows(t)'
    BY <1>t, <2>1 DEF Knows, Goto
  <2> QED
    BY <1>t, <2>1, <2>2, ThreadMoves DEF Goto
<1>8. CASE StoreLocks(t)
  <2>1. /\ Goto(t, "evict") /\ pc[t] = "store" /\ dav_lock = Nobody /\ dav_lock' = t
        /\ UNCHANGED <<dircache, path, copying>>
    BY <1>8 DEF StoreLocks, listing
  <2>2. Knows(t)'
    BY <1>t, <2>1 DEF Knows, Goto
  <2> QED
    BY <1>t, <2>1, <2>2, Constants, ThreadMoves DEF Goto
<1>9. CASE FileOpened(t) \/ Failure(t) \/ StoreSkipped(t)
  <2>1. pc[t] \in {"online", "failed", "store"} /\ Return(t) /\ UNCHANGED <<dircache, dav_lock>>
    BY <1>9 DEF FileOpened, Failure, StoreSkipped
  <2>2. dav_lock' # t
    BY <1>t, <2>1 DEF Knows
  <2> QED
    BY <1>t, <2>1, <2>2, ReturnKnows, ThreadMoves
<1>10. CASE StoreGivesUp(t)
  <2>1. pc[t] = "evict" /\ Return(t) /\ dav_lock' = Nobody /\ UNCHANGED dircache
    BY <1>10 DEF StoreGivesUp
  <2>2. dav_lock = t
    BY <1>t, <2>1 DEF Knows
  <2> QED
    BY <1>t, <2>1, <2>2, Constants, ReturnKnows, ThreadMoves
<1> QED
  BY <1>1, <1>2, <1>3, <1>4, <1>5, <1>6, <1>7, <1>8, <1>9, <1>10

\* NewestServed as an order of entries: of two listings of a directory, the one
\* that is found is the later one in the order of use.
Served(dir, rec, it) ==
  \A a, b : Before(dir, a, b) /\ it[a] = it[b] => Before(rec, b, a)

LEMMA ServedOrder ==
  /\ NewestServed <=> Served(directory, recent, item)
  /\ NewestServed' <=> Served(directory', recent', item')
<1> DEFINE Newest(dir, rec, it) ==
             \A i, j \in 1 .. Len(dir) : i < j /\ it[dir[i]] = it[dir[j]] =>
               \E k, l \in 1 .. Len(rec) : rec[k] = dir[i] /\ rec[l] = dir[j] /\ k > l
<1>1. ASSUME NEW dir, NEW rec, NEW it, Newest(dir, rec, it) PROVE Served(dir, rec, it)
  <2> SUFFICES ASSUME NEW a, NEW b, Before(dir, a, b), it[a] = it[b]
               PROVE  Before(rec, b, a)
    BY DEF Served
  <2>1. PICK i, j \in 1 .. Len(dir) : dir[i] = a /\ dir[j] = b /\ i < j
    BY DEF Before
  <2>2. PICK k, l \in 1 .. Len(rec) : rec[k] = a /\ rec[l] = b /\ k > l
    BY <1>1, <2>1
  <2> QED
    BY <2>2 DEF Before
<1>2. ASSUME NEW dir, NEW rec, NEW it, Served(dir, rec, it) PROVE Newest(dir, rec, it)
  <2> SUFFICES ASSUME NEW i \in 1 .. Len(dir), NEW j \in 1 .. Len(dir), i < j,
                      it[dir[i]] = it[dir[j]]
               PROVE  \E k, l \in 1 .. Len(rec) : rec[k] = dir[i] /\ rec[l] = dir[j] /\ k > l
    OBVIOUS
  <2>1. Before(dir, dir[i], dir[j])
    BY DEF Before
  <2>2. Before(rec, dir[j], dir[i])
    BY <1>2, <2>1 DEF Served
  <2>3. PICK l, k \in 1 .. Len(rec) : rec[l] = dir[j] /\ rec[k] = dir[i] /\ l < k
    BY <2>2 DEF Before
  <2> QED
    BY <2>3
<1>3. NewestServed <=> Newest(directory, recent, item)
  BY DEF NewestServed
<1>4. NewestServed' <=> Newest(directory', recent', item')
  BY DEF NewestServed
<1> HIDE DEF Newest
<1> QED
  BY <1>1, <1>2, <1>3, <1>4

\* What is before something is in the list.
LEMMA BeforeElements ==
  ASSUME NEW s, NEW a, NEW b, Before(s, a, b)
  PROVE  a \in Elements(s) /\ b \in Elements(s)
BY DEF Before, Elements

\* A step of the holder of the lock that writes to the cache.
LEMMA WriterMoves ==
  ASSUME DirectoryInv, NEW t \in Threads, dav_lock = t, Knows(t)',
         DirectoryTypeOK', SameEntries', NewestServed',
         dav_lock' \in {t, Nobody},
         \A u \in Threads \ {t} :
           pc'[u] = pc[u] /\ path'[u] = path[u] /\ copying'[u] = copying[u]
  PROVE  DirectoryInv'
<1>1. ASSUME NEW u \in Threads, u # t PROVE Knows(u)'
  <2>1. Knows(u) /\ pc[u] # "memcpy" /\ dav_lock # u /\ dav_lock' # u
    BY <1>1, Constants DEF DirectoryInv, ListingInv, Knows
  <2> QED
    BY <1>1, <2>1, OthersKnow
<1>2. ListingInv'
  BY <1>1 DEF ListingInv
<1> QED
  BY <1>2 DEF DirectoryInv

\* cache_copy stamps the entry it found, which no entry of its path precedes.
LEMMA CopiedDirectory ==
  ASSUME DirectoryInv, pc \in [Threads -> Labels], NEW t \in Threads, CacheCopied(t)
  PROVE  DirectoryInv'
<1> DEFINE c == copying[t]
<1>1. PICK i \in 1 .. Len(recent) : recent[i] = c /\ recent' = Append(Without(recent, i), c)
  BY DEF CacheCopied
<1>2. /\ pc[t] = "memcpy" /\ dav_lock' = Nobody /\ Return(t)
      /\ UNCHANGED <<directory, item, bytes>>
  BY DEF CacheCopied
<1>3. /\ directory \in Seq(Items) /\ recent \in Seq(Items) /\ c \in Found(path[t])
      /\ Distinct(directory) /\ Distinct(recent) /\ Elements(directory) = Elements(recent)
      /\ dav_lock = t
  BY <1>2 DEF DirectoryInv, DirectoryTypeOK, ListingInv, Knows, SameEntries
<1>4. PICK j \in 1 .. Len(directory) :
        /\ c = directory[j] /\ item[c] = path[t]
        /\ \A k \in 1 .. j - 1 : item[directory[k]] # path[t]
  BY <1>3 DEF Found
<1>5. c \in Items /\ c \in Elements(recent)
  <2>1. c \in Items
    BY <1>3, <1>4
  <2>2. c \in Elements(recent)
    BY <1>1 DEF Elements
  <2> QED
    BY <2>1, <2>2
<1> DEFINE r == Without(recent, i)
<1> HIDE DEF c
<1>6. r \in Seq(Items) /\ Distinct(r) /\ Elements(r) = Elements(recent) \ {c}
  BY <1>1, <1>3, WithoutEntry, WithoutElements
<1>7. /\ recent' \in Seq(Items) /\ Distinct(recent') /\ Elements(recent') = Elements(r) \cup {c}
      /\ \A a, b : Before(r, a, b) => Before(recent', a, b)
      /\ \A a \in Elements(r) : Before(recent', a, c)
  <2> HIDE DEF r
  <2>1. recent' = Append(r, c) /\ c \notin Elements(r)
    BY <1>1, <1>6 DEF r
  <2> QED
    BY <1>5, <1>6, <2>1, AppendOrder
<1>8. SameEntries'
  <2>1. Elements(recent') = Elements(directory)
    BY <1>3, <1>5, <1>6, <1>7
  <2> QED
    BY <1>2, <1>3, <1>7, <2>1 DEF SameEntries
<1>10. Served(directory, recent', item)
  <2> SUFFICES ASSUME NEW a, NEW b, Before(directory, a, b), item[a] = item[b]
               PROVE  Before(recent', b, a)
    BY DEF Served
  <2>1. Before(recent, b, a)
    BY ServedOrder DEF DirectoryInv, Served
  <2>2. b # c
    <3>1. PICK k, l \in 1 .. Len(directory) : directory[k] = a /\ directory[l] = b /\ k < l
      BY DEF Before
    <3>2. ASSUME b = c PROVE FALSE
      <4>1. l = j
        BY <1>3, <1>4, <3>1, <3>2 DEF Distinct
      <4>2. k \in 1 .. j - 1
        BY <1>3, <3>1, <4>1
      <4> QED
        BY <1>4, <3>1, <3>2, <4>2
    <3> QED
      BY <3>2
  <2>3. CASE a = c
    <3>1. b \in Elements(r)
      BY <1>6, <2>1, <2>2, BeforeElements
    <3> QED
      BY <1>7, <2>3, <3>1
  <2>4. CASE a # c
    <3>1. Before(r, b, a)
      BY <1>1, <1>3, <2>1, <2>2, <2>4, WithoutOrder
    <3> QED
      BY <1>7, <3>1
  <2> QED
    BY <2>3, <2>4
<1>11. NewestServed'
  BY <1>2, <1>10, ServedOrder
<1>12. dav_lock' # t
  BY <1>2, Constants
<1>13. DirectoryTypeOK'
  BY <1>2, <1>7, <1>12, ReturnKnows DEF DirectoryInv, DirectoryTypeOK
<1> QED
  BY <1>2, <1>3, <1>8, <1>11, <1>12, <1>13, ReturnKnows, WriterMoves

\* cache_remove takes the same entry out of both lists.
LEMMA EvictDirectory ==
  ASSUME DirectoryInv, NEW t \in Threads, Evict(t)
  PROVE  DirectoryInv'
<1>1. PICK v \in Victims :
        /\ \E i \in {j \in 1 .. Len(directory) : directory[j] = v} :
             directory' = Without(directory, i)
        /\ \E i \in {j \in 1 .. Len(recent) : recent[j] = v} : recent' = Without(recent, i)
        /\ bytes' = bytes - Size[item[v]] /\ item' = [item EXCEPT ![v] = Blank]
  BY DEF Evict
<1>2. PICK i \in 1 .. Len(directory) : directory[i] = v /\ directory' = Without(directory, i)
  BY <1>1
<1>3. PICK j \in 1 .. Len(recent) : recent[j] = v /\ recent' = Without(recent, j)
  BY <1>1
<1>4. pc[t] = "evict" /\ UNCHANGED <<pc, dav_lock, path, copying>>
  BY DEF Evict, listing
<1>5. /\ directory \in Seq(Items) /\ recent \in Seq(Items)
      /\ Distinct(directory) /\ Distinct(recent) /\ Elements(directory) = Elements(recent)
      /\ dav_lock = t /\ Knows(t) /\ bytes \in Int
      /\ item \in [Items -> Paths]
  BY <1>4 DEF DirectoryInv, DirectoryTypeOK, ListingInv, Knows, SameEntries
<1>6. v \in Items
  BY <1>2, <1>5
<1>7. /\ directory' \in Seq(Items) /\ recent' \in Seq(Items)
      /\ Distinct(directory') /\ Elements(directory') = Elements(directory) \ {v}
      /\ Distinct(recent') /\ Elements(recent') = Elements(recent) \ {v}
  <2>1. directory' \in Seq(Items) /\ recent' \in Seq(Items)
    BY <1>2, <1>3, <1>5, WithoutEntry
  <2>2. Distinct(directory') /\ Elements(directory') = Elements(directory) \ {v}
    BY <1>2, <1>5, WithoutElements
  <2>3. Distinct(recent') /\ Elements(recent') = Elements(recent) \ {v}
    BY <1>3, <1>5, WithoutElements
  <2> QED
    BY <2>1, <2>2, <2>3
<1>8. \A a \in Elements(directory') : a # v /\ a \in Elements(directory) /\ item'[a] = item[a]
  <2>1. \A a \in Elements(directory) : a \in Items
    BY <1>5 DEF Elements
  <2> QED
    BY <1>1, <1>5, <1>7, <2>1
<1>9. SameEntries'
  BY <1>5, <1>7 DEF SameEntries, Distinct, Elements
<1>11. Served(directory', recent', item')
  <2> SUFFICES ASSUME NEW a, NEW b, Before(directory', a, b), item'[a] = item'[b]
               PROVE  Before(recent', b, a)
    BY DEF Served
  <2>1. a # v /\ b # v /\ item[a] = item[b]
    BY <1>8, BeforeElements
  <2>2. Before(directory, a, b)
    BY <1>2, <1>5, WithoutOrder
  <2>3. Before(recent, b, a)
    BY <2>1, <2>2, ServedOrder DEF DirectoryInv, Served
  <2> QED
    BY <1>3, <1>5, <2>1, <2>3, WithoutOrder
<1>12. NewestServed'
  BY <1>11, ServedOrder
<1>13. DirectoryTypeOK'
  <2>1. Blank \in Paths
    BY DirectoryAssumption DEF Blank
  <2>2. item' \in [Items -> Paths]
    BY <1>1, <1>5, <2>1
  <2>3. Size[item[v]] \in Nat
    BY <1>5, <1>6, DirectoryAssumption
  <2>4. bytes' \in Int
    BY <1>1, <1>5, <2>3
  <2> QED
    BY <1>4, <1>7, <2>2, <2>4 DEF DirectoryInv, DirectoryTypeOK
<1>14. Knows(t)'
  BY <1>4, <1>5 DEF Knows
<1> QED
  BY <1>4, <1>5, <1>9, <1>12, <1>13, <1>14, WriterMoves

\* cache_store puts the new entry before all others, and stamps it last.
LEMMA StoreDirectory ==
  ASSUME DirectoryInv, pc \in [Threads -> Labels], NEW t \in Threads, Store(t)
  PROVE  DirectoryInv'
<1> DEFINE x == Allocated
           e == path[t]
<1>1. /\ pc[t] = "evict" /\ Free # {} /\ item' = [item EXCEPT ![x] = e]
      /\ directory' = <<x>> \o directory /\ recent' = Append(recent, x)
      /\ bytes' = bytes + Size[path[t]] /\ dav_lock' = Nobody /\ Return(t)
  BY DEF Store
<1>2. x \in Items /\ x \notin Elements(directory)
  BY <1>1 DEF Allocated, Free
<1>3. /\ directory \in Seq(Items) /\ recent \in Seq(Items)
      /\ Distinct(directory) /\ Distinct(recent) /\ Elements(directory) = Elements(recent)
      /\ dav_lock = t /\ bytes \in Int /\ path[t] \in Paths
      /\ item \in [Items -> Paths]
  BY <1>1 DEF DirectoryInv, DirectoryTypeOK, ListingInv, Knows, SameEntries
<1>4. e \in Paths
  BY <1>3
<1> HIDE DEF x, e
<1>5. /\ directory' \in Seq(Items) /\ Distinct(directory')
      /\ Elements(directory') = Elements(directory) \cup {x}
      /\ \A a, b : Before(directory', a, b) =>
           Before(directory, a, b) \/ (a = x /\ b \in Elements(directory))
  BY <1>1, <1>2, <1>3, HeadOrder
<1>6. /\ recent' \in Seq(Items) /\ Distinct(recent')
      /\ Elements(recent') = Elements(recent) \cup {x}
      /\ \A a, b : Before(recent, a, b) => Before(recent', a, b)
      /\ \A a \in Elements(recent) : Before(recent', a, x)
  BY <1>1, <1>2, <1>3, AppendOrder
<1>7. /\ \A a \in Elements(directory) : item'[a] = item[a]
      /\ item'[x] = e
  <2>1. \A a \in Elements(directory) : a \in Items /\ a # x
    BY <1>2, <1>3 DEF Elements
  <2> QED
    BY <1>1, <1>2, <1>3, <2>1
<1>8. SameEntries'
  BY <1>3, <1>5, <1>6 DEF SameEntries, Distinct, Elements
<1>10. Served(directory', recent', item')
  <2> SUFFICES ASSUME NEW a, NEW b, Before(directory', a, b), item'[a] = item'[b]
               PROVE  Before(recent', b, a)
    BY DEF Served
  <2>1. CASE Before(directory, a, b)
    <3>1. a \in Elements(directory) /\ b \in Elements(directory)
      BY <2>1, BeforeElements
    <3>2. Before(recent, b, a)
      BY <1>7, <2>1, <3>1, ServedOrder DEF DirectoryInv, Served
    <3> QED
      BY <1>6, <3>2
  <2>2. CASE a = x /\ b \in Elements(directory)
    BY <1>3, <1>6, <2>2
  <2> QED
    BY <1>5, <2>1, <2>2
<1>11. NewestServed'
  BY <1>10, ServedOrder
<1>12. dav_lock' # t
  BY <1>1, Constants
<1>13. DirectoryTypeOK'
  <2>1. item' \in [Items -> Paths]
    BY <1>1, <1>2, <1>3, <1>4
  <2>2. bytes' \in Int
    BY <1>1, <1>3, DirectoryAssumption
  <2> QED
    BY <1>1, <1>5, <1>6, <1>12, <2>1, <2>2, ReturnKnows DEF DirectoryInv, DirectoryTypeOK
<1> QED
  BY <1>1, <1>3, <1>8, <1>11, <1>12, <1>13, ReturnKnows, WriterMoves

-----------------------------------------------------------------------------
(* The calls, as the resolver sees them.                                   *)

\* A step that leaves the resolver and the threads' places alone.
LEMMA ResolverQuiet ==
  ASSUME ResolverInv, UNCHANGED <<resolver, pc>>
  PROVE  ResolverInv'
<1>1. UNCHANGED <<dns_server, cache, dns_mutex, host, asked, tries, overtaken, pc>>
  BY DEF resolver, query
<1>2. ResolverTypeOK'
  BY <1>1 DEF ResolverInv, ResolverTypeOK
<1>3. QueryInv'
  BY <1>1 DEF ResolverInv, QueryInv, Cached
<1>4. FreshAddresses' /\ OneAddressPerHost'
  BY <1>1 DEF ResolverInv, FreshAddresses, OneAddressPerHost
<1> QED
  BY <1>2, <1>3, <1>4 DEF ResolverInv

\* The callers and the listing change no more of it than the host of the call.
LEMMA ListingResolver ==
  ASSUME ResolverInv, pc \in [Threads -> Labels], NEW t \in Threads,
         DirOpen(t) \/ OpenFile(t) \/ Listing(t)
  PROVE  ResolverInv' /\ pc' \in [Threads -> Labels]
<1>h. host \in [Threads -> Hosts \cup {"none"}]
  BY DEF ResolverInv, ResolverTypeOK
<1> USE DEF Labels
<1>1. CASE Evict(t)
  BY <1>1, ResolverQuiet DEF Evict
<1>2. CASE \/ DirOpen(t) \/ CacheHit(t) \/ CopyFails(t) \/ BodyEnds(t) \/ ReadFails(t)
           \/ ListRead(t) \/ StoreLocks(t)
  <2>1. PICK label \in {"copy", "memcpy", "failed", "parse", "store", "evict"} : Goto(t, label)
    BY <1>2 DEF DirOpen, CacheHit, CopyFails, BodyEnds, ReadFails, ListRead, StoreLocks
  <2>2. pc[t] # "query" /\ UNCHANGED resolver
    BY <1>2 DEF DirOpen, CacheHit, CopyFails, BodyEnds, ReadFails, ListRead, StoreLocks
  <2>3. ResolverInv'
    BY <1>h, <2>1, <2>2, ResolverStays DEF resolver, query
  <2> QED
    BY <2>1, <2>3 DEF Goto
<1>3. CASE OpenFile(t) \/ CacheMiss(t)
  <2>1. PICK h \in Hosts : host' = [host EXCEPT ![t] = h]
    BY <1>3, Constants DEF OpenFile, CacheMiss
  <2>2. /\ pc[t] # "query" /\ Goto(t, "resolve")
        /\ UNCHANGED <<dns_server, cache, dns_mutex, query, overtaken>>
    BY <1>3 DEF OpenFile, CacheMiss
  <2>3. ResolverInv'
    BY <1>h, <2>1, <2>2, ResolverStays
  <2> QED
    BY <2>2, <2>3 DEF Goto
<1>4. CASE \/ CacheCopied(t) \/ StoreSkipped(t) \/ StoreGivesUp(t) \/ Store(t)
           \/ FileOpened(t) \/ Failure(t)
  <2>1. pc[t] # "query" /\ Return(t)
    BY <1>4 DEF CacheCopied, StoreSkipped, StoreGivesUp, Store, FileOpened, Failure
  <2>2. /\ Goto(t, "idle") /\ host' = [host EXCEPT ![t] = "none"]
        /\ UNCHANGED <<dns_server, cache, dns_mutex, query, overtaken>>
    BY <2>1 DEF Return
  <2>3. ResolverInv'
    BY <1>h, <2>1, <2>2, ResolverStays
  <2> QED
    BY <2>2, <2>3 DEF Goto
<1> QED
  BY <1>1, <1>2, <1>3, <1>4 DEF Listing

\* A new lease leaves the directories alone.
LEMMA LeaseInv ==
  ASSUME ResolverInv, DirectoryInv, pc \in [Threads -> Labels], NewLease
  PROVE  ResolverInv' /\ DirectoryInv' /\ pc' \in [Threads -> Labels]
<1>1. PICK server \in Servers \cup {"none"} : DnsSetServer(server)
  BY DEF NewLease
<1>2. ResolverInv' /\ UNCHANGED pc
  BY <1>1, FlushInv DEF DnsSetServer
<1>3. UNCHANGED <<dircache, dav_lock, path, copying>>
  BY DEF NewLease, listing
<1>4. ASSUME NEW t \in Threads PROVE Knows(t)'
  BY <1>2, <1>3 DEF DirectoryInv, ListingInv, Knows, Found, dircache
<1>5. DirectoryTypeOK' /\ ListingInv'
  BY <1>3, <1>4 DEF DirectoryInv, DirectoryTypeOK, ListingInv, dircache
<1> QED
  BY <1>2, <1>3, <1>5, CacheStays DEF DirectoryInv

-----------------------------------------------------------------------------

\* Both invariants together, and the places of the threads.
Inv == ResolverInv /\ pc \in [Threads -> Labels] /\ DirectoryInv

\* The caches are empty and nobody is in a call.
LEMMA InitInv == Init => Inv
<1> SUFFICES ASSUME Init PROVE Inv
  OBVIOUS
<1> USE DEF Init, ResolverInit
<1>1. ResolverInv
  <2>1. ResolverTypeOK
    BY Constants DEF ResolverTypeOK, Nobody
  <2>2. QueryInv
    BY Constants DEF QueryInv
  <2>3. FreshAddresses /\ OneAddressPerHost
    BY DEF FreshAddresses, OneAddressPerHost
  <2> QED
    BY <2>1, <2>2, <2>3 DEF ResolverInv
<1>2. pc \in [Threads -> Labels]
  BY DEF Labels
<1>3. DirectoryInv
  <2>1. DirectoryTypeOK
    BY Constants, DirectoryAssumption DEF DirectoryTypeOK, Blank
  <2>2. ListingInv
    BY Constants DEF ListingInv, Knows
  <2>3. SameEntries /\ NewestServed
    BY DEF SameEntries, Distinct, Elements, NewestServed
  <2> QED
    BY <2>1, <2>2, <2>3 DEF DirectoryInv
<1> QED
  BY <1>1, <1>2, <1>3 DEF Inv

LEMMA NextInv == Inv /\ [Next]_vars => Inv'
<1> SUFFICES ASSUME Inv, [Next]_vars PROVE Inv'
  OBVIOUS
<1>i. ResolverInv /\ pc \in [Threads -> Labels] /\ DirectoryInv
  BY DEF Inv
<1>1. CASE NewLease
  BY <1>i, <1>1, LeaseInv DEF Inv
<1>2. ASSUME NEW t \in Threads, DirOpen(t) \/ OpenFile(t) \/ Listing(t) PROVE Inv'
  <2>1. ResolverInv' /\ pc' \in [Threads -> Labels]
    BY <1>i, <1>2, ListingResolver
  <2>2. DirectoryInv'
    BY <1>i, <1>2, QuietDirectory, CopiedDirectory, EvictDirectory, StoreDirectory DEF Listing
  <2> QED
    BY <2>1, <2>2 DEF Inv
<1>3. ASSUME NEW t \in Threads, Resolving(t) PROVE Inv'
  BY <1>i, <1>3, ResolvingInv, ResolvingDirectory DEF Inv
<1>4. CASE UNCHANGED vars
  <2>1. UNCHANGED <<resolver, pc, dircache, dav_lock, path, copying>>
    BY <1>4 DEF vars, listing
  <2>2. ResolverInv'
    BY <1>i, <2>1, ResolverQuiet
  <2>3. ASSUME NEW t \in Threads PROVE Knows(t)'
    BY <1>i, <2>1 DEF DirectoryInv, ListingInv, Knows, Found, dircache
  <2>4. DirectoryTypeOK' /\ ListingInv'
    BY <1>i, <2>1, <2>3 DEF DirectoryInv, DirectoryTypeOK, ListingInv, dircache
  <2>5. DirectoryInv'
    BY <1>i, <2>1, <2>4, CacheStays DEF DirectoryInv
  <2> QED
    BY <1>i, <2>1, <2>2, <2>5 DEF Inv
<1> QED
  BY <1>1, <1>2, <1>3, <1>4 DEF Next

\* The inductive invariant of dav_diropen and of the resolver below it.
THEOREM DirectoryInvariance == Spec => []Inv
<1>1. Init => Inv
  BY InitInv
<1>2. Inv /\ [Next]_vars => Inv'
  BY NextInv
<1> QED
  BY <1>1, <1>2, PTL DEF Spec

\* The caches, the locks and the threads' variables keep their types, and the
\* resolver's table its bound.
THEOREM DirectoryTypes == Spec => []TypeOK
<1>1. Inv => TypeOK
  BY DEF Inv, ResolverInv, DirectoryInv, TypeOK
<1> QED
  BY <1>1, DirectoryInvariance, PTL

\* No flush and no new lease is outrun by a query: every address in the cache
\* of dns.c is from the current lease's server, and asked for since.
THEOREM AddressesFresh == Spec => []FreshAddresses
<1>1. Inv => FreshAddresses
  BY DEF Inv, ResolverInv
<1> QED
  BY <1>1, DirectoryInvariance, PTL

\* However many threads miss a name, dns.c holds one address for it.
THEOREM AddressesUnique == Spec => []OneAddressPerHost
<1>1. Inv => OneAddressPerHost
  BY DEF Inv, ResolverInv
<1> QED
  BY <1>1, DirectoryInvariance, PTL

\* What cache_copy copies from is not freed under it.
THEOREM CopyLive == Spec => []CopyIsLive
<1>1. ASSUME Inv PROVE CopyIsLive
  <2> SUFFICES ASSUME NEW t \in Threads, pc[t] = "memcpy"
               PROVE  /\ copying[t] \in Elements(directory) /\ item[copying[t]] = path[t]
                      /\ \A u \in Threads \ {t} : pc[u] \notin {"memcpy", "evict"}
    BY DEF CopyIsLive
  <2>1. dav_lock = t /\ copying[t] \in Found(path[t])
    BY <1>1 DEF Inv, DirectoryInv, ListingInv, Knows
  <2>2. \A u \in Threads \ {t} : pc[u] \notin {"memcpy", "evict"}
    BY <1>1, <2>1 DEF Inv, DirectoryInv, ListingInv, Knows
  <2>3. copying[t] \in Elements(directory) /\ item[copying[t]] = path[t]
    BY <2>1 DEF Found, Elements
  <2> QED
    BY <2>2, <2>3
<1> QED
  BY <1>1, DirectoryInvariance, PTL

\* However many threads there are, they cannot come to wait for each other over
\* dav_lock and dns_mutex: what DirOpenReturns rests on besides the scheduler.
THEOREM NoLockCycle == Spec => []HoldersGoOn
<1>1. ASSUME Inv PROVE HoldersGoOn
  <2> SUFFICES ASSUME NEW t \in Threads, t \in {dav_lock, dns_mutex}
               PROVE  dav_lock # dns_mutex /\ pc[t] \notin {"copy", "store", "resolve", "flush"}
    BY DEF HoldersGoOn
  <2>1. dav_lock = t <=> pc[t] \in {"memcpy", "evict"}
    BY <1>1 DEF Inv, DirectoryInv, ListingInv, Knows
  <2>2. dns_mutex = t <=> pc[t] = "query"
    BY <1>1 DEF Inv, ResolverInv, QueryInv
  <2> QED
    BY <2>1, <2>2
<1> QED
  BY <1>1, DirectoryInvariance, PTL

\* A directory does not fall back to the older of two listings.
THEOREM ServesNewest == Spec => []NewestServed
<1>1. Inv => NewestServed
  BY DEF Inv, DirectoryInv
<1> QED
  BY <1>1, DirectoryInvariance, PTL

-----------------------------------------------------------------------------
(* The root.                                                               *)

\* cache_copy finds an entry of a path whenever the list has one.
First(dir, it, p) ==
  {dir[i] : i \in {j \in 1 .. Len(dir) : /\ it[dir[j]] = p
                                         /\ \A k \in 1 .. j - 1 : it[dir[k]] # p}}

LEMMA FirstExists ==
  ASSUME NEW dir \in Seq(Items), NEW it, NEW p
  PROVE  First(dir, it, p) # {} <=> \E a \in Elements(dir) : it[a] = p
<1> DEFINE n == Len(dir)
           S == {j \in 1 .. n : it[dir[j]] = p}
<1>0. n \in Nat
  OBVIOUS
<1>1. ASSUME First(dir, it, p) # {} PROVE \E a \in Elements(dir) : it[a] = p
  BY <1>1 DEF First, Elements
<1>2. ASSUME NEW a \in Elements(dir), it[a] = p PROVE First(dir, it, p) # {}
  <2>1. S # {} /\ S \subseteq Nat
    BY <1>0, <1>2 DEF Elements
  <2>2. PICK j \in S : \A k \in S : j <= k
    <3> HIDE DEF S
    <3> QED
      BY <2>1, LeastNatural
  <2>3. ASSUME NEW k \in 1 .. j - 1 PROVE it[dir[k]] # p
    <3>1. k \in 1 .. n /\ ~(j <= k)
      BY <1>0, <2>2
    <3> QED
      BY <2>2, <3>1
  <2>4. dir[j] \in First(dir, it, p)
    BY <2>2, <2>3 DEF First
  <2> QED
    BY <2>4
<1> QED
  BY <1>1, <1>2

\* Only Evict takes an entry out of the list, and never the root's.
LEMMA RootKept ==
  ASSUME Inv, [Next]_vars, Found(Root) # {}
  PROVE  Found(Root)' # {}
<1>1. directory \in Seq(Items) /\ item \in [Items -> Paths]
  BY DEF Inv, DirectoryInv, DirectoryTypeOK
<1>2. directory' \in Seq(Items)
  BY NextInv DEF Inv, DirectoryInv, DirectoryTypeOK
<1>3. Found(Root) = First(directory, item, Root) /\ Found(Root)' = First(directory', item', Root)
  BY DEF Found, First
<1>4. PICK a \in Elements(directory) : item[a] = Root
  BY <1>1, <1>3, FirstExists
<1>a. a \in Items
  BY <1>1 DEF Elements
<1>5. CASE UNCHANGED <<directory, item>>
  BY <1>3, <1>5
<1>6. ASSUME NEW t \in Threads, Evict(t) PROVE a \in Elements(directory') /\ item'[a] = Root
  <2>1. PICK v \in Victims :
          /\ \E i \in {j \in 1 .. Len(directory) : directory[j] = v} :
               directory' = Without(directory, i)
          /\ item' = [item EXCEPT ![v] = Blank]
    BY <1>6 DEF Evict
  <2>2. PICK i \in 1 .. Len(directory) : directory[i] = v /\ directory' = Without(directory, i)
    BY <2>1
  <2>3. item[v] # Root
    BY <2>1 DEF Victims
  <2>4. a # v
    BY <1>4, <2>3
  <2>5. Elements(directory') = Elements(directory) \ {v}
    BY <1>1, <2>2, WithoutElements DEF Inv, DirectoryInv, SameEntries
  <2>6. item'[a] = item[a]
    BY <1>1, <1>a, <2>1, <2>4
  <2> QED
    BY <1>4, <2>4, <2>5, <2>6
<1>7. ASSUME NEW t \in Threads, Store(t) PROVE a \in Elements(directory') /\ item'[a] = Root
  <2>1. /\ directory' = <<Allocated>> \o directory /\ Free # {}
        /\ item' = [item EXCEPT ![Allocated] = path[t]]
    BY <1>7 DEF Store
  <2>2. Allocated \in Items /\ Allocated \notin Elements(directory)
    BY <2>1 DEF Allocated, Free
  <2>3. Distinct(directory)
    BY DEF Inv, DirectoryInv, SameEntries
  <2> HIDE DEF Allocated
  <2>4. Elements(directory') = Elements(directory) \cup {Allocated}
    BY <1>1, <2>1, <2>2, <2>3, HeadOrder
  <2>5. item'[a] = item[a]
    BY <1>1, <1>a, <2>1, <2>2
  <2> QED
    BY <1>4, <2>4, <2>5
<1>8. CASE \E t \in Threads : Evict(t) \/ Store(t)
  <2>1. a \in Elements(directory') /\ item'[a] = Root
    BY <1>6, <1>7, <1>8
  <2> QED
    BY <1>2, <1>3, <2>1, FirstExists
<1>9. ASSUME ~\E t \in Threads : Evict(t) \/ Store(t) PROVE UNCHANGED <<directory, item>>
  <2>1. CASE NewLease \/ \E t \in Threads : DirOpen(t) \/ OpenFile(t) \/ Resolving(t)
    BY <2>1 DEF NewLease, DirOpen, OpenFile, Resolving, dircache
  <2>2. ASSUME NEW t \in Threads, Listing(t), ~Evict(t), ~Store(t)
        PROVE  UNCHANGED <<directory, item>>
    BY <2>2 DEF Listing, CacheMiss, CacheHit, CacheCopied, CopyFails, BodyEnds, ReadFails, ListRead,
                StoreSkipped, StoreLocks, StoreGivesUp, FileOpened, Failure, dircache
  <2>3. CASE UNCHANGED vars
    BY <2>3 DEF vars, dircache
  <2> QED
    BY <1>9, <2>1, <2>2, <2>3 DEF Next
<1> QED
  BY <1>5, <1>8, <1>9

\* "keep it for the whole run": no eviction and no store loses the root.
THEOREM RootKeeps == Spec => RootStays
<1>1. Inv /\ [Next]_vars => (Found(Root) # {} => Found(Root)' # {})
  BY RootKept
<1> QED
  BY <1>1, DirectoryInvariance, PTL DEF Spec, RootStays
-----------------------------------------------------------------------------
(* The byte counter: the running totals of a list that loses an entry, or  *)
(* gets one at its head.                                                   *)

\* f is the running totals of the sizes w of n entries, none above limit.
RunningTotals(f, n, w, limit) ==
  /\ f \in [0 .. n -> 0 .. limit]
  /\ f[0] = 0
  /\ \A k \in 1 .. n : f[k] = f[k - 1] + w[k]

\* v is w with x before it, or without its i-th entry.
SizesHead(v, w, n, x)    == \A k \in 1 .. n + 1 : v[k] = IF k = 1 THEN x ELSE w[k - 1]
SizesWithout(v, w, n, i) == \A k \in 1 .. n - 1 : v[k] = IF k < i THEN w[k] ELSE w[k + 1]

\* Running totals grow: there is no first step back.
LEMMA TotalsGrow ==
  ASSUME NEW n \in Nat, NEW limit \in Nat, NEW w \in [1 .. n -> Nat], NEW f,
         RunningTotals(f, n, w, limit), NEW i \in 0 .. n, NEW j \in i .. n
  PROVE  f[i] <= f[j]
<1> DEFINE S == {d \in Nat : i + d <= n /\ ~(f[i] <= f[i + d])}
<1>1. \A k \in 0 .. n : f[k] \in Nat
  BY DEF RunningTotals
<1>2. S = {}
  <2> SUFFICES ASSUME S # {} PROVE FALSE
    OBVIOUS
  <2>1. PICK d \in S : \A e \in S : d <= e
    BY LeastNatural
  <2>2. d \in Nat /\ i \in Nat /\ i + d <= n /\ ~(f[i] <= f[i + d]) /\ i + 0 = i
    BY <2>1
  <2>3. d # 0
    BY <1>1, <2>2
  <2>4. d - 1 \in Nat /\ i + (d - 1) \in 0 .. n /\ ~(d <= d - 1) /\ i + d \in 1 .. n
        /\ (i + d) - 1 = i + (d - 1)
    BY <2>2, <2>3
  <2>5. f[i] <= f[i + (d - 1)]
    <3>1. d - 1 \notin S
      BY <2>1, <2>4
    <3>2. i + (d - 1) <= n
      BY <2>4
    <3> QED
      BY <2>4, <3>1, <3>2
  <2>6. f[i + d] = f[i + (d - 1)] + w[i + d] /\ w[i + d] \in Nat
    BY <2>4 DEF RunningTotals
  <2> QED
    BY <1>1, <2>2, <2>4, <2>5, <2>6
<1>3. j - i \in Nat /\ i + (j - i) = j /\ j <= n
  OBVIOUS
<1>4. f[i] <= f[i + (j - i)]
  BY <1>2, <1>3
<1> QED
  BY <1>3, <1>4

\* The totals of a list with a new entry of size x at its head.
LEMMA TotalsHead ==
  ASSUME NEW n \in Nat, NEW limit \in Nat, NEW w \in [1 .. n -> Nat], NEW f,
         RunningTotals(f, n, w, limit), NEW x \in Nat, f[n] + x <= limit,
         NEW v, SizesHead(v, w, n, x)
  PROVE  \E g : RunningTotals(g, n + 1, v, limit) /\ g[n + 1] = f[n] + x
<1> DEFINE g == [k \in 0 .. n + 1 |-> IF k = 0 THEN 0 ELSE x + f[k - 1]]
<1> USE DEF SizesHead
<1>1. f[0] = 0 /\ \A k \in 0 .. n : f[k] \in Nat
  BY DEF RunningTotals
<1>2. \A k \in 0 .. n : f[k] <= f[n]
  <2>1. TAKE k \in 0 .. n
  <2>2. n \in k .. n
    OBVIOUS
  <2> QED
    BY <2>2, TotalsGrow
<1>3. ASSUME NEW k \in 0 .. n + 1 PROVE g[k] \in 0 .. limit
  <2>1. CASE k = 0
    BY <2>1
  <2>2. CASE k # 0
    <3>1. k - 1 \in 0 .. n /\ g[k] = x + f[k - 1]
      BY <2>2
    <3>2. n \in 0 .. n
      OBVIOUS
    <3> QED
      BY <1>1, <1>2, <3>1, <3>2
  <2> QED
    BY <2>1, <2>2
<1>4. g \in [0 .. n + 1 -> 0 .. limit]
  BY <1>3
<1>5. g[0] = 0 /\ \A k \in 1 .. n + 1 : g[k] = x + f[k - 1]
  OBVIOUS
<1> HIDE DEF g
<1>6. ASSUME NEW k \in 1 .. n + 1 PROVE g[k] = g[k - 1] + v[k]
  <2>1. CASE k = 1
    BY <1>1, <1>5, <2>1
  <2>2. CASE k # 1
    <3>1. k - 1 \in 1 .. n /\ k - 1 \in 1 .. n + 1 /\ (k - 1) - 1 \in 0 .. n
      BY <2>2
    <3>2. f[k - 1] = f[(k - 1) - 1] + w[k - 1] /\ w[k - 1] \in Nat
      BY <3>1 DEF RunningTotals
    <3>3. g[k] = x + f[k - 1] /\ g[k - 1] = x + f[(k - 1) - 1] /\ v[k] = w[k - 1]
      BY <1>5, <2>2, <3>1
    <3> QED
      BY <1>1, <3>1, <3>2, <3>3
  <2> QED
    BY <2>1, <2>2
<1>7. RunningTotals(g, n + 1, v, limit)
  BY <1>4, <1>5, <1>6 DEF RunningTotals
<1>8. g[n + 1] = f[n] + x
  <2>1. n + 1 \in 1 .. n + 1 /\ (n + 1) - 1 = n /\ n \in 0 .. n
    OBVIOUS
  <2> QED
    BY <1>1, <1>5, <2>1
<1> QED
  BY <1>7, <1>8

\* The totals of a list without its i-th entry.
LEMMA TotalsWithout ==
  ASSUME NEW n \in Nat, NEW limit \in Nat, NEW w \in [1 .. n -> Nat], NEW f,
         RunningTotals(f, n, w, limit), NEW i \in 1 .. n,
         NEW v, SizesWithout(v, w, n, i)
  PROVE  \E g : RunningTotals(g, n - 1, v, limit) /\ g[n - 1] = f[n] - w[i]
<1> DEFINE g == [k \in 0 .. n - 1 |-> IF k < i THEN f[k] ELSE f[k + 1] - w[i]]
<1> USE DEF SizesWithout
<1>1. f[0] = 0 /\ \A k \in 0 .. n : f[k] \in Nat /\ f[k] <= limit
  BY DEF RunningTotals
<1>2. \A k \in 1 .. n : f[k] = f[k - 1] + w[k] /\ w[k] \in Nat
  BY DEF RunningTotals
<1>3. ASSUME NEW k \in 0 .. n - 1 PROVE g[k] \in 0 .. limit
  <2>1. CASE k < i
    <3>1. g[k] = f[k] /\ k \in 0 .. n
      BY <2>1
    <3> QED
      BY <1>1, <3>1
  <2>2. CASE ~(k < i)
    <3>1. g[k] = f[k + 1] - w[i] /\ i \in 0 .. n /\ k + 1 \in i .. n /\ k + 1 \in 0 .. n
          /\ i - 1 \in 0 .. n
      BY <2>2
    <3>2. f[i] <= f[k + 1]
      BY <3>1, TotalsGrow
    <3>3. f[i] = f[i - 1] + w[i] /\ w[i] \in Nat
      BY <1>2
    <3>4. f[i - 1] \in Nat /\ f[k + 1] \in Nat /\ f[k + 1] <= limit
      BY <1>1, <3>1
    <3>5. f[k + 1] - w[i] \in 0 .. limit
      BY <3>2, <3>3, <3>4
    <3> HIDE DEF g
    <3> QED
      BY <3>1, <3>5
  <2> QED
    BY <2>1, <2>2
<1>4. g \in [0 .. n - 1 -> 0 .. limit]
  BY <1>3
<1>5. \A k \in 0 .. n - 1 : g[k] = IF k < i THEN f[k] ELSE f[k + 1] - w[i]
  OBVIOUS
<1> HIDE DEF g
<1>6. ASSUME NEW k \in 1 .. n - 1 PROVE g[k] = g[k - 1] + v[k]
  <2>0. k \in 0 .. n - 1 /\ k - 1 \in 0 .. n - 1 /\ k \in 1 .. n /\ k + 1 \in 1 .. n
        /\ (k + 1) - 1 = k /\ (k - 1) + 1 = k
    OBVIOUS
  <2>1. CASE k < i
    <3>1. k - 1 < i
      BY <2>1
    <3>2. g[k] = f[k] /\ g[k - 1] = f[k - 1] /\ v[k] = w[k]
      BY <1>5, <2>0, <2>1, <3>1
    <3> QED
      BY <1>2, <2>0, <3>2
  <2>2. CASE k = i
    <3>1. g[k] = f[k + 1] - w[i] /\ g[k - 1] = f[k - 1] /\ v[k] = w[k + 1]
      BY <1>5, <2>0, <2>2
    <3>2. f[k + 1] = f[k] + w[k + 1] /\ f[k] = f[k - 1] + w[k] /\ w[k] \in Nat /\ w[k + 1] \in Nat
      BY <1>2, <2>0
    <3>3. f[k - 1] \in Nat
      BY <1>1, <2>0
    <3> QED
      BY <2>2, <3>1, <3>2, <3>3
  <2>3. CASE k > i
    <3>1. g[k] = f[k + 1] - w[i] /\ g[k - 1] = f[k] - w[i] /\ v[k] = w[k + 1]
      BY <1>5, <2>0, <2>3
    <3>2. f[k + 1] = f[k] + w[k + 1] /\ w[k + 1] \in Nat /\ w[i] \in Nat /\ f[k] \in Nat
      BY <1>1, <1>2, <2>0
    <3> QED
      BY <3>1, <3>2
  <2> QED
    BY <2>1, <2>2, <2>3
<1>7. g[0] = 0
  <2>1. 0 \in 0 .. n - 1 /\ 0 < i
    OBVIOUS
  <2> QED
    BY <1>1, <1>5, <2>1
<1>8. RunningTotals(g, n - 1, v, limit)
  BY <1>4, <1>6, <1>7 DEF RunningTotals
<1>9. g[n - 1] = f[n] - w[i]
  <2>0. n - 1 \in 0 .. n - 1 /\ (n - 1) + 1 = n
    OBVIOUS
  <2>1. CASE n - 1 < i
    <3>1. i = n /\ g[n - 1] = f[n - 1]
      BY <1>5, <2>0, <2>1
    <3>2. f[n] = f[n - 1] + w[n] /\ w[n] \in Nat /\ f[n - 1] \in Nat
      BY <1>1, <1>2, <3>1
    <3> QED
      BY <3>1, <3>2
  <2>2. CASE ~(n - 1 < i)
    BY <1>5, <2>0, <2>2
  <2> QED
    BY <2>1, <2>2
<1> QED
  BY <1>8, <1>9

\* The size of each entry of a list.
Sizes(dir, it) == [k \in 1 .. Len(dir) |-> Size[it[dir[k]]]]

\* BytesCounted in terms of running totals.
LEMMA CountedTotals ==
  /\ BytesCounted <=> \E f : /\ RunningTotals(f, Len(directory), Sizes(directory, item), Limit)
                             /\ bytes = f[Len(directory)]
  /\ BytesCounted' <=> \E f : /\ RunningTotals(f, Len(directory'), Sizes(directory', item'), Limit)
                              /\ bytes' = f[Len(directory')]
<1>1. BytesCounted <=> \E f : /\ RunningTotals(f, Len(directory), Sizes(directory, item), Limit)
                              /\ bytes = f[Len(directory)]
  BY DEF BytesCounted, Totals, RunningTotals, Sizes
<1>2. BytesCounted' <=> \E f :
        /\ RunningTotals(f, Len(directory'), Sizes(directory', item'), Limit)
        /\ bytes' = f[Len(directory')]
  BY DEF BytesCounted, Totals, RunningTotals, Sizes
<1> QED
  BY <1>1, <1>2

\* The sizes of the entries are natural numbers.
LEMMA SizesNat ==
  ASSUME DirectoryInv
  PROVE  /\ Len(directory) \in Nat
         /\ Sizes(directory, item) \in [1 .. Len(directory) -> Nat]
<1>1. directory \in Seq(Items) /\ item \in [Items -> Paths]
  BY DEF DirectoryInv, DirectoryTypeOK
<1>2. ASSUME NEW k \in 1 .. Len(directory) PROVE Size[item[directory[k]]] \in Nat
  <2>1. directory[k] \in Items
    BY <1>1
  <2>2. item[directory[k]] \in Paths
    BY <1>1, <2>1
  <2> QED
    BY <2>2, DirectoryAssumption
<1> QED
  BY <1>1, <1>2 DEF Sizes

\* cache_remove: the counter goes down by what the victim takes.
LEMMA EvictCounted ==
  ASSUME DirectoryInv, BytesCounted, NEW t \in Threads, Evict(t)
  PROVE  BytesCounted'
<1> DEFINE n == Len(directory)
           w == Sizes(directory, item)
           v == Sizes(directory', item')
<1>1. PICK x \in Victims :
        /\ \E i \in {j \in 1 .. Len(directory) : directory[j] = x} :
             directory' = Without(directory, i)
        /\ bytes' = bytes - Size[item[x]] /\ item' = [item EXCEPT ![x] = Blank]
  BY DEF Evict
<1>2. PICK i \in 1 .. n : directory[i] = x /\ directory' = Without(directory, i)
  BY <1>1
<1>3. /\ directory \in Seq(Items) /\ Distinct(directory)
      /\ item \in [Items -> Paths]
  BY DEF DirectoryInv, DirectoryTypeOK, SameEntries
<1>4. /\ Len(directory') = n - 1
      /\ \A k \in 1 .. n - 1 : directory'[k] = IF k < i THEN directory[k] ELSE directory[k + 1]
  BY <1>2, <1>3, WithoutEntry
<1>5. n \in Nat /\ w \in [1 .. n -> Nat] /\ Limit \in Nat
  BY SizesNat, DirectoryAssumption
<1>6. PICK f : RunningTotals(f, n, w, Limit) /\ bytes = f[n]
  BY CountedTotals
<1>7. ASSUME NEW k \in 1 .. n, k # i PROVE item'[directory[k]] = item[directory[k]]
  <2>1. directory[k] # x /\ directory[k] \in Items
    BY <1>2, <1>3, <1>7 DEF Distinct
  <2> QED
    BY <1>1, <1>3, <2>1
<1>8. ASSUME NEW k \in 1 .. n - 1 PROVE v[k] = IF k < i THEN w[k] ELSE w[k + 1]
  <2>0. k \in 1 .. n /\ k + 1 \in 1 .. n /\ k \in 1 .. Len(directory')
    BY <1>4, <1>5
  <2>1. v[k] = Size[item'[directory'[k]]]
    BY <2>0 DEF Sizes
  <2>2. w[k] = Size[item[directory[k]]] /\ w[k + 1] = Size[item[directory[k + 1]]]
    BY <2>0 DEF Sizes
  <2>3. CASE k < i
    <3>1. directory'[k] = directory[k] /\ k # i
      BY <1>4, <1>5, <2>3
    <3> QED
      BY <1>7, <2>0, <2>1, <2>2, <2>3, <3>1
  <2>4. CASE ~(k < i)
    <3>1. directory'[k] = directory[k + 1] /\ k + 1 # i
      BY <1>4, <1>5, <2>4
    <3> QED
      BY <1>7, <2>0, <2>1, <2>2, <2>4, <3>1
  <2> QED
    BY <2>3, <2>4
<1>9. w[i] = Size[item[x]]
  BY <1>2 DEF Sizes
<1> HIDE DEF n, w, v
<1>10. \E g : RunningTotals(g, n - 1, v, Limit) /\ g[n - 1] = f[n] - w[i]
  <2>1. SizesWithout(v, w, n, i)
    BY <1>8 DEF SizesWithout
  <2> QED
    BY <1>2, <1>5, <1>6, <2>1, TotalsWithout
<1> QED
  BY <1>1, <1>4, <1>6, <1>9, <1>10, CountedTotals DEF v

\* cache_store: the counter goes up by what the new entry takes, and the test
\* before it keeps every total within the limit.
LEMMA StoreCounted ==
  ASSUME DirectoryInv, BytesCounted, NEW t \in Threads, Store(t)
  PROVE  BytesCounted'
<1> DEFINE n == Len(directory)
           w == Sizes(directory, item)
           v == Sizes(directory', item')
           a == Allocated
           size == Size[path[t]]
<1>1. /\ pc[t] = "evict" /\ bytes + size <= Limit /\ Free # {}
      /\ item' = [item EXCEPT ![a] = path[t]]
      /\ directory' = <<a>> \o directory /\ bytes' = bytes + size
  BY DEF Store
<1>2. a \in Items /\ a \notin Elements(directory)
  BY <1>1 DEF Allocated, Free
<1>3. /\ directory \in Seq(Items) /\ path[t] \in Paths
      /\ item \in [Items -> Paths]
  BY <1>1 DEF DirectoryInv, DirectoryTypeOK, ListingInv, Knows
<1>4. n \in Nat /\ w \in [1 .. n -> Nat] /\ Limit \in Nat /\ size \in Nat
  BY <1>3, SizesNat, DirectoryAssumption
<1>5. PICK f : RunningTotals(f, n, w, Limit) /\ bytes = f[n]
  BY CountedTotals
<1> HIDE DEF a
<1>6. /\ Len(directory') = n + 1 /\ directory'[1] = a
      /\ \A k \in 2 .. n + 1 : directory'[k] = directory[k - 1]
  BY <1>1, <1>2, <1>3
<1>7. item'[a] = path[t] /\ \A k \in 1 .. n : item'[directory[k]] = item[directory[k]]
  <2>1. \A k \in 1 .. n : directory[k] # a /\ directory[k] \in Items
    BY <1>2, <1>3 DEF Elements
  <2> QED
    BY <1>1, <1>2, <1>3, <2>1
<1>8. ASSUME NEW k \in 1 .. n + 1 PROVE v[k] = IF k = 1 THEN size ELSE w[k - 1]
  <2>1. v[k] = Size[item'[directory'[k]]]
    BY <1>6 DEF Sizes
  <2>2. CASE k = 1
    BY <1>6, <1>7, <2>1, <2>2
  <2>3. CASE k # 1
    <3>1. k \in 2 .. n + 1 /\ k - 1 \in 1 .. n
      BY <1>4, <2>3
    <3>2. directory'[k] = directory[k - 1] /\ item'[directory[k - 1]] = item[directory[k - 1]]
      BY <1>6, <1>7, <3>1
    <3>3. w[k - 1] = Size[item[directory[k - 1]]]
      BY <3>1 DEF Sizes
    <3> QED
      BY <2>1, <2>3, <3>2, <3>3
  <2> QED
    BY <2>2, <2>3
<1> HIDE DEF n, w, v, size
<1>9. \E g : RunningTotals(g, n + 1, v, Limit) /\ g[n + 1] = f[n] + size
  <2>1. SizesHead(v, w, n, size)
    BY <1>8 DEF SizesHead
  <2>2. f[n] + size <= Limit
    BY <1>1, <1>5
  <2> QED
    BY <1>4, <1>5, <2>1, <2>2, TotalsHead
<1> QED
  BY <1>1, <1>5, <1>6, <1>9, CountedTotals DEF v

\* No other step touches the list, its entries or the counter.
LEMMA NextCounted ==
  ASSUME Inv, BytesCounted, [Next]_vars
  PROVE  BytesCounted'
<1>1. ASSUME NEW t \in Threads, Evict(t) \/ Store(t) PROVE BytesCounted'
  BY <1>1, EvictCounted, StoreCounted DEF Inv
<1>2. CASE UNCHANGED <<directory, item, bytes>>
  BY <1>2 DEF BytesCounted, Totals
<1>3. CASE NewLease \/ UNCHANGED vars
  BY <1>2, <1>3 DEF NewLease, vars, dircache
<1>4. ASSUME NEW t \in Threads, DirOpen(t) \/ OpenFile(t) \/ Resolving(t) PROVE BytesCounted'
  BY <1>2, <1>4 DEF DirOpen, OpenFile, Resolving, dircache
<1>5. ASSUME NEW t \in Threads, Listing(t), ~Evict(t), ~Store(t) PROVE BytesCounted'
  BY <1>2, <1>5 DEF Listing, CacheMiss, CacheHit, CacheCopied, CopyFails, BodyEnds, ReadFails,
     ListRead, StoreSkipped, StoreLocks, StoreGivesUp, FileOpened, Failure, dircache
<1> QED
  BY <1>1, <1>3, <1>4, <1>5 DEF Next

\* The counter that decides about eviction never drifts from the list, whatever
\* is stored, evicted and stored again.
THEOREM BytesKept == Spec => []BytesCounted
<1>1. Init => BytesCounted
  <2> SUFFICES ASSUME Init PROVE BytesCounted
    OBVIOUS
  <2> DEFINE f == [k \in 0 .. 0 |-> 0]
  <2>1. directory = <<>> /\ bytes = 0 /\ Limit \in Nat /\ Len(directory) = 0
    BY DirectoryAssumption DEF Init
  <2>2. f \in [0 .. 0 -> 0 .. Limit] /\ f[0] = 0
    BY <2>1
  <2> HIDE DEF f
  <2>3. RunningTotals(f, 0, Sizes(directory, item), Limit)
    BY <2>2 DEF RunningTotals
  <2> QED
    BY <2>1, <2>2, <2>3, CountedTotals
<1>2. Inv /\ BytesCounted /\ [Next]_vars => BytesCounted'
  BY NextCounted
<1> QED
  BY <1>1, <1>2, DirectoryInvariance, PTL DEF Spec
=============================================================================
