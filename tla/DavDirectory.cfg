SPECIFICATION FairSpec
CONSTANTS
  Threads = {"menu", "parse"}
  Hosts = {"dav", "radio", "art"}
  Servers = {"s1"}
  CACHE_N = 2
  DNS_TRIES = 2
  Openers = {"menu"}
  Items = {"i1", "i2"}
  Paths = {"/", "/a", "/huge"}
  Root = "/"
  Size <- MCSize
  Limit = 2
  DavHost = "dav"
INVARIANTS TypeOK FreshAddresses OneAddressPerHost CopyIsLive BytesCounted NewestServed
PROPERTIES RootStays DirOpenReturns
