CONSTANTS
  Host = {"a", "b"}
  POOL_CAP = 2
  Site = {"a", "b", "c"}
  Preloaded = {"b"}
  Blocked = {"c"}
  Pages <- MCPages
  Cacheable <- MCCacheable
  max_redirects = 2
  THRESHOLD = 2
  max_bytes = 4
  MaxLayers = 2
  Label = {"e", "w", "a"}
  Cookies <- MCCookies
  Requests <- MCRequests
  MaxTime = 3
  Database = {"my db", "..."}
  DatabaseDir = {"d"}
  database_dir <- MCdatabase_dir
  Root = "/"
  ItemKey = {"k1", "k2"}
  Value = {"v1", "v2"}
  MaxCrashes = 1
  Item = {"short", "long"}
  size <- MCsize
  SESSION_STORAGE_BYTE_CAP = 4
  FileName = {"f", "g"}
  MaxWriters = 2
  MaxWrites = 1
  MaxInodes = 4
  Tab = {"p", "q"}
  Origin = {"x", "y"}
  CacheName = {"n", "n."}
  CacheDir = {"n"}
  cache_dir <- MCcache_dir
  Url = {"u"}
  Response = {"r"}
  WorkerHost = {"h", "-"}
  Hostless = "-"
  Script = {"u", "v"}
  Source = {"s", "t"}
SPECIFICATION FairSpec
INVARIANTS TypeOK LadderDescends PolicyHolds KeptWhole
PROPERTY RequestsEnd
CHECK_DEADLOCK FALSE
