CONSTANTS Url = {u1, u2}  BFCACHE_CAP = 2  MaxTabs = 4  MaxLoads = 3  MaxActs = 5  MaxRequests = 2
SPECIFICATION Spec
SYMMETRY UrlSymmetry
INVARIANTS TypeOK ScrollFollowsPage CacheUnambiguous
PROPERTIES ReloadFetches StripKept
