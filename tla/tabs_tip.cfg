CONSTANTS Url = {u1, u2, u3}  BFCACHE_CAP = 2  MaxTabs = 1  MaxLoads = 3  MaxActs = 4  MaxRequests = 1
SPECIFICATION Spec
INVARIANT NoneMeansTip
