SPECIFICATION StoreSpec
CONSTANTS
    Tables = {b1}
    Opts = {o1}
    DBs = {d1}
    Caches = {}
    GoPolicies = {}
    Values = {}
    None = None
    MaxPolicies = 1
    MaxBlocks = 1
    opt = o1
    blockopt = b1
    store = d1
INVARIANT OptContainsBlockopt
