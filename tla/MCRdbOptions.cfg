SPECIFICATION Spec
CONSTANTS
    Tables = {b1, b2}
    Opts = {o1}
    DBs = {d1}
    Caches = {k1}
    GoPolicies = {g1, g2}
    Values = {v1}
    None = None
    MaxPolicies = 2
    MaxBlocks = 3
SYMMETRY TableSymmetry
INVARIANTS
    TypeOK
    PolicyInUseIsLive
    CallbacksReachTheirPolicy
 
