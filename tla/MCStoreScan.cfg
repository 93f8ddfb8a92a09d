SPECIFICATION Spec
CONSTANTS
    d1 = d1
    i1 = i1
    b1 = b1
    neo = neo
    Keys <- TwoKeys
    Vals = {neo}
    NoVal = NoVal
    Dirs = {d1}
    Snaps = {}
    Iters = {i1}
    Batches = {b1}
    Ckpts = {}
    Nil = Nil
    MaxCommits = 2
    MaxOps = 2
INVARIANTS
    ScanIsComplete
    
