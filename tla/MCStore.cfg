SPECIFICATION Spec
CONSTANTS
    d1 = d1
    d2 = d2
    s1 = s1
    neo = neo
    c1 = c1
    Keys <- OneKey
    Vals = {neo}
    NoVal = NoVal
    Dirs = {d1, d2}
    Snaps = {s1}
    Iters = {}
    Batches = {}
    Ckpts = {c1}
    Nil = Nil
    MaxCommits = 2
    MaxOps = 0
SYMMETRY DirSymmetry
INVARIANTS
    TypeOK
PROPERTIES
    ImplementsKVStore
