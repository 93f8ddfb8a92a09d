SPECIFICATION FairSpec
CONSTANTS
    w1 = w1
    w2 = w2
    Writers = {w1, w2}
    BatchLen = 2
    NumKeys = 5
    Kinds <- AllKinds
INVARIANTS
    TypeOK
    ClosedAfterWriters
    WroteIsExact
    RateWithinTotal
    ShownSurvivesSync
PROPERTIES
    ImplementsLoader
    Terminates
