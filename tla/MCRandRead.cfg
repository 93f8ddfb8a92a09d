CONSTANTS
    Jobs = {j1, j2}
    Lists <- SomeLists
    ReadSize = 2
    Modes <- AllModes
    QueueDepth = 2
    MaxReads = 4
SPECIFICATION FairSpec
INVARIANTS
    TypeOK
    HistogramNeverOvercounts
    EofNeedsAShorterFile
    AllCollected
PROPERTY Ends
