CONSTANTS
    Jobs = {j1, j2}
    Lists <- AioLists
    ReadSize = 2
    Modes <- AioMode
    QueueDepth = 2
    MaxReads = 2
SPECIFICATION Spec
INVARIANT AioReportsItsReads
