SPECIFICATION Spec
CONSTANTS
    g1 = g1
    g2 = g2
    Workers = {g1, g2}
    BN <- OneRound
    Numbers <- TwoNumbers
    Sizes <- OneSize
    Kinds <- RocksOnly
INVARIANT
    SlicesAreFreed
