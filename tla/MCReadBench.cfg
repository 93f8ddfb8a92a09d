SPECIFICATION FairSpec
CONSTANTS
    g1 = g1
    g2 = g2
    Workers = {g1, g2}
    BN <- Rounds
    Numbers <- TwoNumbers
    Sizes <- TwoSizes
    Kinds <- AllKinds
INVARIANTS
    TypeOK
    LookupsAddUp
    FoundIsPresent
    

    
