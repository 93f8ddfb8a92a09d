SPECIFICATION Spec
CONSTANTS
    Numbers <- TwoNumbers
    Sizes <- ThreeSizes
    Limit = 3
    VCap = 2
    MaxLoads = 2
    BN = 2
INVARIANTS
    TypeOK
    
    LoggedMeansRightSize
    BadgerSizesMatch
