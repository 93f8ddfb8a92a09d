SPECIFICATION Spec
CONSTANT MaxObjs = 5
INVARIANTS
    TypeOK
    
    SilentFaultsHaveThreeCauses
    
