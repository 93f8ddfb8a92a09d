SPECIFICATION Spec
CONSTANTS
    Keys = {k1, k2, k3, k4}
    N = 5
SYMMETRY KeySymmetry
INVARIANTS
    TypeOK
    
