CONSTANTS
    c1 = c1
    c2 = c2
    Connections <- TwoConnections
    MaxMethod = 3
    MaxHeaders = 2
SPECIFICATION Spec
SYMMETRY ConnectionSymmetry
INVARIANTS TypeOK HeaderThere MethodIntact
CHECK_DEADLOCK FALSE
