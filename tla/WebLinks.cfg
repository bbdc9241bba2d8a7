CONSTANTS
    p1 = p1
    p2 = p2
    p3 = p3
    Pages <- ThreePages
    IdSpace = 2
    CppFunctions = {"print"}
    CallableNames = {"print", "missing"}
    MaxCalls = 1
    Logging = TRUE
SPECIFICATION Spec
SYMMETRY PageSymmetry
INVARIANTS TypeOK AckFirst ErrorsDieOut OneLinkEach
CHECK_DEADLOCK FALSE
