CONSTANTS
    p1 = p1
    p2 = p2
    p3 = p3
    Pages <- TwoPages
    IdSpace = 3
    CppFunctions = {"print"}
    CallableNames = {"print", "missing"}
    MaxCalls = 1
    Logging = FALSE
SPECIFICATION Spec
SYMMETRY PageSymmetry
INVARIANTS LostClientReported
CHECK_DEADLOCK FALSE
