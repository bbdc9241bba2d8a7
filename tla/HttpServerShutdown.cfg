CONSTANTS
    c1 = c1
    c2 = c2
    Clients <- MCClients
    Requests <- MCRequests
    Malformed = malformed
    Plain <- MCPlain
    Encoded <- MCEncoded
    IdSpace = 1
    StopThread = "main"
SPECIFICATION Spec
SYMMETRY ClientSymmetry
INVARIANTS CleanShutdown
CHECK_DEADLOCK FALSE
