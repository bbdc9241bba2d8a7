CONSTANTS
    c1 = c1
    c2 = c2
    Clients <- MCClients
    Requests <- MCRequests
    Malformed = malformed
    Plain <- MCPlain
    Encoded <- MCEncoded
    IdSpace = 1
    StopThread = "io"
SPECIFICATION OneThreadFairSpec
INVARIANTS TypeOK OneOperation HandedOver ServerSurvives StopClosesConnections
PROPERTIES EventuallyDropped
CHECK_DEADLOCK FALSE
