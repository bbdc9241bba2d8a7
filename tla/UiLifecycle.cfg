CONSTANTS
    c1 = c1
    c2 = c2
    Clients <- MCClients
    Requests <- MCRequests
    Malformed = malformed
    Plain = {"index.html"}
    Encoded = {}
    IdSpace = 1
    StopThread = "main"
    MaxOpens <- MCMaxOpens
SPECIFICATION UiFairSpec
INVARIANTS UiTypeOK AtMostOneSlipsThrough
PROPERTIES GoneIsGone JoinReturns OnlyTheRunningHandlerGoesOn
CHECK_DEADLOCK FALSE
